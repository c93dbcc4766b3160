------------------------------ MODULE Pingpong ------------------------------
(***************************************************************************)
(* src/user/pingpong.c: main creates two pipes and forks; the parent      *)
(* writes "ping" into p1 and reads p2, the child reads p1 and writes      *)
(* "pong" into p2.  Each process runs its branch of main as a sequence of *)
(* system calls; one action per kind of call interprets the call at the   *)
(* process's instruction pointer.  A call takes effect atomically, as the *)
(* xv6 pipe code does for a 5-byte transfer under the pipe lock: read     *)
(* blocks while the pipe is empty and a write end is open, returns 0 once *)
(* every write end is closed, write returns -1 when no read end is open,  *)
(* and a call on a closed descriptor returns -1.                           *)
(***************************************************************************)
EXTENDS Naturals, Sequences, SequencesExt

CONSTANT LineLen  \* characters in a printed line (putc writes them one by one)

Procs == {"parent", "child"}
Pipes == {1, 2}
Fds == {"p1r", "p1w", "p2r", "p2w"}
PipeOf == [f \in Fds |-> IF f \in {"p1r", "p1w"} THEN 1 ELSE 2]
WriteEnd == [p \in Pipes |-> IF p = 1 THEN "p1w" ELSE "p2w"]
ReadEnd == [p \in Pipes |-> IF p = 1 THEN "p1r" ELSE "p2r"]
Msgs == {"ping", "pong"}
EOF == "eof"       \* read returned 0: no write end is open
Err == "err"       \* read returned -1: the descriptor is closed

Close(f) == [op |-> "close", fd |-> f]
ReadFd(f) == [op |-> "read", fd |-> f]
WriteFd(f, m) == [op |-> "write", fd |-> f, msg |-> m]
PrintMsg(m) == [op |-> "print", msg |-> m]

(* Bug variants of the child's branch, for checking the properties below. *)
(* The child writes "pong" before it prints that it received "ping".      *)
ChildProgPongFirst == << Close("p1w"), ReadFd("p1r"), Close("p1r"),
                         Close("p2r"), WriteFd("p2w", "pong"), PrintMsg("ping"),
                         Close("p2w"), [op |-> "exit"] >>

(* The child closes p2[1] before writing to it.                            *)
ChildProgCloseEarly == << Close("p1w"), ReadFd("p1r"), Close("p1r"),
                          PrintMsg("ping"), Close("p2r"), Close("p2w"),
                          WriteFd("p2w", "pong"), [op |-> "exit"] >>

(* The child reads from p2[0] instead of p1[0].                            *)
ChildProgWrongPipe == << Close("p1w"), ReadFd("p2r"), Close("p1r"),
                         PrintMsg("ping"), Close("p2r"), WriteFd("p2w", "pong"),
                         Close("p2w"), [op |-> "exit"] >>

(* pingpong.c lines 7-9: pipe(p1); pipe(p2); pid = fork().                *)
MainProg == << [op |-> "pipe", pipe |-> 1], [op |-> "pipe", pipe |-> 2],
               [op |-> "fork"] >>

(* Lines 13-19 and 32: the child's branch, then exit(0).                   *)
ChildProg == << Close("p1w"), ReadFd("p1r"), Close("p1r"), PrintMsg("ping"),
                Close("p2r"), WriteFd("p2w", "pong"), Close("p2w"),
                [op |-> "exit"] >>

(* Lines 24-30 and 32: the parent's branch, then exit(0).                  *)
ParentProg == << Close("p1r"), WriteFd("p1w", "ping"), Close("p1w"),
                 Close("p2w"), ReadFd("p2r"), Close("p2r"), PrintMsg("pong"),
                 [op |-> "exit"] >>

VARIABLES
  code,    \* code[p]: the calls process p runs (<<>> before it is forked)
  ip,      \* ip[p]: index in code[p] of p's next call
  fds,     \* fds[p]: the descriptors p has open
  pipebuf, \* pipebuf[i]: the messages written into pipe i and not yet read
  got,     \* got[p]: what p's last read returned
  col,     \* col[p]: characters of p's current printf already written
  out      \* the characters written to the console, as <<process, message>>

vars == <<code, ip, fds, pipebuf, got, col, out>>

Init ==
  /\ code = [p \in Procs |-> IF p = "parent" THEN MainProg ELSE << >>]
  /\ ip = [p \in Procs |-> 1]
  /\ fds = [p \in Procs |-> {}]
  /\ pipebuf = [i \in Pipes |-> << >>]
  /\ got = [p \in Procs |-> Err]
  /\ col = [p \in Procs |-> 0]
  /\ out = << >>

Live(p) == ip[p] <= Len(code[p])
Instr(p) == code[p][ip[p]]
WritersOpen(i) == \E q \in Procs : WriteEnd[i] \in fds[q]
ReadersOpen(i) == \E q \in Procs : ReadEnd[i] \in fds[q]
Advance(p) == ip' = [ip EXCEPT ![p] = @ + 1]

(* pipe(p): a fresh pipe with both ends open in the caller.                *)
PipeCall(p) ==
  /\ Live(p) /\ Instr(p).op = "pipe"
  /\ fds' = [fds EXCEPT ![p] = @ \cup {ReadEnd[Instr(p).pipe], WriteEnd[Instr(p).pipe]}]
  /\ Advance(p)
  /\ UNCHANGED <<code, pipebuf, got, col, out>>

(* pid = fork(); if(pid == 0) ... else ...: the child starts its branch  *)
(* with a copy of the parent's descriptors, the parent takes the else     *)
(* branch.  PingpongForkFail adds fork's failure.                         *)
Fork(p) ==
  /\ Live(p) /\ Instr(p).op = "fork"
  /\ code' = [code EXCEPT !["parent"] = ParentProg, !["child"] = ChildProg]
  /\ fds' = [fds EXCEPT !["child"] = fds["parent"]]
  /\ ip' = [ip EXCEPT !["parent"] = 1, !["child"] = 1]
  /\ UNCHANGED <<pipebuf, got, col, out>>

(* close(fd): drops p's reference; the end closes with its last one.      *)
CloseCall(p) ==
  /\ Live(p) /\ Instr(p).op = "close"
  /\ fds' = [fds EXCEPT ![p] = @ \ {Instr(p).fd}]
  /\ Advance(p)
  /\ UNCHANGED <<code, pipebuf, got, col, out>>

(* read(fd, buf, 5): -1 on a closed descriptor; otherwise piperead sleeps *)
(* while the pipe is empty and a write end is open, then returns the      *)
(* 5 bytes written, or 0 when the pipe is empty and every write end is    *)
(* closed.                                                                 *)
ReadCall(p) ==
  LET f == Instr(p).fd
      i == PipeOf[f]
  IN /\ Live(p) /\ Instr(p).op = "read"
     /\ f \notin fds[p] \/ pipebuf[i] # << >> \/ ~WritersOpen(i)
     /\ got' = [got EXCEPT ![p] = CASE f \notin fds[p]  -> Err
                                    []  pipebuf[i] # << >> -> Head(pipebuf[i])
                                    []  OTHER -> EOF]
     /\ pipebuf' = IF f \in fds[p] /\ pipebuf[i] # << >>
                   THEN [pipebuf EXCEPT ![i] = Tail(@)]
                   ELSE pipebuf
     /\ Advance(p)
     /\ UNCHANGED <<code, fds, col, out>>

(* write(fd, msg, 5): pipewrite appends the 5 bytes when a read end is    *)
(* open; it returns -1, writing nothing, when the descriptor is closed or *)
(* no read end is open.  The result is not looked at.                     *)
WriteCall(p) ==
  LET f == Instr(p).fd
      i == PipeOf[f]
  IN /\ Live(p) /\ Instr(p).op = "write"
     /\ pipebuf' = IF f \in fds[p] /\ ReadersOpen(i)
                   THEN [pipebuf EXCEPT ![i] = Append(@, Instr(p).msg)]
                   ELSE pipebuf
     /\ Advance(p)
     /\ UNCHANGED <<code, fds, got, col, out>>

(* printf("%d: received ...\n", getpid()), whatever the read returned:   *)
(* vprintf's putc issues write(1, &c, 1) for each character, so a line    *)
(* reaches the console as LineLen separate system calls.                   *)
PrintCall(p) ==
  /\ Live(p) /\ Instr(p).op = "print"
  /\ out' = Append(out, <<p, Instr(p).msg>>)
  /\ IF col[p] + 1 = LineLen
       THEN Advance(p) /\ col' = [col EXCEPT ![p] = 0]
       ELSE UNCHANGED ip /\ col' = [col EXCEPT ![p] = @ + 1]
  /\ UNCHANGED <<code, fds, pipebuf, got>>

(* exit(0): the kernel closes every descriptor p still has open.          *)
ExitCall(p) ==
  /\ Live(p) /\ Instr(p).op = "exit"
  /\ fds' = [fds EXCEPT ![p] = {}]
  /\ Advance(p)
  /\ UNCHANGED <<code, pipebuf, got, col, out>>

Step(p) ==
  \/ PipeCall(p) \/ Fork(p) \/ CloseCall(p) \/ ReadCall(p) \/ WriteCall(p)
  \/ PrintCall(p) \/ ExitCall(p)

Next == \E p \in Procs : Step(p)

(* The xv6 scheduler runs every RUNNABLE process in turn, and a process   *)
(* asleep in piperead is woken by the pipewrite or pipeclose that enables *)
(* its read: a process that can take a step keeps being able to until it *)
(* does, so weak fairness per process is what the kernel guarantees.      *)
Spec == Init /\ [][Next]_vars /\ \A p \in Procs : WF_vars(Step(p))
-----------------------------------------------------------------------------
(* "received ping" is printed before "received pong": every character   *)
(* of the pong line follows the whole ping line, since the parent can     *)
(* only read pong after the child has printed and then written it.        *)
PingBeforePong ==
  \A k \in 1..Len(out) :
     out[k][2] = "pong" =>
       Len(SelectSeq(SubSeq(out, 1, k), LAMBDA c : c[2] = "ping")) = LineLen

(* The parent prints "received pong" only when its read of p2[0] returned *)
(* the child's "pong" (the read's result is not checked at line 28).      *)
PongOnlyWhenReceived ==
  \A k \in 1..Len(out) : out[k] = <<"parent", "pong">> => got["parent"] = "pong"

(* The program terminates: both processes eventually reach exit, so       *)
(* neither is left asleep in piperead.                                     *)
Termination == <>(\A p \in Procs : ~Live(p))
=============================================================================
