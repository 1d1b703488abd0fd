---------------------------- MODULE MCTtyTransfer ----------------------------
(***************************************************************************)
(* Small instances of the transfer actor for TLC.                          *)
(***************************************************************************)
EXTENDS TtyTransferProperties, TLC

CONSTANTS t1, t2, f1, f2, p1, p2

Cmd(op, id) ==
    [op |-> op, id |-> id, file |-> NoFile, path |-> NoPath, size |-> NoSize, quiet |-> 0]

FileCmd(id, f, p) == [Cmd("File", id) EXCEPT !.file = f, !.path = p]

ReceiveCmd(id, n) == [Cmd("Receive", id) EXCEPT !.size = n]

(* A transfer id used in both directions, closed, cancelled and reused,    *)
(* next to a quiet one.                                                    *)
ConsentCommands ==
    {Cmd("Send", t1), ReceiveCmd(t1, 1), FileCmd(t1, f1, p1), Cmd("Finish", t1),
     Cmd("Cancel", t1), [Cmd("Send", t2) EXCEPT !.quiet = 2]}

ConsentCommandsOfT1 == {c \in ConsentCommands : c.id = t1}

(* One receive session that announces two paths, which arrive one at a     *)
(* time and in either order, for the races around the worker.              *)
LivenessCommands ==
    {ReceiveCmd(t1, 2), FileCmd(t1, f1, p1), FileCmd(t1, f2, p2)}

ClientSymmetry == Permutations(Clients)
=============================================================================
