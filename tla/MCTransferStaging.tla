--------------------------- MODULE MCTransferStaging ---------------------------
(***************************************************************************)
(* A small instance of staging for TLC.                                    *)
(***************************************************************************)
EXTENDS TransferStagingProperties, TLC

CONSTANTS t1, t2, a, b, d, e

(* Directory e in directory d, file a in e, file b outside of both.        *)
Tree == (d :> {a, e}) @@ (e :> {a})

Header(t, f, k, at) ==
    [transfer |-> t, id |-> f, kind |-> k, at |-> at, size |-> Unknown, rsync |-> FALSE]

(* t1: a declared file, and an undeclared one by delta or a link to the    *)
(* first.  t2: the directories of the tree, and a link in them.            *)
SmallHeaders ==
    {[Header(t1, 1, "file", a) EXCEPT !.size = 1],
     [Header(t1, 2, "file", b) EXCEPT !.rsync = TRUE], Header(t1, 2, "link", a),
     Header(t2, 1, "dir", d), Header(t2, 2, "dir", e), Header(t2, 3, "symlink", a)}
=============================================================================
