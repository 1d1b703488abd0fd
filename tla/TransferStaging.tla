----------------------------- MODULE TransferStaging -----------------------------
(***************************************************************************)
(* The filesystem side of approved transfers towards this machine: files   *)
(* and links are staged in hidden temporary directories beside their       *)
(* destinations, and appear only when the remote finishes the transfer.    *)
(* One executor serves all transfers of a terminal session, one command at *)
(* a time; only the commit of a finished transfer is taken apart, because  *)
(* each of its renames is visible to the rest of the machine.              *)
(*                                                                         *)
(* Abstracted: names, metadata and bytes (a file is its length), the two   *)
(* decoders (any prefix of what a command carries may come out before an   *)
(* error), and other programs that touch the same directories.             *)
(***************************************************************************)
EXTENDS Integers, FiniteSets, FiniteSetsExt

CONSTANTS
    Transfers,                    \* transfer ids
    FileIds,                      \* ids of entries; numbers, for the order of the commit
    Places,                       \* destinations of files and links
    Dirs,                         \* directories that may come and go
    Below,                        \* what lies anywhere below a directory
    Occupied,                     \* destinations that exist before the first transfer
    Headers,                      \* the FILE commands that may arrive
    Unknown,                      \* the size of a file that declares none
    MaxFiles, MaxFileBytes, MaxSessionBytes,  \* TtyTransferLimits
    MaxTargetBytes,               \* MAX_FILE_TRANSFER_PATH_BYTES
    ChunkBound                    \* model bound on the bytes one command yields

ASSUME StagingAssumption ==
    /\ FileIds \subseteq Nat /\ IsFiniteSet(FileIds)
    /\ Below \in [Dirs -> SUBSET (Places \cup Dirs)]
    /\ \A d \in Dirs : \A x \in Below[d] \cap Dirs : Below[x] \subseteq Below[d]
    /\ Places \cap Dirs = {}
    /\ Occupied \subseteq Places
    /\ Headers \subseteq
         [transfer : Transfers, id : FileIds, kind : {"file", "symlink", "link", "dir"},
          at : Places \cup Dirs, size : Nat \cup {Unknown}, rsync : BOOLEAN]
    /\ \A h \in Headers : h.kind = "dir" <=> h.at \in Dirs
    /\ Unknown \notin Nat
    /\ MaxFiles \in Nat \ {0} /\ MaxFileBytes \in Nat \ {0} /\ MaxSessionBytes \in Nat
    /\ MaxFileBytes <= MaxSessionBytes
    /\ MaxTargetBytes \in Nat /\ ChunkBound \in Nat

VARIABLES
    open,       \* transfers that have a SendSession
    entry,      \* what each of their ids stands for
    reserved,   \* reserved_bytes
    consumed,   \* consumed_bytes
    dirs,       \* the directories that exist
    visible,    \* what is at each destination
    commit,     \* the transfer being committed and what is left of it
    spent,      \* history: bytes a transfer wrote to staged files and counted
    stray       \* history: bytes it wrote there and did not count

vars == <<open, entry, reserved, consumed, dirs, visible, commit, spent, stray>>

Absent   == [kind |-> "absent"]
Rejected == [kind |-> "rejected"]

NoEntries == [f \in FileIds |-> Absent]

Content(kind, bytes, size) == [kind |-> kind, bytes |-> bytes, size |-> size]

NoCommit == [transfer |-> {}, files |-> {}, links |-> {}, dirs |-> {}]

Idle == commit = NoCommit

Init ==
    /\ open = {}
    /\ entry = [s \in Transfers |-> NoEntries]
    /\ reserved = [s \in Transfers |-> 0]
    /\ consumed = [s \in Transfers |-> 0]
    /\ dirs \in {D \in SUBSET Dirs : \A x \in Occupied \cup D : {d \in Dirs : x \in Below[d]} \subseteq D}
    /\ visible = [p \in Places |->
         IF p \in Occupied THEN Content("old", 0, Unknown) ELSE Content("none", 0, Unknown)]
    /\ commit = NoCommit
    /\ spent = [s \in Transfers |-> 0]
    /\ stray = [s \in Transfers |-> 0]

------------------------------------------------------------------------------
(* Entries of a transfer by kind.                                          *)
IdsOf(s, kind) == {f \in FileIds : entry[s][f].kind = kind}

Taken(s) == {f \in FileIds : entry[s][f] # Absent}

Larger(a, b)  == IF a < b THEN b ELSE a
Smaller(a, b) == IF a < b THEN a ELSE b

Left(a, b) == Larger(a - b, 0)          \* saturating_sub

Written(s) == MapThenSumSet(LAMBDA f : entry[s][f].written, IdsOf(s, "file"))

PlannedUnwritten(s) == Left(reserved[s], Written(s))

Above(x) == {d \in Dirs : x \in Below[d]}

TooLarge(s, held) ==
    \/ held > MaxFileBytes
    \/ consumed[s] + PlannedUnwritten(s) + held > MaxSessionBytes

Reservation(h) == IF h.kind = "file" /\ h.size # Unknown THEN h.size ELSE 0

(* A declared file reserves its size, an undeclared one grows; the limit   *)
(* of the temporary file itself is set here, once.                         *)
NewFile(h, viaRsync) ==
    [kind |-> "file", at |-> h.at, size |-> h.size, rsync |-> viaRsync,
     cap |-> IF h.size = Unknown
             THEN Smaller(MaxFileBytes, MaxSessionBytes - reserved[h.transfer])
             ELSE h.size,
     written |-> 0, held |-> Reservation(h), done |-> FALSE]

NewLink(h) == [kind |-> "link", at |-> h.at, hard |-> h.kind = "link", len |-> 0,
               done |-> FALSE, to |-> {}]

NewDir(h) == [kind |-> "dir", at |-> h.at, created |-> h.at \notin dirs]

Put(s, f, e) == entry' = [entry EXCEPT ![s][f] = e]

(* A FILE command opens the transfer, even when it is refused; a repeated  *)
(* or supernumerary id leaves no trace.                                    *)
RefuseEntry(h) ==
    /\ h.id \in Taken(h.transfer) \/ Cardinality(Taken(h.transfer)) >= MaxFiles
    /\ UNCHANGED <<entry, reserved, dirs>>

Admissible(h) ==
    h.id \notin Taken(h.transfer) /\ Cardinality(Taken(h.transfer)) < MaxFiles

(* A malformed header or one beyond the limits.                            *)
RejectHeader(h) ==
    /\ Admissible(h)
    /\ Put(h.transfer, h.id, Rejected)
    /\ UNCHANGED <<reserved, dirs>>

(* The parent directories are made first, one by one, and stay when a      *)
(* later call fails.                                                       *)
RejectByFilesystem(h) ==
    /\ Admissible(h) /\ ~TooLarge(h.transfer, Reservation(h))
    /\ Put(h.transfer, h.id, Rejected)
    /\ \E made \in SUBSET (Above(h.at) \ dirs) :
         /\ \A d \in made : Above(d) \subseteq dirs \cup made
         /\ dirs' = dirs \cup made
    /\ UNCHANGED reserved

(* An rsync transfer of a destination without a usable base file falls     *)
(* back to a whole one.                                                    *)
StageEntry(h) ==
    /\ Admissible(h) /\ ~TooLarge(h.transfer, Reservation(h))
    /\ CASE h.kind = "file" ->
              \E viaRsync \in {FALSE, h.rsync /\ visible[h.at].kind \in {"old", "new"}} :
                Put(h.transfer, h.id, NewFile(h, viaRsync))
         [] h.kind = "dir" -> Put(h.transfer, h.id, NewDir(h))
         [] OTHER -> Put(h.transfer, h.id, NewLink(h))
    /\ dirs' = dirs \cup Above(h.at) \cup ({h.at} \cap Dirs)
    /\ reserved' = [reserved EXCEPT ![h.transfer] = @ + Reservation(h)]

StageFile(h) ==
    /\ Idle
    /\ open' = open \cup {h.transfer}
    /\ RefuseEntry(h) \/ RejectHeader(h) \/ RejectByFilesystem(h) \/ StageEntry(h)
    /\ UNCHANGED <<consumed, visible, commit, spent, stray>>

------------------------------------------------------------------------------
(* What a rejected entry gives back.                                       *)
(* Fault: nothing.                                                         *)
ReleasedNever(e) == 0

Released(e) == IF e.kind = "file" THEN e.held ELSE 0

Reject(s, f) ==
    /\ Put(s, f, Rejected)
    /\ reserved' = [reserved EXCEPT ![s] = Left(@, Released(entry[s][f]))]

Active(s, f, kind) == Idle /\ s \in open /\ entry[s][f].kind = kind

(* DATA and END_DATA of a link that is complete, or too long.  The length  *)
(* of what is refused is charged all the same.                             *)
LinkOverflows(s, f, n) ==
    LET len == entry[s][f].len + n
    IN  len > MaxTargetBytes \/ len > MaxFileBytes \/ n > Left(MaxSessionBytes, consumed[s])

RejectLinkData(s, f, n) ==
    /\ Active(s, f, "link")
    /\ \/ entry[s][f].done /\ UNCHANGED consumed
       \/ /\ ~entry[s][f].done /\ LinkOverflows(s, f, n)
          /\ consumed' = [consumed EXCEPT ![s] = @ + n]
    /\ Reject(s, f)
    /\ UNCHANGED <<open, dirs, visible, commit, spent, stray>>

AddLinkData(s, f, n) ==
    /\ Active(s, f, "link") /\ ~entry[s][f].done /\ ~LinkOverflows(s, f, n)
    /\ consumed' = [consumed EXCEPT ![s] = @ + n]
    /\ Put(s, f, [entry[s][f] EXCEPT !.len = @ + n])
    /\ UNCHANGED <<open, reserved, dirs, visible, commit, spent, stray>>

(* The target is the id of an entry, or a path when `to' stays empty.      *)
EndLinkData(s, f, n) ==
    /\ Active(s, f, "link") /\ ~entry[s][f].done /\ ~LinkOverflows(s, f, n)
    /\ consumed' = [consumed EXCEPT ![s] = @ + n]
    /\ \/ Reject(s, f)
       \/ /\ \E to \in {{}} \cup {{g} : g \in FileIds} :
               Put(s, f, [entry[s][f] EXCEPT !.len = @ + n, !.done = TRUE, !.to = to])
          /\ UNCHANGED reserved
    /\ UNCHANGED <<open, dirs, visible, commit, spent, stray>>

------------------------------------------------------------------------------
(* How long a file may become, at this command.                            *)
(* Fault: only the limit of its own.                                       *)
OwnLimit(s, f) ==
    IF entry[s][f].size = Unknown THEN MaxFileBytes ELSE Smaller(entry[s][f].size, MaxFileBytes)

OutputLimit(s, f) ==
    Smaller(IF entry[s][f].size = Unknown THEN MaxFileBytes
            ELSE Smaller(entry[s][f].size, MaxFileBytes),
            entry[s][f].written + Left(MaxSessionBytes, consumed[s]))

Room(s, f) == Left(OutputLimit(s, f), entry[s][f].written)

(* What the temporary file of a delta still takes: set_limit() does not    *)
(* reach it.                                                               *)
CapRoom(s, f) == Left(entry[s][f].cap, entry[s][f].written)

Accepts(s, f) == IF entry[s][f].rsync THEN Smaller(Room(s, f), CapRoom(s, f)) ELSE Room(s, f)

Charge(s, n) ==
    /\ consumed' = [consumed EXCEPT ![s] = @ + n]
    /\ spent' = [spent EXCEPT ![s] = @ + n]

Outgrows(s, f, n) ==
    reserved[s] + Left(entry[s][f].written + n, entry[s][f].held) > MaxSessionBytes

Grown(s, f, n) ==
    [entry[s][f] EXCEPT !.written = @ + n, !.held = Larger(@, entry[s][f].written + n)]

Mismatch(e) == e.size # Unknown /\ e.size # e.written

DataAfterEnd(s, f) ==
    /\ Active(s, f, "file") /\ entry[s][f].done
    /\ Reject(s, f)
    /\ UNCHANGED <<open, consumed, dirs, visible, commit, spent, stray>>

(* A malformed or over-long stream, or a write error: a part of the        *)
(* command's n bytes is on disk already.  Of a delta the last piece may be *)
(* there without being counted.                                            *)
DataFails(s, f, n) ==
    /\ Active(s, f, "file") /\ ~entry[s][f].done
    /\ \E k \in 0..Smaller(n, Accepts(s, f)) :
         /\ Charge(s, k)
         /\ \/ UNCHANGED stray
            \/ /\ entry[s][f].rsync
               /\ \E lost \in 1..(Smaller(n, CapRoom(s, f)) - k) :
                    stray' = [stray EXCEPT ![s] = @ + lost]
    /\ Reject(s, f)
    /\ UNCHANGED <<open, dirs, visible, commit>>

AddData(s, f, n) ==
    /\ Active(s, f, "file") /\ ~entry[s][f].done
    /\ n <= Accepts(s, f)
    /\ Charge(s, n)
    /\ \/ Outgrows(s, f, n) /\ Reject(s, f)
       \/ /\ ~Outgrows(s, f, n)
          /\ Put(s, f, Grown(s, f, n))
          /\ reserved' = [reserved EXCEPT ![s] = @ + Left(entry[s][f].written + n, entry[s][f].held)]
    /\ UNCHANGED <<open, dirs, visible, commit, stray>>

(* The end may still reveal a truncated stream, a wrong length, or fail to *)
(* reach the disk.                                                         *)
EndData(s, f, n) ==
    /\ Active(s, f, "file") /\ ~entry[s][f].done
    /\ n <= Accepts(s, f)
    /\ Charge(s, n)
    /\ \/ Reject(s, f)
       \/ /\ ~Outgrows(s, f, n) /\ ~Mismatch(Grown(s, f, n))
          /\ Put(s, f, [Grown(s, f, n) EXCEPT !.done = TRUE])
          /\ reserved' = [reserved EXCEPT ![s] = @ + Left(entry[s][f].written + n, entry[s][f].held)]
    /\ UNCHANGED <<open, dirs, visible, commit, stray>>

------------------------------------------------------------------------------
(* Files and links whose temporary entry is on disk.                       *)
Staged == {x \in Transfers \X FileIds :
             /\ entry[x[1]][x[2]].kind \in {"file", "link"}
             /\ \/ x[1] \in open
                \/ x[1] \in commit.transfer /\ x[2] \in commit.files \cup commit.links}

Created(s) == {entry[s][f].at : f \in {g \in IdsOf(s, "dir") : entry[s][g].created}}

Shown(v) == {p \in Places : v[p].kind # "none"}

(* Removing the directories of D, deepest first and each if it is empty,   *)
(* while the entries of `kept' and what is visible in v are still there.   *)
(* Fault: whatever lies in them.                                           *)
RemovedBlindly(D, kept, v) == D \cap dirs

Removed(D, kept, v) ==
    LET there == dirs \cup Shown(v) \cup {entry[x[1]][x[2]].at : x \in kept}
    IN  {d \in D \cap dirs : Below[d] \cap there \subseteq D}

Sweep(D, kept) == dirs' = dirs \ Removed(D, kept, visible')

(* The session and all it holds are dropped.                               *)
(* Fault: the next transfer of the same id finds the entries again.        *)
ForgetTotals(s) ==
    /\ open' = open \ {s}
    /\ UNCHANGED entry
    /\ reserved' = [reserved EXCEPT ![s] = 0]
    /\ consumed' = [consumed EXCEPT ![s] = 0]
    /\ spent' = [spent EXCEPT ![s] = 0]
    /\ stray' = [stray EXCEPT ![s] = 0]

Forget(s) ==
    /\ open' = open \ {s}
    /\ entry' = [entry EXCEPT ![s] = NoEntries]
    /\ reserved' = [reserved EXCEPT ![s] = 0]
    /\ consumed' = [consumed EXCEPT ![s] = 0]
    /\ spent' = [spent EXCEPT ![s] = 0]
    /\ stray' = [stray EXCEPT ![s] = 0]

Others(s) == {x \in Staged : x[1] # s}

(* SendSession::abort(): the temporary files go first, so that the         *)
(* directories made for them are empty.                                    *)
(* Fault: the directories go first.                                        *)
HeldAtAbortAll(s) == Staged

HeldAtAbort(s) == Others(s)

Discard(s) ==
    /\ UNCHANGED visible
    /\ Forget(s)
    /\ Sweep(Created(s), HeldAtAbort(s))

(* Cancel or a refusal (Abort), or the end of the executor (Drop).         *)
Abort(s) ==
    /\ Idle /\ s \in open
    /\ Discard(s)
    /\ UNCHANGED commit

------------------------------------------------------------------------------
(* Fault: only links are checked.                                          *)
IncompleteLink(s) == \E f \in FileIds : entry[s][f].kind = "link" /\ ~entry[s][f].done

Incomplete(s) == \E f \in FileIds : entry[s][f].kind \in {"file", "link"} /\ ~entry[s][f].done

(* A hard link names a file of this transfer, a symbolic one any entry of  *)
(* it or a path.                                                           *)
Resolves(s, f) ==
    LET kinds == IF entry[s][f].hard THEN {"file"} ELSE {"file", "link", "dir"}
    IN  /\ entry[s][f].hard => entry[s][f].to # {}
        /\ \A g \in entry[s][f].to : entry[s][g].kind \in kinds

FinishIncomplete(s) ==
    /\ Idle /\ s \in open /\ Incomplete(s)
    /\ Discard(s)
    /\ UNCHANGED commit

(* A link that cannot be resolved or prepared: the files are dropped, the  *)
(* directories swept, and only then the links, which the commit has taken  *)
(* out of the session.                                                     *)
FinishUnresolved(s) ==
    /\ Idle /\ s \in open /\ ~Incomplete(s) /\ IdsOf(s, "link") # {}
    /\ UNCHANGED visible
    /\ Forget(s)
    /\ Sweep(Created(s), Others(s) \cup ({s} \X IdsOf(s, "link")))
    /\ UNCHANGED commit

BeginCommit(s) ==
    /\ Idle /\ s \in open /\ ~Incomplete(s)
    /\ \A f \in IdsOf(s, "link") : Resolves(s, f)
    /\ open' = open \ {s}
    /\ commit' = [transfer |-> {s}, files |-> IdsOf(s, "file"),
                  links |-> IdsOf(s, "link"), dirs |-> IdsOf(s, "dir")]
    /\ UNCHANGED <<entry, reserved, consumed, dirs, visible, spent, stray>>

Committing(s) == commit.transfer = {s}

(* Files in the order of their ids, then hard links, then symbolic ones.   *)
NextFile(f) == f \in commit.files /\ \A g \in commit.files : f <= g

NextLink(s, f) ==
    /\ commit.files = {} /\ f \in commit.links
    /\ entry[s][f].hard \/ \A g \in commit.links : ~entry[s][g].hard

FileContent(s, f) ==
    Content(IF entry[s][f].done THEN "new" ELSE "partial", entry[s][f].written, entry[s][f].size)

Linked(s, f) ==
    IF entry[s][f].hard THEN FileContent(s, CHOOSE g \in entry[s][f].to : TRUE)
    ELSE Content("symlink", 0, Unknown)

Rename(s, f, c) == visible' = [visible EXCEPT ![entry[s][f].at] = c]

PublishFile(s, f) ==
    /\ Committing(s) /\ NextFile(f)
    /\ Rename(s, f, FileContent(s, f))
    /\ commit' = [commit EXCEPT !.files = @ \ {f}]
    /\ UNCHANGED <<open, entry, reserved, consumed, dirs, spent, stray>>

PublishLink(s, f) ==
    /\ Committing(s) /\ NextLink(s, f)
    /\ Rename(s, f, Linked(s, f))
    /\ commit' = [commit EXCEPT !.links = @ \ {f}]
    /\ UNCHANGED <<open, entry, reserved, consumed, dirs, spent, stray>>

(* The commit fails at f, before its rename or after it.  Its directories  *)
(* are swept while what it has not renamed yet is still on disk; only a    *)
(* metadata error leaves f itself there.                                   *)
Abandon(s, f, content, heldToo) ==
    /\ \/ UNCHANGED visible
       \/ Rename(s, f, content)
    /\ commit' = NoCommit
    /\ Forget(s)
    /\ \E gone \in IF heldToo THEN {{}, {f}} ELSE {{f}} :
         Sweep(Created(s), Staged \ ({s} \X gone))

PublishFileFails(s, f) ==
    Committing(s) /\ NextFile(f) /\ Abandon(s, f, FileContent(s, f), TRUE)

PublishLinkFails(s, f) ==
    Committing(s) /\ NextLink(s, f) /\ Abandon(s, f, Linked(s, f), FALSE)

(* The innermost directory that is left.                                   *)
NextDir(s, f) ==
    /\ commit.files = {} /\ commit.links = {} /\ f \in commit.dirs
    /\ \A g \in commit.dirs : entry[s][g].at \notin Below[entry[s][f].at]

PublishDir(s, f) ==
    /\ Committing(s) /\ NextDir(s, f)
    /\ commit' = [commit EXCEPT !.dirs = @ \ {f}]
    /\ UNCHANGED <<open, entry, reserved, consumed, dirs, visible, spent, stray>>

PublishDirFails(s, f) ==
    /\ Committing(s) /\ NextDir(s, f)
    /\ UNCHANGED visible
    /\ Sweep({entry[s][g].at : g \in {x \in commit.dirs : entry[s][x].created}}, Staged)
    /\ Forget(s)
    /\ commit' = NoCommit

EndCommit(s) ==
    /\ Committing(s)
    /\ commit.files = {} /\ commit.links = {} /\ commit.dirs = {}
    /\ Forget(s)
    /\ commit' = NoCommit
    /\ UNCHANGED <<dirs, visible>>

------------------------------------------------------------------------------
Data(s, f) ==
    \E n \in 0..ChunkBound :
      \/ RejectLinkData(s, f, n) \/ AddLinkData(s, f, n) \/ EndLinkData(s, f, n)
      \/ DataFails(s, f, n) \/ AddData(s, f, n) \/ EndData(s, f, n)

Finish(s) ==
    \/ FinishIncomplete(s) \/ FinishUnresolved(s) \/ BeginCommit(s) \/ EndCommit(s)
    \/ \E f \in FileIds :
         \/ PublishFile(s, f) \/ PublishFileFails(s, f)
         \/ PublishLink(s, f) \/ PublishLinkFails(s, f)
         \/ PublishDir(s, f) \/ PublishDirFails(s, f)

Next ==
    \/ \E h \in Headers : StageFile(h)
    \/ \E s \in Transfers : Abort(s) \/ Finish(s)
    \/ \E s \in Transfers, f \in FileIds : DataAfterEnd(s, f) \/ Data(s, f)

Spec == Init /\ [][Next]_vars
=============================================================================
