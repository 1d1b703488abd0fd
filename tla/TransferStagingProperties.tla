----------------------- MODULE TransferStagingProperties -----------------------
(***************************************************************************)
(* What staging guarantees: its budget, its bookkeeping, the directory     *)
(* tree it leaves behind, and what it lets the machine see.                *)
(***************************************************************************)
EXTENDS TransferStaging

Sizes == Nat \cup {Unknown}

FileType ==
    [kind : {"file"}, at : Places, size : Sizes, rsync : BOOLEAN, cap : Int,
     written : Nat, held : Nat, done : BOOLEAN]

LinkType ==
    [kind : {"link"}, at : Places, hard : BOOLEAN, len : Nat, done : BOOLEAN,
     to : SUBSET FileIds]

DirType == [kind : {"dir"}, at : Dirs, created : BOOLEAN]

EntryType == {Absent, Rejected} \cup FileType \cup LinkType \cup DirType

ContentType ==
    [kind : {"none", "old", "new", "partial", "symlink"}, bytes : Nat, size : Sizes]

(* Every variable has its type; only a transfer that is open or being      *)
(* committed has entries, and a commit has no entry left that is not of    *)
(* its kind (SendSession).                                                 *)
StagingTypeOK ==
    /\ open \in SUBSET Transfers
    /\ entry \in [Transfers -> [FileIds -> EntryType]]
    /\ reserved \in [Transfers -> Nat] /\ consumed \in [Transfers -> Nat]
    /\ spent \in [Transfers -> Nat] /\ stray \in [Transfers -> Nat]
    /\ dirs \in SUBSET Dirs
    /\ visible \in [Places -> ContentType]
    /\ commit \in [transfer : SUBSET (Transfers \ open), files : SUBSET FileIds,
                   links : SUBSET FileIds, dirs : SUBSET FileIds]
    /\ commit.transfer = {} => Idle
    /\ \A s \in Transfers \ (open \cup commit.transfer) : entry[s] = NoEntries
    /\ \A s \in commit.transfer :
         /\ commit.transfer = {s}
         /\ commit.files \subseteq IdsOf(s, "file")
         /\ commit.links \subseteq IdsOf(s, "link")
         /\ commit.dirs \subseteq IdsOf(s, "dir")

(* A transfer never puts more than its session limit on disk, whatever it  *)
(* declares, leaves undeclared, repeats or has rejected: what is written   *)
(* for entries that are discarded counts as well (write_file_data).  Only  *)
(* the last piece of a broken delta escapes the count.                     *)
BudgetKept == \A s \in Transfers : spent[s] <= MaxSessionBytes

(* The totals agree with the entries: what is reserved is what the live    *)
(* files hold, never above the limit (the subtraction in stage_file does   *)
(* not saturate), and what they have written has been charged.             *)
AccountingExact ==
    \A s \in Transfers :
      /\ reserved[s] = MapThenSumSet(LAMBDA f : entry[s][f].held, IdsOf(s, "file"))
      /\ reserved[s] <= MaxSessionBytes
      /\ Written(s) <= consumed[s]

(* No transfer removes a directory under the temporary entries of another, *)
(* under what is visible or under another directory, so that no rename of  *)
(* a commit loses its parent (StagedDirectory::cleanup).                   *)
TreeConsistent ==
    /\ \A x \in Staged : Above(entry[x[1]][x[2]].at) \subseteq dirs
    /\ \A y \in Shown(visible) \cup dirs : Above(y) \subseteq dirs

Empty(d) ==
    Below[d] \cap (dirs \cup Shown(visible) \cup {entry[x[1]][x[2]].at : x \in Staged}) = {}

(* The sweep of a failed commit misses the directories that hold what the  *)
(* commit has not renamed.                                                 *)
LeftByFailedCommit(s, d) ==
    /\ FinishUnresolved(s) \/ Committing(s)
    /\ \E f \in FileIds : <<s, f>> \in Staged /\ entry[s][f].at \in Below[d]

(* A directory entry that a transfer created does not survive it as an     *)
(* empty directory, unless its commit published it, however the transfers  *)
(* that share a tree end.  Parents that were made for another entry are    *)
(* not meant: those of a rejected one stay (SendSession::abort).           *)
CreatedDirsSwept ==
    [][\A s \in Transfers, f \in FileIds, d \in Dirs :
         /\ f \in IdsOf(s, "dir") /\ entry[s][f].created /\ entry[s][f].at = d
         /\ entry'[s][f] # entry[s][f]
         /\ f \in commit.dirs \/ s \notin commit.transfer
         => d \notin dirs' \/ ~Empty(d)' \/ LeftByFailedCommit(s, d)]_vars

Batch ==
    {[at |-> entry[x[1]][x[2]].at, id |-> x[2],
      content |-> IF x[2] \in commit.files THEN FileContent(x[1], x[2]) ELSE Linked(x[1], x[2])] :
        x \in commit.transfer \X (commit.files \cup commit.links)}

Publication ==
    INSTANCE TransferPublication WITH Ids <- FileIds, shown <- visible, batch <- Batch

(* Destinations change only by the commit of a finished transfer, one      *)
(* whole item at a time (commit_session).                                  *)
PublishesWhole == Publication!Spec
=============================================================================
