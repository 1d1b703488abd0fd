------------------------- MODULE TransferStagingProofs -------------------------
(***************************************************************************)
(* The budget, the accounts, the directory tree and the publication of     *)
(* staged transfers, for any number of transfers, entries, destinations    *)
(* and directories.                                                        *)
(* The steps of a transfer that is being received change one entry, those  *)
(* that end one forget it: a lemma for each of the two carries most of the *)
(* invariant, and one lemma for each action cites it.                      *)
(***************************************************************************)
EXTENDS TransferStagingProperties, FiniteSetTheorems, TLAPS

(* What was written was charged, and what was charged for links only adds. *)
ChargedFirst == \A s \in Transfers : spent[s] <= consumed[s]

(* A file that is done has the length it declared.                         *)
WholeWhenDone ==
    \A s \in Transfers, f \in FileIds :
      entry[s][f].kind = "file" /\ entry[s][f].done =>
        entry[s][f].size \in {Unknown, entry[s][f].written}

(* What is being committed is complete, and its links lead somewhere.      *)
CommitReady ==
    \A s \in commit.transfer :
      ~Incomplete(s) /\ \A f \in commit.links : Resolves(s, f)

StagingInv ==
    /\ StagingTypeOK /\ BudgetKept /\ ChargedFirst
    /\ TreeConsistent /\ WholeWhenDone /\ CommitReady

------------------------------------------------------------------------------
(* The kind of an entry tells which record it is.                          *)
LEMMA EntryKinds ==
    ASSUME NEW x \in EntryType
    PROVE  /\ x.kind = "file" => x \in FileType
           /\ x.kind = "link" => x \in LinkType
           /\ x.kind = "dir" => x \in DirType
           /\ x.kind \in {"absent", "rejected", "file", "link", "dir"}
BY DEF EntryType, FileType, LinkType, DirType, Absent, Rejected

(* What is above something that is above x is above x.                     *)
LEMMA AboveAbove ==
    ASSUME NEW x, NEW d \in Above(x)
    PROVE  d \in Dirs /\ Above(d) \subseteq Above(x)
BY StagingAssumption DEF Above

(* A staged entry is that of an open transfer or of the one committed.     *)
LEMMA StagedIs ==
    ASSUME NEW s \in Transfers, NEW f \in FileIds
    PROVE  <<s, f>> \in Staged <=>
             /\ entry[s][f].kind \in {"file", "link"}
             /\ s \in open \/ (s \in commit.transfer /\ f \in commit.files \cup commit.links)
BY DEF Staged

(* Every staged entry has a transfer and an id.                            *)
LEMMA StagedPair ==
    ASSUME NEW x \in Staged
    PROVE  x[1] \in Transfers /\ x[2] \in FileIds /\ x = <<x[1], x[2]>>
BY DEF Staged


------------------------------------------------------------------------------
(* While nothing is being committed, a step that changes one entry of a    *)
(* transfer keeps the invariant when the new entry is sound.               *)
LEMMA PutStep ==
    ASSUME StagingInv, Idle, UNCHANGED <<commit, visible>>,
           NEW s \in Transfers, NEW f \in FileIds, NEW e \in EntryType,
           Put(s, f, e), open' = open \cup {s},
           reserved' \in [Transfers -> Nat], consumed' \in [Transfers -> Nat],
           spent' \in [Transfers -> Nat], stray' \in [Transfers -> Nat],
           dirs' \subseteq Dirs, dirs \subseteq dirs',
           \A d \in dirs' : Above(d) \subseteq dirs',
           e.kind \in {"file", "link"} => Above(e.at) \subseteq dirs',
           e.kind = "file" /\ e.done => e.size \in {Unknown, e.written},
           \A t \in Transfers : spent'[t] <= consumed'[t] /\ spent'[t] <= MaxSessionBytes
    PROVE  StagingInv'
<1> USE DEF StagingInv
<1>1. /\ entry' \in [Transfers -> [FileIds -> EntryType]]
      /\ \A t \in Transfers, g \in FileIds :
           entry'[t][g] = IF t = s /\ g = f THEN e ELSE entry[t][g]
      /\ \A t \in Transfers \ {s} : entry'[t] = entry[t]
  BY DEF Put, StagingTypeOK
<1>2. StagingTypeOK'
  <2>1. commit' = NoCommit /\ open' \in SUBSET Transfers
    BY DEF Idle, StagingTypeOK
  <2>2. \A t \in Transfers \ (open' \cup commit'.transfer) : entry'[t] = NoEntries
    BY <1>1, <2>1 DEF Idle, NoCommit, StagingTypeOK
  <2>3. commit' \in [transfer : SUBSET (Transfers \ open'), files : SUBSET FileIds,
                     links : SUBSET FileIds, dirs : SUBSET FileIds]
    BY <2>1 DEF NoCommit
  <2> QED
    BY <1>1, <2>1, <2>2, <2>3 DEF StagingTypeOK, Idle, NoCommit
<1>3. TreeConsistent'
  <2>1. ASSUME NEW x \in Staged'
        PROVE  Above(entry[x[1]][x[2]].at)' \subseteq dirs'
    <3>1. /\ x[1] \in Transfers /\ x[2] \in FileIds /\ x[1] \in open \cup {s}
          /\ entry'[x[1]][x[2]].kind \in {"file", "link"}
      BY <2>1 DEF Staged, Idle, NoCommit
    <3>2. CASE x[1] = s /\ x[2] = f
      BY <1>1, <3>1, <3>2 DEF Above
    <3>3. CASE ~(x[1] = s /\ x[2] = f)
      <4>1. entry'[x[1]][x[2]] = entry[x[1]][x[2]]
        BY <1>1, <3>1, <3>3
      <4>2. x[1] \in open
        <5>1. entry[x[1]] # NoEntries
          BY <3>1, <4>1 DEF NoEntries, Absent
        <5>2. x[1] \in open \cup commit.transfer
          BY <3>1, <5>1 DEF StagingTypeOK
        <5> QED
          BY <5>2 DEF Idle, NoCommit
      <4>3. x \in Staged
        BY <2>1, <3>1, <4>1, <4>2 DEF Staged
      <4> QED
        BY <4>1, <4>3 DEF TreeConsistent, Above
    <3> QED
      BY <3>2, <3>3
  <2>2. \A y \in Shown(visible) \cup dirs' : Above(y) \subseteq dirs'
    BY DEF TreeConsistent
  <2>3. Shown(visible)' = Shown(visible)
    BY DEF Shown
  <2> QED
    BY <2>1, <2>2, <2>3 DEF TreeConsistent, Above
<1>4. WholeWhenDone'
  <2> SUFFICES ASSUME NEW t \in Transfers, NEW g \in FileIds,
                      entry'[t][g].kind = "file", entry'[t][g].done
               PROVE  entry'[t][g].size \in {Unknown, entry'[t][g].written}
    BY DEF WholeWhenDone
  <2>1. CASE t = s /\ g = f
    <3>1. entry'[t][g] = e
      BY <1>1, <2>1
    <3> QED
      BY <3>1
  <2>2. CASE ~(t = s /\ g = f)
    <3>1. entry'[t][g] = entry[t][g]
      BY <1>1, <2>2
    <3> QED
      BY <3>1 DEF WholeWhenDone
  <2> QED
    BY <2>1, <2>2
<1>5. BudgetKept' /\ ChargedFirst'
  BY DEF BudgetKept, ChargedFirst
<1>6. CommitReady'
  BY DEF CommitReady, Idle, NoCommit
<1> QED
  BY <1>2, <1>3, <1>4, <1>5, <1>6

(* Sweeping directories leaves no gap above what is still there.           *)
LEMMA SweepTree ==
    ASSUME StagingInv, NEW s \in Transfers, Forget(s), commit' = NoCommit,
           commit.transfer \subseteq {s}, NEW D, NEW kept, Others(s) \subseteq kept, kept \subseteq Staged,
           D \subseteq Dirs, Sweep(D, kept),
           \A y \in Shown(visible') : Above(y) \subseteq dirs
    PROVE  TreeConsistent' /\ dirs' \subseteq dirs
<1> USE DEF StagingInv
<1> DEFINE there == dirs \cup Shown(visible') \cup {entry[x[1]][x[2]].at : x \in kept}
           gone == {d \in D \cap dirs : Below[d] \cap there \subseteq D}
<1>1. dirs' = dirs \ gone
  BY DEF Sweep, Removed
<1>2. ASSUME NEW y \in there \cap Places, Above(y) \subseteq dirs
      PROVE  Above(y) \subseteq dirs'
  BY <1>1, <1>2, StagingAssumption DEF Above
<1>3. ASSUME NEW y \in dirs'
      PROVE  Above(y) \subseteq dirs'
  <2>1. y \in dirs /\ y \in Dirs /\ Above(y) \subseteq dirs
    BY <1>1 DEF TreeConsistent, StagingTypeOK
  <2>2. ASSUME NEW d \in Above(y), d \in gone
        PROVE  FALSE
    <3>1. Below[y] \subseteq Below[d] /\ y \in Below[d]
      BY <2>1, StagingAssumption DEF Above
    <3>2. y \in D /\ Below[y] \cap there \subseteq D
      BY <2>1, <2>2, <3>1
    <3> QED
      BY <1>1, <2>1, <3>2
  <2> QED
    BY <1>1, <2>1, <2>2
<1>4. ASSUME NEW x \in Staged'
      PROVE  /\ x \in Others(s)
             /\ entry'[x[1]][x[2]] = entry[x[1]][x[2]]
  BY DEF Staged, Others, Forget, StagingTypeOK, NoCommit, NoEntries, Absent
<1>5. ASSUME NEW x \in Staged'
      PROVE  Above(entry'[x[1]][x[2]].at) \subseteq dirs'
  <2>1. x \in Staged /\ x \in kept
    BY <1>4 DEF Others
  <2>2. Above(entry[x[1]][x[2]].at) \subseteq dirs
    BY <2>1 DEF TreeConsistent
  <2>3. entry[x[1]][x[2]] \in FileType \cup LinkType
    BY <2>1, EntryKinds, StagedPair DEF Staged, StagingTypeOK
  <2>4. entry[x[1]][x[2]].at \in Places
    BY <2>3 DEF FileType, LinkType
  <2> QED
    BY <1>2, <1>4, <1>5, <2>1, <2>2, <2>4
<1>6. Shown(visible)' = Shown(visible') /\ Shown(visible') \subseteq Places
  BY DEF Shown
<1> QED
  BY <1>1, <1>2, <1>3, <1>5, <1>6 DEF TreeConsistent, Above

(* Forgetting a transfer keeps the rest of the invariant.                  *)
LEMMA ForgetStep ==
    ASSUME StagingInv, NEW s \in Transfers, Forget(s), commit' = NoCommit,
           commit.transfer \subseteq {s}, dirs' \subseteq dirs,
           visible' \in [Places -> ContentType], TreeConsistent'
    PROVE  StagingInv'
<1> USE DEF StagingInv
<1>1. /\ entry' \in [Transfers -> [FileIds -> EntryType]]
      /\ entry'[s] = NoEntries /\ \A t \in Transfers \ {s} : entry'[t] = entry[t]
  BY DEF Forget, StagingTypeOK, NoEntries, EntryType
<1>2. StagingTypeOK'
  <2>1. /\ reserved' \in [Transfers -> Nat] /\ consumed' \in [Transfers -> Nat]
        /\ spent' \in [Transfers -> Nat] /\ stray' \in [Transfers -> Nat]
        /\ open' \in SUBSET Transfers /\ dirs' \in SUBSET Dirs
    BY DEF Forget, StagingTypeOK
  <2>2. \A t \in Transfers \ open' : entry'[t] = NoEntries
    BY <1>1 DEF Forget, StagingTypeOK
  <2>3. commit' \in [transfer : SUBSET (Transfers \ open'), files : SUBSET FileIds,
                     links : SUBSET FileIds, dirs : SUBSET FileIds]
    BY DEF NoCommit
  <2> QED
    BY <1>1, <2>1, <2>2, <2>3 DEF StagingTypeOK, Idle, NoCommit
<1>3. WholeWhenDone'
  BY <1>1 DEF WholeWhenDone, NoEntries, Absent
<1>4. BudgetKept' /\ ChargedFirst'
  BY StagingAssumption DEF Forget, StagingTypeOK, BudgetKept, ChargedFirst
<1>5. CommitReady'
  BY DEF CommitReady, NoCommit
<1> QED
  BY <1>2, <1>3, <1>4, <1>5

------------------------------------------------------------------------------
(* Before the first transfer only complete directory trees exist.          *)
LEMMA InitStaging == Init => StagingInv
<1> SUFFICES ASSUME Init  PROVE StagingInv
  OBVIOUS
<1>1. StagingTypeOK
  <2>1. visible \in [Places -> ContentType]
    BY DEF Init, Content, ContentType, Sizes
  <2>2. entry \in [Transfers -> [FileIds -> EntryType]]
    BY DEF Init, NoEntries, EntryType
  <2>3. commit \in [transfer : SUBSET (Transfers \ open), files : SUBSET FileIds,
                    links : SUBSET FileIds, dirs : SUBSET FileIds]
    BY DEF Init, NoCommit
  <2> QED
    BY <2>1, <2>2, <2>3 DEF Init, StagingTypeOK, Idle, NoCommit
<1>2. TreeConsistent
  <2>1. Staged = {}
    BY DEF Init, Staged, NoEntries, Absent
  <2>2. Shown(visible) \subseteq Occupied
    BY DEF Init, Shown, Content
  <2> QED
    BY <2>1, <2>2 DEF Init, TreeConsistent, Above
<1>3. WholeWhenDone
  BY DEF Init, WholeWhenDone, NoEntries, Absent
<1>4. BudgetKept /\ ChargedFirst
  BY StagingAssumption DEF Init, BudgetKept, ChargedFirst
<1>5. CommitReady
  BY DEF Init, CommitReady, NoCommit
<1> QED
  BY <1>1, <1>2, <1>3, <1>4, <1>5 DEF StagingInv

(* What a rejected entry gives back and what is left are natural numbers.  *)
LEMMA LeftTyped ==
    ASSUME NEW a \in Int, NEW b \in Int
    PROVE  /\ Left(a, b) \in Nat /\ (a >= 0 /\ b >= 0 => Left(a, b) <= a)
           /\ Smaller(a, b) \in Int /\ Smaller(a, b) <= a /\ Smaller(a, b) <= b
           /\ Larger(a, b) \in Int /\ Larger(a, b) >= a /\ Larger(a, b) >= b
BY DEF Left, Larger, Smaller

(* A FILE command.                                                         *)
LEMMA StageFileStep ==
    ASSUME StagingInv, NEW h \in Headers, StageFile(h)
    PROVE  StagingInv'
<1> DEFINE s == h.transfer
           f == h.id
<1>1. /\ s \in Transfers /\ f \in FileIds /\ h.at \in Places \cup Dirs
      /\ h.kind \in {"file", "symlink", "link", "dir"} /\ h.size \in Sizes
      /\ h.rsync \in BOOLEAN /\ (h.kind = "dir" <=> h.at \in Dirs)
  BY StagingAssumption DEF Sizes
<1>2. /\ Idle /\ UNCHANGED <<commit, visible>> /\ open' = open \cup {s}
      /\ consumed' \in [Transfers -> Nat] /\ spent' \in [Transfers -> Nat]
      /\ stray' \in [Transfers -> Nat]
      /\ \A t \in Transfers : spent'[t] <= consumed'[t] /\ spent'[t] <= MaxSessionBytes
  BY DEF StageFile, StagingInv, StagingTypeOK, BudgetKept, ChargedFirst
<1>3. /\ reserved \in [Transfers -> Nat] /\ dirs \subseteq Dirs
      /\ \A d \in dirs : Above(d) \subseteq dirs
  BY DEF StagingInv, StagingTypeOK, TreeConsistent
<1>4. Rejected \in EntryType /\ Rejected.kind = "rejected"
  BY DEF EntryType, Rejected
<1>5. CASE RefuseEntry(h)
  <2>1. entry \in [Transfers -> [FileIds -> EntryType]]
    BY DEF StagingInv, StagingTypeOK
  <2>2. entry[s][f] \in EntryType /\ Put(s, f, entry[s][f])
    BY <1>1, <1>5, <2>1 DEF RefuseEntry, Put
  <2>3. ASSUME entry[s][f].kind \in {"file", "link"}
        PROVE  Above(entry[s][f].at) \subseteq dirs
    <3>1. entry[s] # NoEntries
      BY <1>1, <2>3 DEF NoEntries, Absent
    <3>2. s \in open
      BY <1>1, <1>2, <3>1 DEF StagingInv, StagingTypeOK, Idle, NoCommit
    <3>3. <<s, f>> \in Staged
      BY <1>1, <2>3, <3>2, StagedIs
    <3> QED
      BY <3>3 DEF StagingInv, TreeConsistent
  <2>4. entry[s][f].kind = "file" /\ entry[s][f].done =>
          entry[s][f].size \in {Unknown, entry[s][f].written}
    BY <1>1 DEF StagingInv, WholeWhenDone
  <2>5. dirs' = dirs /\ reserved' = reserved
    BY <1>5 DEF RefuseEntry
  <2> QED
    BY <1>1, <1>2, <1>3, <2>2, <2>3, <2>4, <2>5, PutStep
<1>6. CASE RejectHeader(h)
  <2>1. Put(s, f, Rejected) /\ dirs' = dirs /\ reserved' = reserved
    BY <1>6 DEF RejectHeader
  <2> QED
    BY <1>1, <1>2, <1>3, <1>4, <2>1, PutStep
<1>7. CASE RejectByFilesystem(h)
  <2>1. PICK made \in SUBSET (Above(h.at) \ dirs) :
           (\A d \in made : Above(d) \subseteq dirs \cup made) /\ dirs' = dirs \cup made
    BY <1>7 DEF RejectByFilesystem
  <2>2. made \subseteq Dirs
    BY <2>1 DEF Above
  <2>3. Put(s, f, Rejected) /\ reserved' = reserved
    BY <1>7 DEF RejectByFilesystem
  <2>4. dirs' \subseteq Dirs /\ dirs \subseteq dirs' /\ \A d \in dirs' : Above(d) \subseteq dirs'
    BY <1>3, <2>1, <2>2
  <2> QED
    BY <1>1, <1>2, <1>3, <1>4, <2>3, <2>4, PutStep
<1>8. CASE StageEntry(h)
  <2>1. PICK e \in EntryType :
          /\ Put(s, f, e) /\ e.kind \in {"file", "link", "dir"}
          /\ e.at = h.at
          /\ e.kind = "file" => ~e.done
    <3>1. CASE h.kind = "file"
      <4>1. PICK viaRsync \in BOOLEAN : Put(s, f, NewFile(h, viaRsync))
        BY <1>1, <1>8, <3>1 DEF StageEntry
      <4>2. Reservation(h) \in Nat
        BY <1>1 DEF Reservation, Sizes
      <4>3. NewFile(h, viaRsync).cap \in Int
        <5>1. MaxSessionBytes - reserved[s] \in Int /\ MaxFileBytes \in Int
          BY <1>1, <1>3, StagingAssumption
        <5>2. Smaller(MaxFileBytes, MaxSessionBytes - reserved[s]) \in Int
          BY <5>1, LeftTyped
        <5> QED
          BY <1>1, <5>2 DEF NewFile, Sizes
      <4>4. NewFile(h, viaRsync) \in FileType
        BY <1>1, <3>1, <4>2, <4>3 DEF NewFile, FileType
      <4> QED
        BY <4>1, <4>4 DEF NewFile, EntryType
    <3>2. CASE h.kind = "dir"
      <4>1. Put(s, f, NewDir(h))
        BY <1>8, <3>2 DEF StageEntry
      <4>2. NewDir(h) \in DirType
        BY <1>1, <3>2 DEF NewDir, DirType
      <4> QED
        BY <4>1, <4>2 DEF NewDir, EntryType
    <3>3. CASE h.kind \in {"link", "symlink"}
      <4>1. Put(s, f, NewLink(h))
        BY <1>8, <3>3 DEF StageEntry
      <4>2. NewLink(h) \in LinkType
        BY <1>1, <3>3 DEF NewLink, LinkType
      <4> QED
        BY <4>1, <4>2 DEF NewLink, EntryType
    <3> QED
      BY <1>1, <3>1, <3>2, <3>3
  <2>2. dirs' = dirs \cup Above(h.at) \cup ({h.at} \cap Dirs)
    BY <1>8 DEF StageEntry
  <2>3. /\ dirs' \subseteq Dirs /\ dirs \subseteq dirs' /\ Above(h.at) \subseteq dirs'
        /\ \A d \in dirs' : Above(d) \subseteq dirs'
    BY <1>3, <2>2, AboveAbove DEF Above
  <2>4. reserved' \in [Transfers -> Nat]
    BY <1>1, <1>3, <1>8 DEF StageEntry, Reservation, Sizes
  <2> QED
    BY <1>1, <1>2, <2>1, <2>3, <2>4, PutStep
<1> QED
  BY <1>5, <1>6, <1>7, <1>8 DEF StageFile

------------------------------------------------------------------------------
(* What DATA and END_DATA have in common: the entry keeps its place, no    *)
(* directory changes, and what is written is charged first.                *)
LEMMA DataStep ==
    ASSUME StagingInv, NEW s \in Transfers, NEW f \in FileIds, NEW kind \in {"file", "link"},
           Active(s, f, kind), UNCHANGED <<open, dirs, visible, commit>>,
           NEW e \in EntryType, Put(s, f, e),
           e = Rejected \/ e.at = entry[s][f].at,
           e.kind = "file" /\ e.done => e.size \in {Unknown, e.written},
           reserved' \in [Transfers -> Nat], stray' \in [Transfers -> Nat],
           NEW n \in Nat, consumed' = [consumed EXCEPT ![s] = @ + n],
           \/ spent' = spent
           \/ /\ spent' = [spent EXCEPT ![s] = @ + n]
              /\ n <= Left(MaxSessionBytes, consumed[s])
    PROVE  StagingInv'
<1>1. s \in open /\ Idle /\ entry[s][f].kind = kind
  BY DEF Active
<1>2. <<s, f>> \in Staged
  BY <1>1, StagedIs
<1>3. Above(entry[s][f].at) \subseteq dirs /\ dirs \subseteq Dirs /\ \A d \in dirs : Above(d) \subseteq dirs
  BY <1>2 DEF StagingInv, TreeConsistent, StagingTypeOK
<1>4. e.kind \in {"file", "link"} => Above(e.at) \subseteq dirs'
  BY <1>3 DEF Rejected
<1>5. /\ consumed \in [Transfers -> Nat] /\ spent \in [Transfers -> Nat] /\ MaxSessionBytes \in Nat
      /\ \A t \in Transfers : spent[t] <= consumed[t] /\ spent[t] <= MaxSessionBytes
  BY StagingAssumption DEF StagingInv, StagingTypeOK, BudgetKept, ChargedFirst
<1>6. consumed' \in [Transfers -> Nat] /\ spent' \in [Transfers -> Nat]
  BY <1>5
<1>7. ASSUME NEW t \in Transfers
      PROVE  spent'[t] <= consumed'[t] /\ spent'[t] <= MaxSessionBytes
  <2>1. CASE spent' = spent
    BY <1>5, <2>1
  <2>2. CASE /\ spent' = [spent EXCEPT ![s] = @ + n]
             /\ n <= Left(MaxSessionBytes, consumed[s])
    <3>1. consumed[s] + n <= MaxSessionBytes \/ n = 0
      BY <1>5, <2>2 DEF Left, Larger
    <3> QED
      BY <1>5, <2>2, <3>1
  <2> QED
    BY <2>1, <2>2
<1>8. open' = open \cup {s} /\ UNCHANGED <<commit, visible>>
  BY <1>1
<1> QED
  BY <1>1, <1>3, <1>4, <1>6, <1>7, <1>8, PutStep

(* A rejected entry gives back what it held.                               *)
LEMMA RejectTyped ==
    ASSUME StagingInv, NEW s \in Transfers, NEW f \in FileIds, Reject(s, f)
    PROVE  /\ Put(s, f, Rejected) /\ Rejected \in EntryType /\ Rejected.kind = "rejected"
           /\ reserved' \in [Transfers -> Nat]
<1>1. Released(entry[s][f]) \in Nat
  <2>1. entry[s][f] \in EntryType
    BY DEF StagingInv, StagingTypeOK
  <2> QED
    BY <2>1, EntryKinds DEF Released, FileType
<1>2. reserved \in [Transfers -> Nat]
  BY DEF StagingInv, StagingTypeOK
<1>3. Left(reserved[s], Released(entry[s][f])) \in Nat
  BY <1>1, <1>2, LeftTyped
<1> QED
  BY <1>2, <1>3 DEF Reject, EntryType, Rejected

(* The target of a link arrives, is complete, or is refused.               *)
LEMMA LinkDataStep ==
    ASSUME StagingInv, NEW s \in Transfers, NEW f \in FileIds, NEW n \in 0..ChunkBound,
           RejectLinkData(s, f, n) \/ AddLinkData(s, f, n) \/ EndLinkData(s, f, n)
    PROVE  StagingInv'
<1>1. /\ consumed \in [Transfers -> Nat] /\ reserved \in [Transfers -> Nat]
      /\ stray \in [Transfers -> Nat] /\ n \in Nat
  BY StagingAssumption DEF StagingInv, StagingTypeOK
<1>2. /\ Active(s, f, "link") /\ UNCHANGED <<open, dirs, visible, commit, spent, stray>>
      /\ entry[s][f] \in LinkType
  <2>1. Active(s, f, "link") /\ UNCHANGED <<open, dirs, visible, commit, spent, stray>>
    BY DEF RejectLinkData, AddLinkData, EndLinkData
  <2>2. entry[s][f] \in EntryType /\ entry[s][f].kind = "link"
    BY <2>1 DEF Active, StagingInv, StagingTypeOK
  <2> QED
    BY <2>1, <2>2, EntryKinds
<1>3. PICK k \in {0, n} : consumed' = [consumed EXCEPT ![s] = @ + k]
  <2>1. consumed' = consumed \/ consumed' = [consumed EXCEPT ![s] = @ + n]
    BY DEF RejectLinkData, AddLinkData, EndLinkData
  <2>2. consumed = [consumed EXCEPT ![s] = @ + 0]
    BY <1>1
  <2> QED
    BY <2>1, <2>2
<1>4. CASE Reject(s, f)
  BY <1>1, <1>2, <1>3, <1>4, RejectTyped, DataStep
<1>5. CASE ~Reject(s, f)
  <2>1. PICK to \in SUBSET FileIds, done \in BOOLEAN :
          Put(s, f, [entry[s][f] EXCEPT !.len = @ + n, !.done = done, !.to = to])
          /\ reserved' = reserved
    <3>1. CASE AddLinkData(s, f, n)
      <4>1. [entry[s][f] EXCEPT !.len = @ + n] =
              [entry[s][f] EXCEPT !.len = @ + n, !.done = entry[s][f].done, !.to = entry[s][f].to]
        BY <1>2 DEF LinkType
      <4> QED
        BY <1>2, <3>1, <4>1 DEF AddLinkData, LinkType
    <3>2. CASE EndLinkData(s, f, n)
      BY <1>5, <3>2 DEF EndLinkData
    <3> QED
      BY <1>5, <3>1, <3>2 DEF RejectLinkData
  <2> DEFINE e == [entry[s][f] EXCEPT !.len = @ + n, !.done = done, !.to = to]
  <2>2. e \in LinkType /\ e.at = entry[s][f].at /\ e.kind = "link"
    <3> DEFINE l == entry[s][f]
    <3>1. l \in [kind : {"link"}, at : Places, hard : BOOLEAN, len : Nat, done : BOOLEAN,
                 to : SUBSET FileIds]
      BY <1>2 DEF LinkType
    <3>2. e = [l EXCEPT !.len = @ + n, !.done = done, !.to = to]
      OBVIOUS
    <3> HIDE DEF l, e
    <3>3. l.len + n \in Nat
      BY <1>1, <3>1
    <3>4. e \in LinkType /\ e.at = l.at /\ e.kind = "link"
      BY <3>1, <3>2, <3>3 DEF LinkType
    <3> QED
      BY <3>4 DEF l
  <2>3. e \in EntryType
    BY <2>2 DEF EntryType
  <2> HIDE DEF e
  <2> QED
    BY <1>1, <1>2, <1>3, <2>1, <2>2, <2>3, DataStep DEF e
<1> QED
  BY <1>4, <1>5

(* A command that a file accepts fits into what the session may still      *)
(* write.                                                                  *)
LEMMA AcceptsFits ==
    ASSUME StagingInv, NEW s \in Transfers, NEW f \in FileIds, entry[s][f] \in FileType
    PROVE  /\ Accepts(s, f) \in Int
           /\ Accepts(s, f) <= Left(MaxSessionBytes, consumed[s])
<1> DEFINE left == Left(MaxSessionBytes, consumed[s])
           w == entry[s][f].written
<1>1. left \in Nat /\ w \in Nat /\ MaxFileBytes \in Nat /\ entry[s][f].cap \in Int
  <2>1. consumed \in [Transfers -> Nat]
    BY DEF StagingInv, StagingTypeOK
  <2>2. left \in Nat
    BY <2>1, StagingAssumption DEF Left, Larger
  <2> QED
    BY <2>2, StagingAssumption DEF FileType
<1>2. OutputLimit(s, f) \in Int /\ OutputLimit(s, f) <= w + left
  <2>1. CASE entry[s][f].size = Unknown
    <3> HIDE DEF left, w
    <3> QED
      BY <1>1, <2>1 DEF OutputLimit, Smaller, left, w
  <2>2. CASE entry[s][f].size \in Nat /\ entry[s][f].size # Unknown
    <3>1. Smaller(entry[s][f].size, MaxFileBytes) \in Int
      BY <1>1, <2>2 DEF Smaller
    <3>2. OutputLimit(s, f) = Smaller(Smaller(entry[s][f].size, MaxFileBytes), w + left)
      BY <2>2 DEF OutputLimit
    <3> HIDE DEF left, w
    <3> QED
      BY <1>1, <3>1, <3>2 DEF Smaller
  <2> QED
    BY <2>1, <2>2 DEF FileType, Sizes
<1>3. Room(s, f) \in Nat /\ Room(s, f) <= left
  <2> HIDE DEF left
  <2> QED
    BY <1>1, <1>2 DEF Room, Left, Larger
<1>4. CapRoom(s, f) \in Nat
  BY <1>1 DEF CapRoom, Left, Larger
<1> HIDE DEF left, w
<1> QED
  BY <1>1, <1>3, <1>4 DEF Accepts, Smaller, left

(* A file that grows keeps its type and place.                             *)
LEMMA GrownTyped ==
    ASSUME StagingInv, NEW s \in Transfers, NEW f \in FileIds, entry[s][f] \in FileType,
           NEW n \in Nat, NEW done \in BOOLEAN
    PROVE  LET e == [Grown(s, f, n) EXCEPT !.done = done]
           IN  /\ e \in FileType /\ e.at = entry[s][f].at /\ e.done = done
               /\ e.size = Grown(s, f, n).size /\ e.written = Grown(s, f, n).written
<1> DEFINE l == entry[s][f]
           w == l.written + n
           g == [l EXCEPT !.written = w, !.held = Larger(@, w)]
<1>1. /\ l \in [kind : {"file"}, at : Places, size : Sizes, rsync : BOOLEAN, cap : Int,
               written : Nat, held : Nat, done : BOOLEAN]
      /\ w \in Nat
  BY DEF FileType
<1>2. Grown(s, f, n) = g
  BY DEF Grown
<1> HIDE DEF l, w
<1>3. Larger(l.held, w) \in Nat
  BY <1>1 DEF Larger
<1>4. /\ g \in [kind : {"file"}, at : Places, size : Sizes, rsync : BOOLEAN, cap : Int,
               written : Nat, held : Nat, done : BOOLEAN]
      /\ g.at = l.at
  BY <1>1, <1>3
<1> HIDE DEF g
<1>5. LET e == [g EXCEPT !.done = done]
      IN  /\ e \in FileType /\ e.at = g.at /\ e.done = done
          /\ e.size = g.size /\ e.written = g.written
  BY <1>4 DEF FileType
<1> QED
  BY <1>2, <1>4, <1>5 DEF l

(* The bytes of a file arrive, end, or are refused.                        *)
LEMMA FileDataStep ==
    ASSUME StagingInv, NEW s \in Transfers, NEW f \in FileIds, NEW n \in 0..ChunkBound,
           DataAfterEnd(s, f) \/ DataFails(s, f, n) \/ AddData(s, f, n) \/ EndData(s, f, n)
    PROVE  StagingInv'
<1>1. /\ consumed \in [Transfers -> Nat] /\ reserved \in [Transfers -> Nat]
      /\ stray \in [Transfers -> Nat] /\ n \in Nat
  BY StagingAssumption DEF StagingInv, StagingTypeOK
<1>2. Active(s, f, "file") /\ UNCHANGED <<open, dirs, visible, commit>>
  BY DEF DataAfterEnd, DataFails, AddData, EndData
<1>3. entry[s][f] \in FileType
  <2>1. entry[s][f] \in EntryType /\ entry[s][f].kind = "file"
    BY <1>2 DEF Active, StagingInv, StagingTypeOK
  <2> QED
    BY <2>1, EntryKinds
<1>4. Accepts(s, f) \in Int /\ Accepts(s, f) <= Left(MaxSessionBytes, consumed[s])
      /\ Left(MaxSessionBytes, consumed[s]) \in Nat
  <2>1. Left(MaxSessionBytes, consumed[s]) \in Nat
    BY <1>1, StagingAssumption DEF Left, Larger
  <2> QED
    BY <1>3, <2>1, AcceptsFits
<1>5. CASE DataAfterEnd(s, f)
  <2>1. consumed' = [consumed EXCEPT ![s] = @ + 0] /\ UNCHANGED <<spent, stray>>
    BY <1>1, <1>5 DEF DataAfterEnd
  <2>2. Reject(s, f)
    BY <1>5 DEF DataAfterEnd
  <2> QED
    BY <1>1, <1>2, <2>1, <2>2, RejectTyped, DataStep
<1>6. CASE DataFails(s, f, n)
  <2>1. PICK k \in 0..Smaller(n, Accepts(s, f)) :
          /\ Charge(s, k)
          /\ \/ UNCHANGED stray
             \/ \E lost \in 1..(Smaller(n, CapRoom(s, f)) - k) :
                  stray' = [stray EXCEPT ![s] = @ + lost]
    BY <1>6 DEF DataFails
  <2>2. k \in Nat /\ k <= Left(MaxSessionBytes, consumed[s])
    BY <1>1, <1>4, <2>1 DEF Smaller
  <2>3. CapRoom(s, f) \in Int /\ Smaller(n, CapRoom(s, f)) - k \in Int
    BY <1>1, <1>3, <2>2 DEF CapRoom, FileType, Left, Larger, Smaller
  <2>4. stray' \in [Transfers -> Nat]
    BY <1>1, <2>1, <2>3
  <2>5. Reject(s, f)
    BY <1>6 DEF DataFails
  <2> QED
    BY <1>1, <1>2, <2>1, <2>2, <2>4, <2>5, RejectTyped, DataStep DEF Charge
<1>7. CASE AddData(s, f, n) \/ EndData(s, f, n)
  <2>1. Charge(s, n) /\ UNCHANGED stray /\ n <= Left(MaxSessionBytes, consumed[s])
    BY <1>1, <1>4, <1>7 DEF AddData, EndData
  <2>2. CASE Reject(s, f)
    BY <1>1, <1>2, <2>1, <2>2, RejectTyped, DataStep DEF Charge
  <2>3. CASE ~Reject(s, f)
    <3>1. PICK done \in BOOLEAN :
            /\ Put(s, f, [Grown(s, f, n) EXCEPT !.done = done])
            /\ done => ~Mismatch(Grown(s, f, n))
      <4>1. CASE AddData(s, f, n)
        <5>1. Grown(s, f, n) = [Grown(s, f, n) EXCEPT !.done = FALSE]
          BY <1>3, <4>1 DEF Grown, FileType, AddData
        <5> QED
          BY <2>3, <4>1, <5>1 DEF AddData
      <4>2. CASE EndData(s, f, n)
        BY <2>3, <4>2 DEF EndData
      <4> QED
        BY <1>7, <4>1, <4>2
    <3>2. reserved' = [reserved EXCEPT ![s] = @ + Left(entry[s][f].written + n, entry[s][f].held)]
      BY <1>7, <2>3 DEF AddData, EndData
    <3>3. reserved' \in [Transfers -> Nat]
      BY <1>1, <1>3, <3>2 DEF FileType, Left, Larger
    <3> DEFINE e == [Grown(s, f, n) EXCEPT !.done = done]
    <3>4. /\ e \in FileType /\ e.at = entry[s][f].at /\ e.done = done
          /\ e.size = Grown(s, f, n).size /\ e.written = Grown(s, f, n).written
      BY <1>1, <1>3, GrownTyped
    <3>5. Put(s, f, e)
      BY <3>1
    <3> HIDE DEF e
    <3>6. e \in EntryType
      BY <3>4 DEF EntryType
    <3>7. e.kind = "file" /\ e.done => e.size \in {Unknown, e.written}
      BY <3>1, <3>4 DEF Mismatch
    <3> QED
      BY <1>1, <1>2, <2>1, <3>3, <3>4, <3>5, <3>6, <3>7, DataStep DEF Charge
  <2> QED
    BY <2>2, <2>3
<1> QED
  BY <1>5, <1>6, <1>7

------------------------------------------------------------------------------
(* The directories a transfer created are directories.                     *)
LEMMA CreatedDirs ==
    ASSUME StagingInv, NEW s \in Transfers
    PROVE  Created(s) \subseteq Dirs
<1>1. ASSUME NEW f \in FileIds, entry[s][f].kind = "dir"
      PROVE  entry[s][f].at \in Dirs
  <2>1. entry[s][f] \in EntryType
    BY DEF StagingInv, StagingTypeOK
  <2> QED
    BY <1>1, <2>1, EntryKinds DEF DirType
<1> QED
  BY <1>1 DEF Created, IdsOf

(* A cancelled, refused or incomplete transfer is dropped.                 *)
LEMMA DiscardStep ==
    ASSUME StagingInv, NEW s \in Transfers, Abort(s) \/ FinishIncomplete(s)
    PROVE  StagingInv'
<1>1. Discard(s) /\ Idle /\ UNCHANGED commit
  BY DEF Abort, FinishIncomplete
<1>2. /\ Forget(s) /\ Sweep(Created(s), Others(s)) /\ UNCHANGED visible
      /\ commit' = NoCommit /\ commit.transfer \subseteq {s}
  BY <1>1 DEF Discard, HeldAtAbort, Idle, NoCommit
<1>3. /\ Others(s) \subseteq Staged
      /\ \A y \in Shown(visible') : Above(y) \subseteq dirs
      /\ visible' \in [Places -> ContentType]
  BY <1>2 DEF Others, StagingInv, TreeConsistent, Shown, StagingTypeOK
<1>4. TreeConsistent' /\ dirs' \subseteq dirs
  BY <1>2, <1>3, CreatedDirs, SweepTree
<1> QED
  BY <1>2, <1>3, <1>4, ForgetStep

(* A transfer whose links lead nowhere is dropped.                         *)
LEMMA UnresolvedStep ==
    ASSUME StagingInv, NEW s \in Transfers, FinishUnresolved(s)
    PROVE  StagingInv'
<1> DEFINE kept == Others(s) \cup ({s} \X IdsOf(s, "link"))
<1>1. /\ Forget(s) /\ Sweep(Created(s), kept) /\ UNCHANGED visible
      /\ commit' = NoCommit /\ commit.transfer \subseteq {s} /\ s \in open
  BY SMTT(30) DEF FinishUnresolved, Idle, NoCommit
<1>2. /\ Others(s) \subseteq kept /\ kept \subseteq Staged
      /\ \A y \in Shown(visible') : Above(y) \subseteq dirs
      /\ visible' \in [Places -> ContentType]
  BY <1>1 DEF Others, StagingInv, TreeConsistent, Shown, StagingTypeOK, Staged, IdsOf
<1> HIDE DEF kept
<1>3. TreeConsistent' /\ dirs' \subseteq dirs
  BY <1>1, <1>2, CreatedDirs, SweepTree
<1> QED
  BY <1>1, <1>2, <1>3, ForgetStep

(* The commit begins with everything complete.                             *)
LEMMA BeginStep ==
    ASSUME StagingInv, NEW s \in Transfers, BeginCommit(s)
    PROVE  StagingInv'
<1>1. /\ s \in open /\ open' = open \ {s} /\ ~Incomplete(s)
      /\ commit' = [transfer |-> {s}, files |-> IdsOf(s, "file"),
                    links |-> IdsOf(s, "link"), dirs |-> IdsOf(s, "dir")]
      /\ UNCHANGED <<entry, reserved, consumed, dirs, visible, spent, stray>>
      /\ Idle /\ \A f \in IdsOf(s, "link") : Resolves(s, f)
  BY DEF BeginCommit
<1>2. StagingTypeOK'
  <2>1. commit' \in [transfer : SUBSET (Transfers \ open'), files : SUBSET FileIds,
                     links : SUBSET FileIds, dirs : SUBSET FileIds]
    BY <1>1 DEF IdsOf
  <2>2. \A t \in Transfers \ (open' \cup commit'.transfer) : entry'[t] = NoEntries
    BY <1>1 DEF StagingInv, StagingTypeOK, Idle, NoCommit
  <2>3. /\ open' \in SUBSET Transfers
        /\ entry' \in [Transfers -> [FileIds -> EntryType]]
        /\ reserved' \in [Transfers -> Nat] /\ consumed' \in [Transfers -> Nat]
        /\ spent' \in [Transfers -> Nat] /\ stray' \in [Transfers -> Nat]
        /\ dirs' \in SUBSET Dirs
        /\ visible' \in [Places -> ContentType]
    BY <1>1 DEF StagingInv, StagingTypeOK
  <2>4. commit'.transfer = {s}
    BY <1>1
  <2>5. \A t \in commit'.transfer :
          /\ commit'.transfer = {t}
          /\ commit'.files \subseteq IdsOf(t, "file")'
          /\ commit'.links \subseteq IdsOf(t, "link")'
          /\ commit'.dirs \subseteq IdsOf(t, "dir")'
    BY <1>1 DEF IdsOf
  <2> QED
    BY <2>1, <2>2, <2>3, <2>4, <2>5 DEF StagingTypeOK
<1>3. TreeConsistent'
  <2>1. Staged' \subseteq Staged
    BY <1>1 DEF Staged, Idle, NoCommit
  <2>2. Shown(visible)' = Shown(visible)
    BY <1>1 DEF Shown
  <2> QED
    BY <1>1, <2>1, <2>2 DEF StagingInv, TreeConsistent, Above
<1>4. WholeWhenDone' /\ BudgetKept' /\ ChargedFirst'
  BY <1>1 DEF StagingInv, WholeWhenDone, BudgetKept, ChargedFirst
<1>5. CommitReady'
  BY <1>1 DEF CommitReady, Incomplete, Resolves
<1> QED
  BY <1>2, <1>3, <1>4, <1>5 DEF StagingInv

------------------------------------------------------------------------------
(* What is being committed: sound entries of the one transfer, each of its *)
(* kind, all complete.                                                     *)
LEMMA CommitFacts ==
    ASSUME StagingInv, NEW s \in Transfers, Committing(s)
    PROVE  /\ s \notin open /\ commit.transfer = {s}
           /\ commit.files \subseteq IdsOf(s, "file") /\ commit.links \subseteq IdsOf(s, "link")
           /\ commit.dirs \subseteq IdsOf(s, "dir") /\ commit.files \cap commit.links = {}
           /\ \A f \in IdsOf(s, "file") :
                /\ entry[s][f] \in FileType /\ entry[s][f].done
                /\ entry[s][f].size \in {Unknown, entry[s][f].written}
           /\ \A f \in commit.links : entry[s][f] \in LinkType /\ Resolves(s, f)
<1>1. /\ s \notin open /\ commit.transfer = {s}
      /\ commit.files \subseteq IdsOf(s, "file") /\ commit.links \subseteq IdsOf(s, "link")
      /\ commit.dirs \subseteq IdsOf(s, "dir")
  BY DEF Committing, StagingInv, StagingTypeOK
<1>2. \A f \in FileIds : entry[s][f] \in EntryType
  BY DEF StagingInv, StagingTypeOK
<1>3. ASSUME NEW f \in IdsOf(s, "file")
      PROVE  /\ entry[s][f] \in FileType /\ entry[s][f].done
             /\ entry[s][f].size \in {Unknown, entry[s][f].written}
  <2>1. f \in FileIds /\ entry[s][f].kind = "file"
    BY DEF IdsOf
  <2>2. entry[s][f].done
    BY <1>1, <2>1 DEF StagingInv, CommitReady, Incomplete
  <2> QED
    BY <1>2, <2>1, <2>2, EntryKinds DEF StagingInv, WholeWhenDone
<1>4. ASSUME NEW f \in commit.links
      PROVE  entry[s][f] \in LinkType /\ Resolves(s, f)
  <2>1. f \in FileIds /\ entry[s][f].kind = "link"
    BY <1>1 DEF IdsOf
  <2> QED
    BY <1>1, <1>2, <2>1, EntryKinds DEF StagingInv, CommitReady
<1> QED
  BY <1>1, <1>3, <1>4 DEF IdsOf

(* The items of a transfer that is complete are whole, and typed.          *)
LEMMA ReadyWhole ==
    ASSUME StagingInv, NEW s \in Transfers, ~Incomplete(s),
           NEW L \in SUBSET IdsOf(s, "link"), \A f \in L : Resolves(s, f)
    PROVE  /\ \A f \in IdsOf(s, "file") :
                /\ FileContent(s, f) \in ContentType /\ Publication!Whole(FileContent(s, f))
                /\ entry[s][f].at \in Places
           /\ \A f \in L :
                /\ Linked(s, f) \in ContentType /\ Publication!Whole(Linked(s, f))
                /\ entry[s][f].at \in Places
<1>1. ASSUME NEW f \in IdsOf(s, "file")
      PROVE  /\ FileContent(s, f) \in ContentType /\ Publication!Whole(FileContent(s, f))
             /\ entry[s][f].at \in Places
  <2>1. f \in FileIds /\ entry[s][f].kind = "file" /\ entry[s][f].done
    BY DEF IdsOf, Incomplete
  <2>2. entry[s][f] \in FileType /\ entry[s][f].size \in {Unknown, entry[s][f].written}
    BY <2>1, EntryKinds DEF StagingInv, StagingTypeOK, WholeWhenDone
  <2> QED
    BY <2>1, <2>2 DEF FileContent, Content, ContentType, FileType, Publication!Whole
<1>2. ASSUME NEW f \in L
      PROVE  /\ Linked(s, f) \in ContentType /\ Publication!Whole(Linked(s, f))
             /\ entry[s][f].at \in Places
  <2>1. entry[s][f] \in LinkType /\ Resolves(s, f)
    <3>1. f \in FileIds /\ entry[s][f].kind = "link"
      BY DEF IdsOf
    <3> QED
      BY <3>1, EntryKinds DEF StagingInv, StagingTypeOK
  <2>2. CASE entry[s][f].hard
    <3> DEFINE g == CHOOSE x \in entry[s][f].to : TRUE
    <3>1. g \in entry[s][f].to
      BY <2>1, <2>2 DEF Resolves
    <3>2. g \in IdsOf(s, "file")
      BY <2>1, <2>2, <3>1 DEF Resolves, IdsOf, LinkType
    <3>3. Linked(s, f) = FileContent(s, g)
      BY <2>2 DEF Linked
    <3> QED
      BY <1>1, <2>1, <3>2, <3>3 DEF LinkType
  <2>3. CASE ~entry[s][f].hard
    BY <2>1, <2>3 DEF Linked, Content, ContentType, Sizes, LinkType, Publication!Whole
  <2> QED
    BY <2>2, <2>3
<1> QED
  BY <1>1, <1>2

(* What a rename puts at a destination is whole, and typed.                *)
LEMMA ItemWhole ==
    ASSUME StagingInv, NEW s \in Transfers, Committing(s)
    PROVE  /\ \A f \in commit.files :
                /\ FileContent(s, f) \in ContentType /\ Publication!Whole(FileContent(s, f))
                /\ entry[s][f].at \in Places
           /\ \A f \in commit.links :
                /\ Linked(s, f) \in ContentType /\ Publication!Whole(Linked(s, f))
                /\ entry[s][f].at \in Places
BY CommitFacts, ReadyWhole DEF StagingInv, CommitReady

(* A rename keeps the type of what is visible, and the tree above it.      *)
LEMMA RenameSound ==
    ASSUME StagingInv, NEW s \in Transfers, Committing(s),
           NEW f \in commit.files \cup commit.links, NEW c \in ContentType, Rename(s, f, c)
    PROVE  /\ visible' \in [Places -> ContentType]
           /\ \A y \in Shown(visible') : Above(y) \subseteq dirs
<1>1. f \in FileIds /\ entry[s][f].at \in Places /\ <<s, f>> \in Staged
  BY CommitFacts, ItemWhole, StagedIs DEF IdsOf
<1>2. Above(entry[s][f].at) \subseteq dirs
  BY <1>1 DEF StagingInv, TreeConsistent
<1>3. visible \in [Places -> ContentType]
  BY DEF StagingInv, StagingTypeOK
<1>4. Shown(visible') \subseteq Shown(visible) \cup {entry[s][f].at}
  BY <1>1, <1>3 DEF Rename, Shown
<1> QED
  BY <1>1, <1>2, <1>3, <1>4 DEF Rename, StagingInv, TreeConsistent

(* One entry less to commit.                                               *)
LEMMA ShrinkStep ==
    ASSUME StagingInv, NEW s \in Transfers, Committing(s),
           NEW F \in SUBSET commit.files, NEW L \in SUBSET commit.links,
           NEW D \in SUBSET commit.dirs,
           commit' = [commit EXCEPT !.files = F, !.links = L, !.dirs = D],
           UNCHANGED <<open, entry, reserved, consumed, dirs, spent, stray>>,
           visible' \in [Places -> ContentType],
           \A y \in Shown(visible') : Above(y) \subseteq dirs
    PROVE  StagingInv'
<1>1. /\ commit'.transfer = {s} /\ commit'.files = F /\ commit'.links = L /\ commit'.dirs = D
      /\ commit' \in [transfer : SUBSET (Transfers \ open'), files : SUBSET FileIds,
                      links : SUBSET FileIds, dirs : SUBSET FileIds]
  <2>1. commit \in [transfer : SUBSET (Transfers \ open), files : SUBSET FileIds,
                    links : SUBSET FileIds, dirs : SUBSET FileIds]
    BY DEF StagingInv, StagingTypeOK
  <2> QED
    BY <2>1 DEF Committing
<1>2. StagingTypeOK'
  <2>1. \A t \in commit'.transfer :
          /\ commit'.transfer = {t}
          /\ commit'.files \subseteq IdsOf(t, "file")'
          /\ commit'.links \subseteq IdsOf(t, "link")'
          /\ commit'.dirs \subseteq IdsOf(t, "dir")'
    BY <1>1, CommitFacts DEF IdsOf
  <2>2. \A t \in Transfers \ (open' \cup commit'.transfer) : entry'[t] = NoEntries
    BY <1>1 DEF StagingInv, StagingTypeOK, Committing
  <2>3. commit'.transfer # {}
    BY <1>1
  <2>4. /\ open' \in SUBSET Transfers
        /\ entry' \in [Transfers -> [FileIds -> EntryType]]
        /\ reserved' \in [Transfers -> Nat] /\ consumed' \in [Transfers -> Nat]
        /\ spent' \in [Transfers -> Nat] /\ stray' \in [Transfers -> Nat]
        /\ dirs' \in SUBSET Dirs
    BY DEF StagingInv, StagingTypeOK
  <2> QED
    BY <1>1, <2>1, <2>2, <2>3, <2>4 DEF StagingTypeOK
<1>3. TreeConsistent'
  <2>1. Staged' \subseteq Staged
    BY <1>1 DEF Staged, Committing
  <2>2. Shown(visible)' = Shown(visible')
    BY DEF Shown
  <2> QED
    BY <2>1, <2>2 DEF StagingInv, TreeConsistent, Above
<1>4. WholeWhenDone' /\ BudgetKept' /\ ChargedFirst'
  BY DEF StagingInv, WholeWhenDone, BudgetKept, ChargedFirst
<1>5. CommitReady'
  BY <1>1 DEF CommitReady, Incomplete, Resolves, StagingInv, Committing
<1> QED
  BY <1>2, <1>3, <1>4, <1>5 DEF StagingInv

(* A file, a link or a directory is published.                             *)
LEMMA PublishStep ==
    ASSUME StagingInv, NEW s \in Transfers, NEW f \in FileIds,
           PublishFile(s, f) \/ PublishLink(s, f) \/ PublishDir(s, f)
    PROVE  StagingInv'
<1>1. /\ Committing(s)
      /\ UNCHANGED <<open, entry, reserved, consumed, dirs, spent, stray>>
  BY DEF PublishFile, PublishLink, PublishDir
<1>2. commit \in [transfer : SUBSET (Transfers \ open), files : SUBSET FileIds,
                  links : SUBSET FileIds, dirs : SUBSET FileIds]
  BY DEF StagingInv, StagingTypeOK
<1>3. CASE PublishFile(s, f)
  <2>1. f \in commit.files /\ Rename(s, f, FileContent(s, f))
    BY <1>3 DEF PublishFile, NextFile
  <2>2. visible' \in [Places -> ContentType] /\ \A y \in Shown(visible') : Above(y) \subseteq dirs
    BY <1>1, <2>1, ItemWhole, RenameSound
  <2>3. commit' = [commit EXCEPT !.files = @ \ {f}, !.links = commit.links, !.dirs = commit.dirs]
    BY <1>2, <1>3 DEF PublishFile
  <2> QED
    BY <1>1, <2>2, <2>3, ShrinkStep
<1>4. CASE PublishLink(s, f)
  <2>1. f \in commit.links /\ Rename(s, f, Linked(s, f))
    BY <1>4 DEF PublishLink, NextLink
  <2>2. visible' \in [Places -> ContentType] /\ \A y \in Shown(visible') : Above(y) \subseteq dirs
    BY <1>1, <2>1, ItemWhole, RenameSound
  <2>3. commit' = [commit EXCEPT !.files = commit.files, !.links = @ \ {f}, !.dirs = commit.dirs]
    BY <1>2, <1>4 DEF PublishLink
  <2> QED
    BY <1>1, <2>2, <2>3, ShrinkStep
<1>5. CASE PublishDir(s, f)
  <2>1. visible' \in [Places -> ContentType] /\ \A y \in Shown(visible') : Above(y) \subseteq dirs
    BY <1>5 DEF PublishDir, StagingInv, StagingTypeOK, TreeConsistent, Shown
  <2> DEFINE D == commit.dirs \ {f}
  <2>2. commit' = [commit EXCEPT !.files = commit.files, !.links = commit.links, !.dirs = D]
    BY <1>2, <1>5 DEF PublishDir
  <2>3. D \in SUBSET commit.dirs
    OBVIOUS
  <2> HIDE DEF D
  <2> QED
    BY <1>1, <2>1, <2>2, <2>3, ShrinkStep
<1> QED
  BY <1>3, <1>4, <1>5

(* A commit that fails keeps what it published and drops the rest.         *)
LEMMA AbandonStep ==
    ASSUME StagingInv, NEW s \in Transfers, NEW f \in FileIds,
           PublishFileFails(s, f) \/ PublishLinkFails(s, f)
    PROVE  StagingInv'
<1>1. /\ Committing(s) /\ f \in commit.files \cup commit.links
      /\ \E c \in ContentType : UNCHANGED visible \/ Rename(s, f, c)
      /\ Forget(s) /\ commit' = NoCommit
      /\ \E gone \in {{}, {f}} : Sweep(Created(s), Staged \ ({s} \X gone))
  BY ItemWhole DEF PublishFileFails, PublishLinkFails, NextFile, NextLink, Abandon
<1>2. commit.transfer \subseteq {s}
  BY <1>1 DEF Committing
<1>3. /\ visible' \in [Places -> ContentType]
      /\ \A y \in Shown(visible') : Above(y) \subseteq dirs
  <2>1. CASE UNCHANGED visible
    BY <2>1 DEF StagingInv, StagingTypeOK, TreeConsistent, Shown
  <2> QED
    BY <1>1, <2>1, RenameSound
<1>4. PICK kept \in SUBSET Staged : Others(s) \subseteq kept /\ Sweep(Created(s), kept)
  <2>1. PICK gone \in {{}, {f}} : Sweep(Created(s), Staged \ ({s} \X gone))
    BY <1>1
  <2>2. Others(s) \subseteq Staged \ ({s} \X gone)
    BY DEF Others
  <2> QED
    BY <2>1, <2>2
<1>5. TreeConsistent' /\ dirs' \subseteq dirs
  BY <1>1, <1>2, <1>3, <1>4, CreatedDirs, SweepTree
<1> QED
  BY <1>1, <1>2, <1>3, <1>5, ForgetStep

(* A commit that fails at a directory drops the ones it has not reached.   *)
LEMMA DirFailsStep ==
    ASSUME StagingInv, NEW s \in Transfers, NEW f \in FileIds, PublishDirFails(s, f)
    PROVE  StagingInv'
<1> DEFINE D == {entry[s][g].at : g \in {x \in commit.dirs : entry[s][x].created}}
<1>1. /\ Committing(s) /\ UNCHANGED visible /\ Sweep(D, Staged) /\ Forget(s)
      /\ commit' = NoCommit /\ commit.transfer \subseteq {s}
  BY DEF PublishDirFails, Committing
<1>2. D \subseteq Created(s)
  BY <1>1, CommitFacts DEF Created
<1>3. D \subseteq Dirs /\ Others(s) \subseteq Staged
  BY <1>2, CreatedDirs DEF Others
<1>4. /\ visible' \in [Places -> ContentType]
      /\ \A y \in Shown(visible') : Above(y) \subseteq dirs
  BY <1>1 DEF StagingInv, StagingTypeOK, TreeConsistent, Shown
<1> HIDE DEF D
<1>5. TreeConsistent' /\ dirs' \subseteq dirs
  BY <1>1, <1>3, <1>4, SweepTree
<1> QED
  BY <1>1, <1>4, <1>5, ForgetStep

(* The commit ends: everything has been published.                         *)
LEMMA EndStep ==
    ASSUME StagingInv, NEW s \in Transfers, EndCommit(s)
    PROVE  StagingInv'
<1>1. /\ Forget(s) /\ commit' = NoCommit /\ commit.transfer \subseteq {s}
      /\ UNCHANGED <<dirs, visible>>
  BY DEF EndCommit, Committing
<1>2. visible' \in [Places -> ContentType]
  BY <1>1 DEF StagingInv, StagingTypeOK
<1>3. TreeConsistent'
  <2>1. ASSUME NEW x \in Staged'
        PROVE  x \in Staged /\ entry'[x[1]][x[2]] = entry[x[1]][x[2]]
    BY <1>1 DEF Staged, Forget, StagingInv, StagingTypeOK, NoCommit, NoEntries, Absent
  <2>2. Shown(visible)' = Shown(visible)
    BY <1>1 DEF Shown
  <2> QED
    BY <1>1, <2>1, <2>2 DEF StagingInv, TreeConsistent, Above
<1> QED
  BY <1>1, <1>2, <1>3, ForgetStep

(* A step that changes nothing.                                            *)
LEMMA StutterStaging ==
    ASSUME StagingInv, UNCHANGED vars
    PROVE  StagingInv'
<1>1. StagingTypeOK'
  BY DEF StagingInv, StagingTypeOK, Idle, IdsOf, vars
<1>2. TreeConsistent'
  BY DEF StagingInv, TreeConsistent, Staged, Shown, Above, vars
<1> QED
  BY <1>1, <1>2 DEF StagingInv, BudgetKept, ChargedFirst, WholeWhenDone, CommitReady, Incomplete,
      Resolves, vars

(* Every step keeps the invariant.                                         *)
LEMMA StagingStep == StagingInv /\ [Next]_vars => StagingInv'
<1> SUFFICES ASSUME StagingInv, [Next]_vars  PROVE StagingInv'
  OBVIOUS
<1>1. CASE UNCHANGED vars
  BY <1>1, StutterStaging
<1>2. CASE \E h \in Headers : StageFile(h)
  BY <1>2, StageFileStep
<1>3. ASSUME NEW s \in Transfers, Abort(s) \/ Finish(s)
      PROVE  StagingInv'
  BY <1>3, DiscardStep, UnresolvedStep, BeginStep, PublishStep, AbandonStep, DirFailsStep,
      EndStep DEF Finish
<1>4. ASSUME NEW s \in Transfers, NEW f \in FileIds, DataAfterEnd(s, f) \/ Data(s, f)
      PROVE  StagingInv'
  <2>1. 0 \in 0..ChunkBound
    BY StagingAssumption
  <2> QED
    BY <1>4, <2>1, LinkDataStep, FileDataStep DEF Data
<1> QED
  BY <1>1, <1>2, <1>3, <1>4 DEF Next

(* The entries, totals and directories of transfers have their types: no   *)
(* step leaves an entry to a transfer that is neither open nor committed   *)
(* (SendSession).                                                          *)
THEOREM StagingTyped == Spec => []StagingTypeOK
<1>1. StagingInv => StagingTypeOK
  BY DEF StagingInv
<1> QED
  BY <1>1, InitStaging, StagingStep, PTL DEF Spec

(* What a transfer writes to disk stays within the session limit, whatever *)
(* sizes it declares and whatever is rejected on the way (write_file_data).*)
THEOREM BudgetHolds == Spec => []BudgetKept
<1>1. StagingInv => BudgetKept
  BY DEF StagingInv
<1> QED
  BY <1>1, InitStaging, StagingStep, PTL DEF Spec

(* No transfer that ends takes a directory away from under what is visible *)
(* or staged, however many share a tree (StagedDirectory::cleanup).        *)
THEOREM TreeHolds == Spec => []TreeConsistent
<1>1. StagingInv => TreeConsistent
  BY DEF StagingInv
<1> QED
  BY <1>1, InitStaging, StagingStep, PTL DEF Spec

------------------------------------------------------------------------------
(* Sums over a finite set of terms.  The fold by which MapThenSumSet adds  *)
(* is recursive; counting the units of its terms is not, and the two are   *)
(* shown equal by looking at a smallest set on which they would differ.    *)

(* Every non-empty set of subsets of a finite set has a smallest member:   *)
(* induction over finite sets, with the counterexamples as C.              *)
LEMMA SmallestSubset ==
    ASSUME NEW S, IsFiniteSet(S), NEW C \in SUBSET SUBSET S, C # {}
    PROVE  \E T \in C : \A U \in SUBSET T : U # T => U \notin C
<1>1. IsWellFoundedOn(StrictSubsetOrdering(S), SUBSET S)
  BY FS_StrictSubsetOrderingWellFounded, FS_FiniteSubsetsOfFinite
<1> HIDE DEF StrictSubsetOrdering
<1>2. \E T \in C : \A U \in C : <<U, T>> \notin StrictSubsetOrdering(S)
  BY <1>1, WFMin
<1>3. PICK T \in C : \A U \in C : <<U, T>> \notin StrictSubsetOrdering(S)
  BY <1>2
<1>4. ASSUME NEW U \in SUBSET T, U # T PROVE U \notin C
  BY <1>3, <1>4 DEF StrictSubsetOrdering
<1> QED
  BY <1>4

(* A sum is as many units as its terms have: those of T under h.           *)
Units(h, T) == {p \in T \X Nat : p[2] < h[p[1]]}

(* The units of one term are as many as it says; the others are the rest.  *)
LEMMA UnitsSplit ==
    ASSUME NEW T, NEW h \in [T -> Nat], NEW x \in T,
           IsFiniteSet(Units(h, T \ {x}))
    PROVE  /\ IsFiniteSet(Units(h, T))
           /\ Cardinality(Units(h, T)) = h[x] + Cardinality(Units(h, T \ {x}))
           /\ Cardinality(Units(h, T \ {x})) \in Nat
<1> DEFINE Own == {x} \X (0..(h[x] - 1))
           Rest == Units(h, T \ {x})
<1>1. h[x] \in Nat
  OBVIOUS
<1>2. IsFiniteSet(0..(h[x] - 1)) /\ Cardinality(0..(h[x] - 1)) = h[x]
  BY <1>1, FS_Interval, SMTT(30)
<1>3. IsFiniteSet({x}) /\ Cardinality({x}) = 1
  BY FS_Singleton
<1>4. IsFiniteSet(Own) /\ Cardinality(Own) = h[x]
  BY <1>1, <1>2, <1>3, FS_Product
<1>5. Units(h, T) = Own \cup Rest
  BY <1>1 DEF Units
<1>6. Own \cap Rest = {}
  BY DEF Units
<1> HIDE DEF Own, Rest
<1>7. IsFiniteSet(Rest) /\ Cardinality(Rest) \in Nat
  BY FS_CardinalityType DEF Rest
<1>8. IsFiniteSet(Own \cup Rest) /\ Cardinality(Own \cup Rest) = h[x] + Cardinality(Rest) - Cardinality({})
  BY <1>4, <1>6, <1>7, FS_Union
<1>9. Cardinality({}) = 0
  BY FS_EmptySet
<1> QED
  BY <1>1, <1>5, <1>7, <1>8, <1>9 DEF Rest

(* A finite set of terms has finitely many units.                          *)
LEMMA UnitsFinite ==
    ASSUME NEW S, IsFiniteSet(S), NEW h \in [S -> Nat]
    PROVE  \A T \in SUBSET S : IsFiniteSet(Units(h, T))
<1> DEFINE C == {T \in SUBSET S : ~IsFiniteSet(Units(h, T))}
<1> SUFFICES ASSUME C # {} PROVE FALSE
  OBVIOUS
<1>0. C \in SUBSET SUBSET S
  OBVIOUS
<1> HIDE DEF C
<1>1. PICK T \in C : \A U \in SUBSET T : U # T => U \notin C
  BY <1>0, SmallestSubset
<1> USE DEF C
<1>2. CASE T = {}
  BY <1>1, <1>2, FS_EmptySet DEF Units
<1>3. ASSUME NEW x \in T PROVE FALSE
  <2>1. T \ {x} \in SUBSET S /\ T \ {x} \notin C
    BY <1>1
  <2>2. IsFiniteSet(Units(h, T \ {x}))
    BY <2>1
  <2> DEFINE k == [y \in T |-> h[y]]
  <2>3. k \in [T -> Nat] /\ Units(k, T) = Units(h, T) /\ Units(k, T \ {x}) = Units(h, T \ {x})
    BY DEF Units
  <2> HIDE DEF k
  <2>4. IsFiniteSet(Units(k, T))
    BY <2>2, <2>3, UnitsSplit
  <2> QED
    BY <1>1, <2>3, <2>4
<1> QED
  BY <1>2, <1>3

(* Any term may be taken out first.                                        *)
LEMMA UnitsOf ==
    ASSUME NEW S, IsFiniteSet(S), NEW h \in [S -> Nat], NEW T \in SUBSET S, NEW x \in T
    PROVE  Cardinality(Units(h, T)) = h[x] + Cardinality(Units(h, T \ {x}))
<1> DEFINE k == [y \in T |-> h[y]]
<1>1. k \in [T -> Nat] /\ Units(k, T) = Units(h, T) /\ Units(k, T \ {x}) = Units(h, T \ {x}) /\ k[x] = h[x]
  BY DEF Units
<1>2. IsFiniteSet(Units(h, T \ {x}))
  BY UnitsFinite
<1> HIDE DEF k
<1> QED
  BY <1>1, <1>2, UnitsSplit

(* The recursion by which MapThenFoldSet sums h, in an order it chooses.   *)
SumsUp(g, h, S) ==
    g = [T \in SUBSET S |->
           IF T = {} THEN 0 ELSE h[CHOOSE x \in T : TRUE] + g[T \ {CHOOSE x \in T : TRUE}]]

(* Whoever sums by that recursion counts the units ...                     *)
LEMMA FoldUnits ==
    ASSUME NEW S, IsFiniteSet(S), NEW h \in [S -> Nat], NEW g,
           SumsUp(g, h, S)
    PROVE  \A T \in SUBSET S : g[T] = Cardinality(Units(h, T))
<1> DEFINE C == {T \in SUBSET S : g[T] # Cardinality(Units(h, T))}
<1> SUFFICES ASSUME C # {} PROVE FALSE
  OBVIOUS
<1>0. C \in SUBSET SUBSET S
  OBVIOUS
<1> HIDE DEF C
<1>1. PICK T \in C : \A U \in SUBSET T : U # T => U \notin C
  BY <1>0, SmallestSubset
<1> USE DEF C
<1>2. CASE T = {}
  <2>1. Units(h, T) = {} /\ g[T] = 0
    BY <1>1, <1>2 DEF Units, SumsUp
  <2> QED
    BY <1>1, <2>1, FS_EmptySet
<1>3. CASE T # {}
  <2>1. PICK x : x = CHOOSE y \in T : TRUE
    OBVIOUS
  <2>2. x \in T
    BY <1>3, <2>1
  <2>3. g[T] = h[x] + g[T \ {x}]
    BY <1>1, <1>3, <2>1 DEF SumsUp
  <2>4. T \ {x} \in SUBSET S /\ T \ {x} \notin C
    BY <1>1, <2>2
  <2>5. g[T \ {x}] = Cardinality(Units(h, T \ {x}))
    BY <2>4
  <2>6. Cardinality(Units(h, T)) = h[x] + Cardinality(Units(h, T \ {x}))
    BY <1>1, <2>2, UnitsOf
  <2> QED
    BY <1>1, <2>3, <2>5, <2>6
<1> QED
  BY <1>2, <1>3

(* ... and counting the units is such a sum, so that there is one.         *)
LEMMA UnitsFold ==
    ASSUME NEW S, IsFiniteSet(S), NEW h \in [S -> Nat], NEW g,
           g = [T \in SUBSET S |-> Cardinality(Units(h, T))]
    PROVE  SumsUp(g, h, S)
<1>1. ASSUME NEW T \in SUBSET S
      PROVE  g[T] = IF T = {} THEN 0 ELSE h[CHOOSE x \in T : TRUE] + g[T \ {CHOOSE x \in T : TRUE}]
  <2>1. CASE T = {}
    <3>1. Units(h, T) = {}
      BY <2>1 DEF Units
    <3> QED
      BY <2>1, <3>1, FS_EmptySet
  <2>2. CASE T # {}
    <3>1. PICK x : x = CHOOSE y \in T : TRUE
      OBVIOUS
    <3>2. x \in T
      BY <2>2, <3>1
    <3>3. g[T] = h[x] + g[T \ {x}]
      BY <3>2, UnitsOf
    <3> QED
      BY <2>2, <3>1, <3>3
  <2> QED
    BY <2>1, <2>2
<1> QED
  BY <1>1 DEF SumsUp

(* What the files of a transfer hold, as units.                            *)
LEMMA HeldUnits ==
    ASSUME NEW S, IsFiniteSet(S), NEW e, \A f \in S : e[f].held \in Nat
    PROVE  MapThenSumSet(LAMBDA f : e[f].held, S) = Cardinality(Units([f \in S |-> e[f].held], S))
<1>1. PICK h : h = [f \in S |-> e[f].held]
  OBVIOUS
<1>2. h \in [S -> Nat]
  BY <1>1
<1>3. PICK g : g = [T \in SUBSET S |-> Cardinality(Units(h, T))]
  OBVIOUS
<1>4. SumsUp(g, h, S)
  BY <1>2, <1>3, UnitsFold
<1> DEFINE F(i) == i = [T \in SUBSET S |->
                  IF T = {} THEN 0 ELSE e[CHOOSE x \in T : TRUE].held + i[T \ {CHOOSE x \in T : TRUE}]]
<1>5. F(g)
  BY <1>1, <1>4 DEF SumsUp
<1>6. PICK sum : sum = CHOOSE i : F(i)
  OBVIOUS
<1>7. F(sum)
  <2>1. F(CHOOSE i : F(i))
    BY <1>5
  <2> QED
    BY <1>6, <2>1
<1>8. MapThenSumSet(LAMBDA f : e[f].held, S) = sum[S]
  BY <1>6 DEF MapThenSumSet, MapThenFoldSet
<1>9. SumsUp(sum, h, S)
  BY <1>1, <1>7 DEF SumsUp
<1>10. sum[S] = Cardinality(Units(h, S))
  BY <1>2, <1>9, FoldUnits
<1> QED
  BY <1>1, <1>8, <1>10

(* The same for what has been written.                                     *)
LEMMA WrittenUnits ==
    ASSUME NEW S, IsFiniteSet(S), NEW e, \A f \in S : e[f].written \in Nat
    PROVE  MapThenSumSet(LAMBDA f : e[f].written, S) = Cardinality(Units([f \in S |-> e[f].written], S))
<1>1. PICK h : h = [f \in S |-> e[f].written]
  OBVIOUS
<1>2. h \in [S -> Nat]
  BY <1>1
<1>3. PICK g : g = [T \in SUBSET S |-> Cardinality(Units(h, T))]
  OBVIOUS
<1>4. SumsUp(g, h, S)
  BY <1>2, <1>3, UnitsFold
<1> DEFINE F(i) == i = [T \in SUBSET S |->
                  IF T = {} THEN 0 ELSE e[CHOOSE x \in T : TRUE].written + i[T \ {CHOOSE x \in T : TRUE}]]
<1>5. F(g)
  BY <1>1, <1>4 DEF SumsUp
<1>6. PICK sum : sum = CHOOSE i : F(i)
  OBVIOUS
<1>7. F(sum)
  <2>1. F(CHOOSE i : F(i))
    BY <1>5
  <2> QED
    BY <1>6, <2>1
<1>8. MapThenSumSet(LAMBDA f : e[f].written, S) = sum[S]
  BY <1>6 DEF MapThenSumSet, MapThenFoldSet
<1>9. SumsUp(sum, h, S)
  BY <1>1, <1>7 DEF SumsUp
<1>10. sum[S] = Cardinality(Units(h, S))
  BY <1>2, <1>9, FoldUnits
<1> QED
  BY <1>1, <1>8, <1>10

(* One term changes.                                                       *)
LEMMA TermChanges ==
    ASSUME NEW S, IsFiniteSet(S), NEW h \in [S -> Nat], NEW k \in [S -> Nat], NEW x \in S,
           \A y \in S \ {x} : k[y] = h[y]
    PROVE  /\ Cardinality(Units(h, S)) \in Nat /\ Cardinality(Units(k, S)) \in Nat
           /\ h[x] <= Cardinality(Units(h, S))
           /\ Cardinality(Units(k, S)) = Cardinality(Units(h, S)) - h[x] + k[x]
<1>1. PICK rest : rest = Cardinality(Units(h, S \ {x}))
  OBVIOUS
<1>2. Units(k, S \ {x}) = Units(h, S \ {x})
  BY DEF Units
<1>3. Cardinality(Units(h, S)) = h[x] + rest
  BY <1>1, UnitsOf
<1>4. Cardinality(Units(k, S)) = k[x] + rest
  BY <1>1, <1>2, UnitsOf
<1>5. IsFiniteSet(Units(h, S \ {x}))
  BY UnitsFinite
<1>6. rest \in Nat
  BY <1>1, <1>5, FS_CardinalityType
<1>7. h[x] \in Nat /\ k[x] \in Nat
  OBVIOUS
<1> QED
  BY <1>3, <1>4, <1>6, <1>7

(* Nothing adds up to nothing.                                             *)
LEMMA NoUnits ==
    ASSUME NEW S, NEW h, \A x \in S : h[x] = 0
    PROVE  Cardinality(Units(h, S)) = 0
<1>1. Units(h, S) = {}
  BY DEF Units
<1> QED
  BY <1>1, FS_EmptySet

------------------------------------------------------------------------------
(* The bookkeeping in these terms.                                         *)
HeldBy(e) == IF e.kind = "file" THEN e.held ELSE 0

WrittenBy(e) == IF e.kind = "file" THEN e.written ELSE 0

HeldOf(s) == [f \in FileIds |-> HeldBy(entry[s][f])]

WrittenOf(s) == [f \in FileIds |-> WrittenBy(entry[s][f])]

Accounts ==
    \A s \in Transfers :
      /\ reserved[s] = Cardinality(Units(HeldOf(s), FileIds))
      /\ reserved[s] <= MaxSessionBytes
      /\ Cardinality(Units(WrittenOf(s), FileIds)) <= consumed[s]

(* What an entry contributes; what is released is what was held.           *)
LEMMA TermsTyped ==
    ASSUME NEW e \in EntryType
    PROVE  /\ HeldBy(e) \in Nat /\ WrittenBy(e) \in Nat
           /\ Released(e) = HeldBy(e)
BY EntryKinds DEF HeldBy, WrittenBy, FileType, Released

(* The terms of a transfer are numbers.                                    *)
LEMMA SumsTyped ==
    ASSUME StagingTypeOK, NEW s \in Transfers
    PROVE  HeldOf(s) \in [FileIds -> Nat] /\ WrittenOf(s) \in [FileIds -> Nat]
<1>1. \A f \in FileIds : entry[s][f] \in EntryType
  BY DEF StagingTypeOK
<1> QED
  BY <1>1, TermsTyped DEF HeldOf, WrittenOf

(* The sums of the model in units.                                         *)
LEMMA SumsAre ==
    ASSUME StagingTypeOK, NEW s \in Transfers
    PROVE  /\ MapThenSumSet(LAMBDA f : entry[s][f].held, IdsOf(s, "file")) =
                Cardinality(Units(HeldOf(s), FileIds))
           /\ Written(s) = Cardinality(Units(WrittenOf(s), FileIds))
<1>1. PICK S : S = IdsOf(s, "file")
  OBVIOUS
<1>2. S \subseteq FileIds /\ \A f \in FileIds : f \in S <=> entry[s][f].kind = "file"
  BY <1>1 DEF IdsOf
<1>3. IsFiniteSet(S)
  BY <1>2, StagingAssumption, FS_Subset
<1>4. \A f \in S : entry[s][f].held \in Nat /\ entry[s][f].written \in Nat
  <2>1. \A f \in S : entry[s][f] \in FileType
    BY <1>2, EntryKinds DEF StagingTypeOK
  <2> QED
    BY <2>1 DEF FileType
<1>5. /\ Units(HeldOf(s), FileIds) = Units([f \in S |-> entry[s][f].held], S)
      /\ Units(WrittenOf(s), FileIds) = Units([f \in S |-> entry[s][f].written], S)
  BY <1>2, <1>4 DEF Units, HeldOf, HeldBy, WrittenOf, WrittenBy
<1>6. MapThenSumSet(LAMBDA f : entry[s][f].held, S) =
        Cardinality(Units([f \in S |-> entry[s][f].held], S))
  BY <1>3, <1>4, HeldUnits
<1>7. MapThenSumSet(LAMBDA f : entry[s][f].written, S) =
        Cardinality(Units([f \in S |-> entry[s][f].written], S))
  BY <1>3, <1>4, WrittenUnits
<1> QED
  BY <1>1, <1>5, <1>6, <1>7 DEF Written

(* Kept in units, the accounts are those of the property.                  *)
LEMMA AccountsAre == StagingTypeOK /\ Accounts => AccountingExact
BY SumsAre DEF Accounts, AccountingExact

(* One entry changes, and the totals by what it contributes.               *)
LEMMA PutAccounts ==
    ASSUME StagingTypeOK, StagingTypeOK', Accounts,
           NEW s \in Transfers, NEW f \in FileIds, NEW e \in EntryType, Put(s, f, e),
           \A t \in Transfers \ {s} : reserved'[t] = reserved[t] /\ consumed'[t] = consumed[t],
           reserved'[s] = reserved[s] - HeldBy(entry[s][f]) + HeldBy(e),
           reserved'[s] <= MaxSessionBytes,
           WrittenBy(e) - WrittenBy(entry[s][f]) <= consumed'[s] - consumed[s]
    PROVE  Accounts'
<1>1. /\ \A t \in Transfers \ {s} : entry'[t] = entry[t]
      /\ entry'[s][f] = e
      /\ \A g \in FileIds \ {f} : entry'[s][g] = entry[s][g]
  BY DEF Put, StagingTypeOK
<1>2. \A t \in Transfers \ {s} : HeldOf(t)' = HeldOf(t) /\ WrittenOf(t)' = WrittenOf(t)
  BY <1>1 DEF HeldOf, WrittenOf
<1>3. PICK h, k, w, v : h = HeldOf(s) /\ k = HeldOf(s)' /\ w = WrittenOf(s) /\ v = WrittenOf(s)'
  OBVIOUS
<1>4. h \in [FileIds -> Nat] /\ w \in [FileIds -> Nat]
  BY <1>3, SumsTyped
<1>5. k \in [FileIds -> Nat] /\ v \in [FileIds -> Nat]
  <2>1. \A g \in FileIds : entry'[s][g] \in EntryType
    BY DEF StagingTypeOK
  <2> QED
    BY <1>3, <2>1, TermsTyped DEF HeldOf, WrittenOf
<1>6. /\ \A g \in FileIds \ {f} : k[g] = h[g] /\ v[g] = w[g]
      /\ h[f] = HeldBy(entry[s][f]) /\ k[f] = HeldBy(e)
      /\ w[f] = WrittenBy(entry[s][f]) /\ v[f] = WrittenBy(e)
  BY <1>1, <1>3 DEF HeldOf, WrittenOf
<1>0. IsFiniteSet(FileIds)
  BY StagingAssumption
<1>7. Cardinality(Units(k, FileIds)) = Cardinality(Units(h, FileIds)) - h[f] + k[f]
  <2>1. \A g \in FileIds \ {f} : k[g] = h[g]
    BY <1>6
  <2> QED
    BY <1>0, <1>4, <1>5, <2>1, TermChanges
<1>8. /\ Cardinality(Units(v, FileIds)) = Cardinality(Units(w, FileIds)) - w[f] + v[f]
      /\ Cardinality(Units(w, FileIds)) \in Nat
  <2>1. \A g \in FileIds \ {f} : v[g] = w[g]
    BY <1>6
  <2> QED
    BY <1>0, <1>4, <1>5, <2>1, TermChanges
<1>9. /\ reserved[s] = Cardinality(Units(h, FileIds))
      /\ Cardinality(Units(w, FileIds)) <= consumed[s]
  BY <1>3 DEF Accounts
<1>10. reserved'[s] = Cardinality(Units(k, FileIds))
  BY <1>6, <1>7, <1>9
<1>11. Cardinality(Units(v, FileIds)) <= consumed'[s]
  <2>1. consumed[s] \in Nat /\ consumed'[s] \in Nat /\ w[f] \in Nat /\ v[f] \in Nat
    BY <1>4, <1>5 DEF StagingTypeOK
  <2>2. v[f] - w[f] <= consumed'[s] - consumed[s]
    BY <1>6
  <2> QED
    BY <1>8, <1>9, <2>1, <2>2
<1>12. ASSUME NEW t \in Transfers
       PROVE  /\ reserved'[t] = Cardinality(Units(HeldOf(t)', FileIds))
              /\ reserved'[t] <= MaxSessionBytes
              /\ Cardinality(Units(WrittenOf(t)', FileIds)) <= consumed'[t]
  <2>1. CASE t = s
    BY <1>3, <1>10, <1>11, <2>1
  <2>2. CASE t # s
    BY <1>2, <2>2 DEF Accounts
  <2> QED
    BY <2>1, <2>2
<1> QED
  BY <1>12 DEF Accounts, Units

(* All entries and totals of a transfer go together.                       *)
LEMMA ForgetAccounts ==
    ASSUME StagingTypeOK, Accounts, NEW s \in Transfers, Forget(s)
    PROVE  Accounts'
<1>1. /\ \A t \in Transfers \ {s} :
            entry'[t] = entry[t] /\ reserved'[t] = reserved[t] /\ consumed'[t] = consumed[t]
      /\ entry'[s] = NoEntries /\ reserved'[s] = 0 /\ consumed'[s] = 0
  BY DEF Forget, StagingTypeOK
<1>2. ASSUME NEW t \in Transfers
      PROVE  /\ reserved'[t] = Cardinality(Units(HeldOf(t)', FileIds))
             /\ reserved'[t] <= MaxSessionBytes
             /\ Cardinality(Units(WrittenOf(t)', FileIds)) <= consumed'[t]
  <2>1. CASE t = s
    <3>1. PICK k, v : k = HeldOf(s)' /\ v = WrittenOf(s)'
      OBVIOUS
    <3>2. \A g \in FileIds : k[g] = 0 /\ v[g] = 0
      BY <1>1, <3>1 DEF HeldOf, WrittenOf, HeldBy, WrittenBy, NoEntries, Absent
    <3>3. Cardinality(Units(k, FileIds)) = 0 /\ Cardinality(Units(v, FileIds)) = 0
      BY <3>2, NoUnits
    <3> QED
      BY <1>1, <2>1, <3>1, <3>3, StagingAssumption
  <2>2. CASE t # s
    <3>1. HeldOf(t)' = HeldOf(t) /\ WrittenOf(t)' = WrittenOf(t)
      BY <1>1, <2>2 DEF HeldOf, WrittenOf
    <3> QED
      BY <1>1, <2>2, <3>1 DEF Accounts
  <2> QED
    BY <2>1, <2>2
<1> QED
  BY <1>2 DEF Accounts, Units

(* What the totals and entries are left alone by.                          *)
LEMMA SameAccounts ==
    ASSUME Accounts, UNCHANGED <<entry, reserved, consumed>>
    PROVE  Accounts'
BY DEF Accounts, HeldOf, WrittenOf, Units

(* A rejected entry gives back exactly what it held: the subtraction does  *)
(* not saturate.                                                           *)
LEMMA RejectAccounts ==
    ASSUME StagingTypeOK, StagingTypeOK', Accounts, NEW s \in Transfers, NEW f \in FileIds,
           Reject(s, f), NEW n \in Nat, consumed' = [consumed EXCEPT ![s] = @ + n]
    PROVE  Accounts'
<1>1. entry[s][f] \in EntryType /\ Rejected \in EntryType
  BY DEF StagingTypeOK, EntryType
<1>2. PICK held : held = HeldBy(entry[s][f])
  OBVIOUS
<1>3. held \in Nat /\ Released(entry[s][f]) = held /\ WrittenBy(entry[s][f]) \in Nat
  BY <1>1, <1>2, TermsTyped
<1>4. HeldBy(Rejected) = 0 /\ WrittenBy(Rejected) = 0
  BY DEF HeldBy, WrittenBy, Rejected
<1>5. reserved \in [Transfers -> Nat] /\ consumed \in [Transfers -> Nat]
  BY DEF StagingTypeOK
<1>6. held <= reserved[s]
  <2>1. PICK h : h = HeldOf(s)
    OBVIOUS
  <2>2. h \in [FileIds -> Nat] /\ h[f] = held
    BY <1>2, <2>1, SumsTyped DEF HeldOf
  <2>3. IsFiniteSet(FileIds)
    BY StagingAssumption
  <2>4. h[f] <= Cardinality(Units(h, FileIds))
    BY <2>2, <2>3, TermChanges
  <2> QED
    BY <2>1, <2>2, <2>4 DEF Accounts
<1>7. Put(s, f, Rejected) /\ reserved' = [reserved EXCEPT ![s] = Left(@, held)]
  BY <1>3 DEF Reject
<1>8. Left(reserved[s], held) = reserved[s] - held
  BY <1>3, <1>5, <1>6 DEF Left, Larger
<1>9. \A t \in Transfers \ {s} : reserved'[t] = reserved[t] /\ consumed'[t] = consumed[t]
  BY <1>5, <1>7
<1>10. reserved'[s] = reserved[s] - held + 0 /\ consumed'[s] = consumed[s] + n
  BY <1>3, <1>5, <1>7, <1>8
<1>11. reserved'[s] <= MaxSessionBytes
  <2>1. reserved[s] <= MaxSessionBytes
    BY DEF Accounts
  <2> QED
    BY <1>3, <1>5, <1>10, <2>1, StagingAssumption
<1>12. WrittenBy(Rejected) - WrittenBy(entry[s][f]) <= consumed'[s] - consumed[s]
  BY <1>3, <1>4, <1>5, <1>10
<1> QED
  BY <1>1, <1>2, <1>4, <1>7, <1>9, <1>10, <1>11, <1>12, PutAccounts

(* The accounts do not depend on links and directories.                    *)
LEMMA OtherAccounts ==
    ASSUME StagingTypeOK, StagingTypeOK', Accounts, NEW s \in Transfers, NEW f \in FileIds,
           entry[s][f].kind # "file", NEW e \in EntryType, e.kind # "file",
           Put(s, f, e), reserved' = reserved,
           NEW n \in Nat, consumed' = [consumed EXCEPT ![s] = @ + n]
    PROVE  Accounts'
<1>1. HeldBy(e) = 0 /\ WrittenBy(e) = 0 /\ HeldBy(entry[s][f]) = 0 /\ WrittenBy(entry[s][f]) = 0
  BY DEF HeldBy, WrittenBy
<1>2. reserved \in [Transfers -> Nat] /\ consumed \in [Transfers -> Nat]
  BY DEF StagingTypeOK
<1>3. \A t \in Transfers \ {s} : reserved'[t] = reserved[t] /\ consumed'[t] = consumed[t]
  BY <1>2
<1>4. reserved'[s] = reserved[s] - 0 + 0 /\ 0 - 0 <= consumed'[s] - consumed[s]
  BY <1>2
<1>5. reserved'[s] <= MaxSessionBytes
  BY DEF Accounts
<1> QED
  BY <1>1, <1>3, <1>4, <1>5, PutAccounts

(* A FILE command reserves what the limit leaves room for: what is written *)
(* has been charged, so that the test of stage_file covers all that is     *)
(* reserved.                                                               *)
LEMMA StageAccounts ==
    ASSUME StagingTypeOK, StagingTypeOK', Accounts, NEW h \in Headers, StageFile(h)
    PROVE  Accounts'
<1>1. PICK s, f : s = h.transfer /\ f = h.id
  OBVIOUS
<1>2. s \in Transfers /\ f \in FileIds /\ h.size \in Sizes
  BY <1>1, StagingAssumption DEF Sizes
<1>3. reserved \in [Transfers -> Nat] /\ consumed \in [Transfers -> Nat] /\ consumed' = consumed
  BY DEF StageFile, StagingTypeOK
<1>4. consumed' = [consumed EXCEPT ![s] = @ + 0]
  BY <1>2, <1>3
<1>5. CASE RefuseEntry(h)
  BY <1>3, <1>5, SameAccounts DEF RefuseEntry
<1>6. Admissible(h) => entry[s][f].kind # "file"
  BY <1>1, <1>2 DEF Admissible, Taken, Absent
<1>7. CASE RejectHeader(h) \/ RejectByFilesystem(h)
  <2>1. Put(s, f, Rejected) /\ reserved' = reserved /\ entry[s][f].kind # "file"
    BY <1>1, <1>6, <1>7 DEF RejectHeader, RejectByFilesystem
  <2>2. Rejected \in EntryType /\ Rejected.kind # "file"
    BY DEF EntryType, Rejected
  <2> QED
    BY <1>2, <1>4, <2>1, <2>2, OtherAccounts
<1>8. CASE StageEntry(h) /\ h.kind # "file"
  <2>1. reserved' = [reserved EXCEPT ![s] = @ + 0] /\ entry[s][f].kind # "file"
    BY <1>1, <1>6, <1>8 DEF StageEntry, Reservation
  <2>2. PICK e : Put(s, f, e) /\ e.kind # "file"
    <3>1. Put(s, f, NewDir(h)) \/ Put(s, f, NewLink(h))
      BY <1>1, <1>8 DEF StageEntry
    <3>2. NewDir(h).kind = "dir" /\ NewLink(h).kind = "link"
      BY DEF NewDir, NewLink
    <3> QED
      BY <3>1, <3>2
  <2>3. e \in EntryType /\ reserved' = reserved
    <3>1. entry' \in [Transfers -> [FileIds -> EntryType]] /\ entry \in [Transfers -> [FileIds -> EntryType]]
      BY DEF StagingTypeOK
    <3>2. entry'[s][f] = e
      BY <1>2, <2>2, <3>1 DEF Put
    <3>3. reserved' = reserved
      BY <1>2, <1>3, <2>1
    <3> QED
      BY <1>2, <3>1, <3>2, <3>3
  <2> QED
    BY <1>2, <1>4, <2>1, <2>2, <2>3, OtherAccounts
<1>9. CASE StageEntry(h) /\ h.kind = "file"
  <2>1. PICK viaRsync : Put(s, f, NewFile(h, viaRsync))
    BY <1>1, <1>9 DEF StageEntry
  <2>2. PICK e, new : e = NewFile(h, viaRsync) /\ new = Reservation(h)
    OBVIOUS
  <2>3. e.kind = "file" /\ e.held = new /\ e.written = 0 /\ new \in Nat
    BY <1>2, <2>2 DEF NewFile, Reservation, Sizes
  <2>4. e \in EntryType
    <3>1. entry' \in [Transfers -> [FileIds -> EntryType]] /\ entry \in [Transfers -> [FileIds -> EntryType]]
      BY DEF StagingTypeOK
    <3>2. entry'[s][f] = e
      BY <1>2, <2>1, <2>2, <3>1 DEF Put
    <3> QED
      BY <1>2, <3>1, <3>2
  <2>5. HeldBy(e) = new /\ WrittenBy(e) = 0 /\ HeldBy(entry[s][f]) = 0 /\ WrittenBy(entry[s][f]) = 0
    BY <1>6, <1>9, <2>3 DEF HeldBy, WrittenBy, StageEntry
  <2>6. reserved' = [reserved EXCEPT ![s] = @ + new] /\ ~TooLarge(s, new)
    BY <1>1, <1>9, <2>2 DEF StageEntry
  <2>7. PICK w : w = Written(s)
    OBVIOUS
  <2>8. w \in Nat /\ w <= consumed[s]
    <3>1. w = Cardinality(Units(WrittenOf(s), FileIds))
      BY <1>2, <2>7, SumsAre
    <3>2. IsFiniteSet(FileIds)
      BY StagingAssumption
    <3>3. IsFiniteSet(Units(WrittenOf(s), FileIds))
      BY <1>2, <3>2, SumsTyped, UnitsFinite
    <3>4. w \in Nat
      BY <3>1, <3>3, FS_CardinalityType
    <3> QED
      BY <1>2, <3>1, <3>4 DEF Accounts
  <2>9. reserved[s] + new <= MaxSessionBytes
    <3>1. reserved[s] \in Nat /\ consumed[s] \in Nat /\ MaxSessionBytes \in Nat
      BY <1>2, <1>3, StagingAssumption
    <3>2. consumed[s] + Left(reserved[s], w) + new <= MaxSessionBytes
      <4>1. Left(reserved[s], w) \in Nat
        BY <2>8, <3>1 DEF Left, Larger
      <4> QED
        BY <2>3, <2>6, <2>7, <3>1, <4>1 DEF TooLarge, PlannedUnwritten
    <3>3. Left(reserved[s], w) >= reserved[s] - w /\ Left(reserved[s], w) \in Nat
      BY <2>8, <3>1 DEF Left, Larger
    <3> QED
      BY <2>3, <2>8, <3>1, <3>2, <3>3
  <2>10. reserved'[s] = reserved[s] - 0 + new /\ reserved'[s] <= MaxSessionBytes
    BY <1>2, <1>3, <2>3, <2>6, <2>9
  <2>11. \A t \in Transfers \ {s} : reserved'[t] = reserved[t] /\ consumed'[t] = consumed[t]
    BY <1>3, <2>6
  <2>12. 0 - 0 <= consumed'[s] - consumed[s]
    BY <1>2, <1>3
  <2> QED
    BY <1>2, <2>1, <2>2, <2>4, <2>5, <2>10, <2>11, <2>12, PutAccounts
<1> QED
  BY <1>5, <1>7, <1>8, <1>9 DEF StageFile

(* The target of a link.                                                   *)
LEMMA LinkAccounts ==
    ASSUME StagingTypeOK, StagingTypeOK', Accounts, NEW s \in Transfers, NEW f \in FileIds,
           NEW n \in 0..ChunkBound,
           RejectLinkData(s, f, n) \/ AddLinkData(s, f, n) \/ EndLinkData(s, f, n)
    PROVE  Accounts'
<1>1. consumed \in [Transfers -> Nat] /\ n \in Nat /\ entry \in [Transfers -> [FileIds -> EntryType]]
      /\ entry' \in [Transfers -> [FileIds -> EntryType]]
  BY StagingAssumption DEF StagingTypeOK
<1>2. PICK k \in Nat : consumed' = [consumed EXCEPT ![s] = @ + k]
  <2>1. consumed' = consumed \/ consumed' = [consumed EXCEPT ![s] = @ + n]
    BY DEF RejectLinkData, AddLinkData, EndLinkData
  <2>2. consumed = [consumed EXCEPT ![s] = @ + 0]
    BY <1>1
  <2> QED
    BY <1>1, <2>1, <2>2
<1>3. CASE Reject(s, f)
  BY <1>2, <1>3, RejectAccounts
<1>4. CASE ~Reject(s, f)
  <2>1. entry[s][f].kind = "link" /\ entry[s][f] \in LinkType
    <3>1. entry[s][f].kind = "link"
      BY DEF RejectLinkData, AddLinkData, EndLinkData, Active
    <3> QED
      BY <1>1, <3>1, EntryKinds
  <2>2. PICK e : Put(s, f, e) /\ e.kind = "link" /\ reserved' = reserved
    <3>1. CASE AddLinkData(s, f, n)
      <4>1. Put(s, f, [entry[s][f] EXCEPT !.len = @ + n]) /\ reserved' = reserved
        BY <3>1 DEF AddLinkData
      <4>2. [entry[s][f] EXCEPT !.len = @ + n].kind = "link"
        BY <2>1 DEF LinkType
      <4> QED
        BY <4>1, <4>2
    <3>2. CASE EndLinkData(s, f, n)
      <4>1. PICK to : Put(s, f, [entry[s][f] EXCEPT !.len = @ + n, !.done = TRUE, !.to = to])
                      /\ reserved' = reserved
        BY <1>4, <3>2 DEF EndLinkData
      <4>2. [entry[s][f] EXCEPT !.len = @ + n, !.done = TRUE, !.to = to].kind = "link"
        BY <2>1 DEF LinkType
      <4> QED
        BY <4>1, <4>2
    <3> QED
      BY <1>4, <3>1, <3>2 DEF RejectLinkData
  <2>3. e \in EntryType
    <3>1. entry'[s][f] = e
      BY <1>1, <2>2 DEF Put
    <3> QED
      BY <1>1, <3>1
  <2> QED
    BY <1>2, <2>1, <2>2, <2>3, OtherAccounts
<1> QED
  BY <1>3, <1>4

(* A file that grows reserves what it outgrows.                            *)
LEMMA GrowAccounts ==
    ASSUME StagingTypeOK, StagingTypeOK', Accounts, NEW s \in Transfers, NEW f \in FileIds,
           entry[s][f] \in FileType, NEW n \in Nat, NEW e, Put(s, f, e),
           e.kind = "file", e.held = Grown(s, f, n).held, e.written = Grown(s, f, n).written,
           ~Outgrows(s, f, n), Charge(s, n),
           reserved' = [reserved EXCEPT ![s] = @ + Left(entry[s][f].written + n, entry[s][f].held)]
    PROVE  Accounts'
<1>1. reserved \in [Transfers -> Nat] /\ consumed \in [Transfers -> Nat] /\ MaxSessionBytes \in Nat
      /\ consumed' = [consumed EXCEPT ![s] = @ + n]
  BY StagingAssumption DEF StagingTypeOK, Charge
<1>2. PICK w, held : w = entry[s][f].written /\ held = entry[s][f].held
  OBVIOUS
<1>3. w \in Nat /\ held \in Nat
  BY <1>2 DEF FileType
<1>4. e.written = w + n /\ e.held = Larger(held, w + n)
  BY <1>2 DEF Grown, FileType
<1>5. HeldBy(e) = Larger(held, w + n) /\ WrittenBy(e) = w + n
  BY <1>4 DEF HeldBy, WrittenBy
<1>6. HeldBy(entry[s][f]) = held /\ WrittenBy(entry[s][f]) = w
  BY <1>2 DEF HeldBy, WrittenBy, FileType
<1>7. Larger(held, w + n) = held + Left(w + n, held) /\ Left(w + n, held) \in Nat
  BY <1>3 DEF Left, Larger
<1>8. reserved' = [reserved EXCEPT ![s] = @ + Left(w + n, held)]
      /\ ~(reserved[s] + Left(w + n, held) > MaxSessionBytes)
  BY <1>2 DEF Outgrows
<1>9. PICK more, larger : more = Left(w + n, held) /\ larger = Larger(held, w + n)
  OBVIOUS
<1>10. /\ \A t \in Transfers \ {s} : reserved'[t] = reserved[t] /\ consumed'[t] = consumed[t]
       /\ reserved'[s] = reserved[s] + more /\ consumed'[s] = consumed[s] + n
       /\ reserved'[s] <= MaxSessionBytes
  BY <1>1, <1>7, <1>8, <1>9
<1>11. reserved'[s] = reserved[s] - held + larger
  BY <1>1, <1>3, <1>7, <1>9, <1>10
<1>12. (w + n) - w <= consumed'[s] - consumed[s]
  BY <1>1, <1>3, <1>10
<1>13. e \in EntryType
  <2>1. entry' \in [Transfers -> [FileIds -> EntryType]] /\ entry \in [Transfers -> [FileIds -> EntryType]]
    BY DEF StagingTypeOK
  <2>2. entry'[s][f] = e
    BY <2>1 DEF Put
  <2> QED
    BY <2>1, <2>2
<1> QED
  BY <1>5, <1>6, <1>9, <1>10, <1>11, <1>12, <1>13, PutAccounts

(* The bytes of a file.                                                    *)
LEMMA FileAccounts ==
    ASSUME StagingTypeOK, StagingTypeOK', Accounts, NEW s \in Transfers, NEW f \in FileIds,
           NEW n \in 0..ChunkBound,
           DataAfterEnd(s, f) \/ DataFails(s, f, n) \/ AddData(s, f, n) \/ EndData(s, f, n)
    PROVE  Accounts'
<1>1. consumed \in [Transfers -> Nat] /\ n \in Nat
  BY StagingAssumption DEF StagingTypeOK
<1>2. entry[s][f] \in FileType
  <2>1. entry[s][f] \in EntryType /\ entry[s][f].kind = "file"
    BY DEF StagingTypeOK, DataAfterEnd, DataFails, AddData, EndData, Active
  <2> QED
    BY <2>1, EntryKinds
<1>3. CASE Reject(s, f)
  <2>1. PICK k \in Nat : consumed' = [consumed EXCEPT ![s] = @ + k]
    <3>1. CASE DataAfterEnd(s, f)
      <4>1. consumed' = [consumed EXCEPT ![s] = @ + 0]
        BY <1>1, <3>1 DEF DataAfterEnd
      <4> QED
        BY <4>1
    <3>2. CASE DataFails(s, f, n)
      <4>1. PICK k \in 0..Smaller(n, Accepts(s, f)) : Charge(s, k)
        BY <3>2 DEF DataFails
      <4>2. k \in Nat
        BY <4>1
      <4> QED
        BY <4>1, <4>2 DEF Charge
    <3>3. CASE AddData(s, f, n) \/ EndData(s, f, n)
      BY <1>1, <3>3 DEF AddData, EndData, Charge
    <3> QED
      BY <3>1, <3>2, <3>3
  <2> QED
    BY <1>3, <2>1, RejectAccounts
<1>4. CASE ~Reject(s, f)
  <2>1. /\ AddData(s, f, n) \/ EndData(s, f, n)
        /\ Charge(s, n) /\ ~Outgrows(s, f, n)
        /\ reserved' = [reserved EXCEPT ![s] = @ + Left(entry[s][f].written + n, entry[s][f].held)]
        /\ \/ Put(s, f, Grown(s, f, n))
           \/ Put(s, f, [Grown(s, f, n) EXCEPT !.done = TRUE])
    BY <1>4 DEF DataAfterEnd, DataFails, AddData, EndData
  <2>2. PICK l, w, g : l = entry[s][f] /\ w = entry[s][f].written + n /\ g = Grown(s, f, n)
    OBVIOUS
  <2>3. /\ l \in [kind : {"file"}, at : Places, size : Sizes, rsync : BOOLEAN, cap : Int,
                  written : Nat, held : Nat, done : BOOLEAN]
        /\ g = [l EXCEPT !.written = w, !.held = Larger(@, w)]
    BY <1>2, <2>2 DEF FileType, Grown
  <2>4. /\ g.kind = "file"
        /\ [g EXCEPT !.done = TRUE].kind = "file"
        /\ [g EXCEPT !.done = TRUE].held = g.held
        /\ [g EXCEPT !.done = TRUE].written = g.written
    BY <2>3
  <2>5. PICK e : Put(s, f, e) /\ e.kind = "file" /\ e.held = g.held /\ e.written = g.written
    BY <2>1, <2>2, <2>4
  <2> QED
    BY <1>1, <1>2, <2>1, <2>2, <2>5, GrowAccounts
<1> QED
  BY <1>3, <1>4

(* Every step keeps the accounts.                                          *)
LEMMA AccountsStep == StagingTypeOK /\ StagingTypeOK' /\ Accounts /\ [Next]_vars => Accounts'
<1> SUFFICES ASSUME StagingTypeOK, StagingTypeOK', Accounts, [Next]_vars  PROVE Accounts'
  OBVIOUS
<1>1. CASE UNCHANGED vars
  BY <1>1, SameAccounts DEF vars
<1>2. CASE \E h \in Headers : StageFile(h)
  BY <1>2, StageAccounts
<1>3. ASSUME NEW s \in Transfers, Abort(s) \/ Finish(s)
      PROVE  Accounts'
  <2>1. Forget(s) \/ UNCHANGED <<entry, reserved, consumed>>
    BY <1>3 DEF Abort, Finish, FinishIncomplete, FinishUnresolved, Discard, BeginCommit, EndCommit,
        PublishFile, PublishFileFails, PublishLink, PublishLinkFails, PublishDir, PublishDirFails,
        Abandon
  <2> QED
    BY <2>1, ForgetAccounts, SameAccounts
<1>4. ASSUME NEW s \in Transfers, NEW f \in FileIds, DataAfterEnd(s, f) \/ Data(s, f)
      PROVE  Accounts'
  <2>1. 0 \in 0..ChunkBound
    BY StagingAssumption
  <2> QED
    BY <1>4, <2>1, LinkAccounts, FileAccounts DEF Data
<1> QED
  BY <1>1, <1>2, <1>3, <1>4 DEF Next

(* At first there is nothing to account for.                               *)
LEMMA InitAccounts == Init => Accounts
<1> SUFFICES ASSUME Init, NEW s \in Transfers
             PROVE  /\ reserved[s] = Cardinality(Units(HeldOf(s), FileIds))
                    /\ reserved[s] <= MaxSessionBytes
                    /\ Cardinality(Units(WrittenOf(s), FileIds)) <= consumed[s]
  BY DEF Accounts
<1>1. \A g \in FileIds : HeldOf(s)[g] = 0 /\ WrittenOf(s)[g] = 0
  BY DEF Init, HeldOf, WrittenOf, HeldBy, WrittenBy, NoEntries, Absent
<1>2. Cardinality(Units(HeldOf(s), FileIds)) = 0 /\ Cardinality(Units(WrittenOf(s), FileIds)) = 0
  BY <1>1, NoUnits
<1> QED
  BY <1>2, StagingAssumption DEF Init

(* The totals of a transfer are exact and within the limit: what is        *)
(* reserved is the sum of what its live files hold, and the sum of what    *)
(* they have written has been charged, so that the unsaturated subtraction *)
(* of stage_file never underflows.                                         *)
THEOREM AccountingHolds == Spec => []AccountingExact
BY InitAccounts, AccountsStep, StagingTyped, AccountsAre, PTL DEF Spec

------------------------------------------------------------------------------
(* A directory that a sweep leaves behind is not empty, or holds what the  *)
(* transfer that is dropped had still on disk.                             *)
LEMMA SweepLeaves ==
    ASSUME StagingInv, NEW s \in Transfers, Forget(s), commit' = NoCommit,
           commit.transfer \subseteq {s}, NEW D \in SUBSET Dirs, NEW kept \in SUBSET Staged,
           Sweep(D, kept), NEW d \in D, d \in dirs', Empty(d)'
    PROVE  \E x \in kept : x[1] = s /\ entry[x[1]][x[2]].at \in Below[d]
<1> DEFINE there == dirs \cup Shown(visible') \cup {entry[x[1]][x[2]].at : x \in kept}
<1>1. dirs' = dirs \ {c \in D \cap dirs : Below[c] \cap there \subseteq D}
  BY DEF Sweep, Removed
<1>2. PICK y \in Below[d] \cap there : y \notin D
  BY <1>1
<1>3. y \notin dirs' /\ y \notin Shown(visible')
  BY <1>2 DEF Empty, Shown
<1>4. y \notin dirs
  BY <1>1, <1>2, <1>3
<1>5. PICK x \in kept : y = entry[x[1]][x[2]].at
  BY <1>2, <1>3, <1>4
<1>6. CASE x[1] # s
  <2>1. x \in Staged' /\ entry'[x[1]][x[2]] = entry[x[1]][x[2]]
    BY <1>6 DEF Staged, Forget, StagingInv, StagingTypeOK
  <2> QED
    BY <1>2, <1>5, <2>1 DEF Empty
<1> QED
  BY <1>2, <1>5, <1>6

(* While a transfer is received its directories do not change.             *)
LEMMA DirsStay ==
    ASSUME StagingInv, NEW s \in Transfers, NEW f \in FileIds, NEW e,
           Put(s, f, e), entry[s][f].kind # "dir",
           NEW t \in Transfers, NEW g \in FileIds, g \in IdsOf(t, "dir")
    PROVE  entry'[t][g] = entry[t][g]
BY DEF Put, IdsOf, StagingInv, StagingTypeOK

(* A transfer that ends changes its own entries only.                      *)
LEMMA ForgetsItself ==
    ASSUME StagingInv, NEW s \in Transfers, Forget(s), NEW t \in Transfers \ {s}
    PROVE  entry'[t] = entry[t]
BY DEF Forget, StagingInv, StagingTypeOK

(* Data is for a file or a link that is staged, while nothing commits.     *)
LEMMA DataFrame ==
    ASSUME NEW s \in Transfers, NEW f \in FileIds, DataAfterEnd(s, f) \/ Data(s, f)
    PROVE  /\ Idle /\ UNCHANGED <<commit, visible>>
           /\ entry[s][f].kind # "dir"
           /\ \E e : Put(s, f, e)
<1> DEFINE Framed ==
      /\ Idle /\ UNCHANGED <<commit, visible>>
      /\ entry[s][f].kind # "dir"
      /\ \E e : Put(s, f, e)
<1>1. CASE DataAfterEnd(s, f)
  BY <1>1 DEF DataAfterEnd, Active, Reject
<1>2. ASSUME NEW n \in 0..ChunkBound, RejectLinkData(s, f, n) PROVE Framed
  BY <1>2 DEF RejectLinkData, Active, Reject
<1>3. ASSUME NEW n \in 0..ChunkBound, AddLinkData(s, f, n) PROVE Framed
  BY <1>3 DEF AddLinkData, Active
<1>4. ASSUME NEW n \in 0..ChunkBound, EndLinkData(s, f, n) PROVE Framed
  BY <1>4 DEF EndLinkData, Active, Reject
<1>5. ASSUME NEW n \in 0..ChunkBound, DataFails(s, f, n) PROVE Framed
  BY <1>5 DEF DataFails, Active, Reject
<1>6. ASSUME NEW n \in 0..ChunkBound, AddData(s, f, n) PROVE Framed
  BY <1>6 DEF AddData, Active, Reject
<1>7. ASSUME NEW n \in 0..ChunkBound, EndData(s, f, n) PROVE Framed
  BY <1>7 DEF EndData, Active, Reject
<1> HIDE DEF Framed
<1>8. CASE Data(s, f)
  <2>1. Framed
    BY <1>2, <1>3, <1>4, <1>5, <1>6, <1>7, <1>8 DEF Data
  <2> QED
    BY <2>1 DEF Framed
<1> QED
  BY <1>1, <1>8

(* One step of the theorem below.                                          *)
LEMMA SweptStep ==
    ASSUME StagingInv, Next, NEW s \in Transfers, NEW f \in FileIds, NEW d \in Dirs,
           f \in IdsOf(s, "dir"), entry[s][f].created, entry[s][f].at = d,
           entry'[s][f] # entry[s][f],
           f \in commit.dirs \/ s \notin commit.transfer
    PROVE  d \notin dirs' \/ ~Empty(d)' \/ LeftByFailedCommit(s, d)
<1>1. ASSUME NEW h \in Headers, StageFile(h)
      PROVE  FALSE
  <2>1. h.transfer \in Transfers /\ h.id \in FileIds
    BY StagingAssumption
  <2>2. \/ entry' = entry
        \/ /\ entry[h.transfer][h.id] = Absent
           /\ \E e : Put(h.transfer, h.id, e)
    <3>1. Admissible(h) => entry[h.transfer][h.id] = Absent
      BY <2>1 DEF Admissible, Taken
    <3>2. CASE RefuseEntry(h)
      BY <3>2 DEF RefuseEntry
    <3>3. CASE RejectHeader(h)
      BY <3>1, <3>3 DEF RejectHeader
    <3>4. CASE RejectByFilesystem(h)
      BY <3>1, <3>4 DEF RejectByFilesystem
    <3>5. CASE StageEntry(h)
      <4>1. \E e : Put(h.transfer, h.id, e)
        BY <3>5 DEF StageEntry
      <4> QED
        BY <3>1, <3>5, <4>1 DEF StageEntry
    <3> QED
      BY <1>1, <3>2, <3>3, <3>4, <3>5 DEF StageFile
  <2>3. Absent.kind # "dir"
    BY DEF Absent
  <2> QED
    BY <2>1, <2>2, <2>3, DirsStay
<1>2. ASSUME NEW t \in Transfers, NEW g \in FileIds, DataAfterEnd(t, g) \/ Data(t, g)
      PROVE  FALSE
  <2>1. /\ entry[t][g].kind # "dir"
        /\ \E e : Put(t, g, e)
    BY <1>2, DataFrame
  <2> QED
    BY <2>1, DirsStay
<1>3. ASSUME NEW t \in Transfers, Abort(t) \/ Finish(t)
      PROVE  d \notin dirs' \/ ~Empty(d)' \/ LeftByFailedCommit(s, d)
  <2> SUFFICES ASSUME d \in dirs', Empty(d)'
               PROVE  LeftByFailedCommit(s, d)
    OBVIOUS
  <2>1. Forget(t) /\ t = s
    <3>1. entry' = entry \/ Forget(t)
      BY <1>3 DEF Abort, Finish, FinishIncomplete, FinishUnresolved, BeginCommit, EndCommit,
          PublishFile, PublishFileFails, PublishLink, PublishLinkFails, PublishDir,
          PublishDirFails, Discard, Abandon
    <3> QED
      BY <3>1, ForgetsItself
  <2>2. d \in Created(s) /\ Created(s) \in SUBSET Dirs
    BY CreatedDirs DEF Created
  <2>3. CASE Abort(s) \/ FinishIncomplete(s)
    <3>1. /\ Sweep(Created(s), Others(s)) /\ commit' = NoCommit /\ commit.transfer \subseteq {s}
          /\ Others(s) \in SUBSET Staged
      BY <2>3 DEF Abort, FinishIncomplete, Discard, HeldAtAbort, Idle, NoCommit, Others
    <3>2. \E x \in Others(s) : x[1] = s
      BY <2>1, <2>2, <3>1, SweepLeaves
    <3> QED
      BY <3>2 DEF Others
  <2>4. CASE FinishUnresolved(s)
    <3> DEFINE kept == Others(s) \cup ({s} \X IdsOf(s, "link"))
    <3>1. /\ Sweep(Created(s), kept) /\ commit' = NoCommit /\ commit.transfer \subseteq {s}
          /\ kept \in SUBSET Staged
      BY <2>4 DEF FinishUnresolved, Idle, NoCommit, Others, Staged, IdsOf
    <3> HIDE DEF kept
    <3>2. \E x \in kept : x[1] = s /\ entry[x[1]][x[2]].at \in Below[d]
      BY <2>1, <2>2, <3>1, SweepLeaves
    <3> QED
      BY <2>4, <3>1, <3>2, StagedPair DEF LeftByFailedCommit
  <2>5. CASE \E g \in FileIds : PublishFileFails(s, g) \/ PublishLinkFails(s, g)
    <3>1. /\ Committing(s) /\ commit' = NoCommit /\ commit.transfer \subseteq {s}
          /\ \E kept \in SUBSET Staged : Sweep(Created(s), kept)
      BY <2>5 DEF PublishFileFails, PublishLinkFails, Abandon, Committing
    <3>2. \E x \in Staged : x[1] = s /\ entry[x[1]][x[2]].at \in Below[d]
      BY <2>1, <2>2, <3>1, SweepLeaves
    <3> QED
      BY <3>1, <3>2, StagedPair DEF LeftByFailedCommit
  <2>6. CASE \E g \in FileIds : PublishDirFails(s, g)
    <3> DEFINE D == {entry[s][g].at : g \in {x \in commit.dirs : entry[s][x].created}}
    <3>1. /\ Committing(s) /\ Sweep(D, Staged) /\ commit' = NoCommit
          /\ commit.transfer \subseteq {s}
      BY <2>6 DEF PublishDirFails, Committing
    <3>2. D \subseteq Created(s) /\ f \in commit.dirs
      BY <3>1, CommitFacts DEF Created, Committing
    <3>3. d \in D /\ D \in SUBSET Dirs
      BY <2>2, <3>2
    <3> HIDE DEF D
    <3>4. \E x \in Staged : x[1] = s /\ entry[x[1]][x[2]].at \in Below[d]
      BY <2>1, <3>1, <3>3, SweepLeaves
    <3> QED
      BY <3>1, <3>4, StagedPair DEF LeftByFailedCommit
  <2>7. ~EndCommit(s)
    BY DEF EndCommit, Committing
  <2>8. ASSUME NEW g \in FileIds, PublishFile(s, g) \/ PublishLink(s, g) \/ PublishDir(s, g)
        PROVE  FALSE
    BY <2>8 DEF PublishFile, PublishLink, PublishDir
  <2>9. ~BeginCommit(s)
    BY DEF BeginCommit
  <2> QED
    BY <1>3, <2>1, <2>3, <2>4, <2>5, <2>6, <2>7, <2>8, <2>9 DEF Finish
<1> QED
  BY <1>1, <1>2, <1>3 DEF Next

(* A directory that a transfer created is gone when it ends without having *)
(* published it, unless something is in it or a failed commit left its own *)
(* temporary entries there until after the sweep (SendSession::abort).     *)
THEOREM SweptBehind == Spec => CreatedDirsSwept
<1>1. StagingInv /\ [Next]_vars =>
        [\A s \in Transfers, f \in FileIds, d \in Dirs :
           /\ f \in IdsOf(s, "dir") /\ entry[s][f].created /\ entry[s][f].at = d
           /\ entry'[s][f] # entry[s][f]
           /\ f \in commit.dirs \/ s \notin commit.transfer
           => d \notin dirs' \/ ~Empty(d)' \/ LeftByFailedCommit(s, d)]_vars
  BY SweptStep
<1> QED
  BY <1>1, InitStaging, StagingStep, PTL DEF Spec, CreatedDirsSwept

------------------------------------------------------------------------------
(* An item to be published, and all of them, as sets.                      *)
Item(s, f) ==
    [at |-> entry[s][f].at, id |-> f,
     content |-> IF f \in commit.files THEN FileContent(s, f) ELSE Linked(s, f)]

Items(s) == {Item(s, f) : f \in commit.files \cup commit.links}

(* The batch are the items of the transfer that is being committed.        *)
LEMMA BatchIs == \A s \in Transfers : Committing(s) => Batch = Items(s)
<1> SUFFICES ASSUME NEW s \in Transfers, Committing(s)
             PROVE  Batch = Items(s)
  OBVIOUS
<1> DEFINE ids == commit.files \cup commit.links
<1>1. Batch = {Item(x[1], x[2]) : x \in {s} \X ids}
  BY DEF Batch, Committing, Item
<1>2. Items(s) = {Item(s, f) : f \in ids}
  BY DEF Items
<1> HIDE DEF ids
<1>3. {Item(x[1], x[2]) : x \in {s} \X ids} \subseteq {Item(s, f) : f \in ids}
  <2> SUFFICES ASSUME NEW i \in {Item(x[1], x[2]) : x \in {s} \X ids}
               PROVE  i \in {Item(s, f) : f \in ids}
    OBVIOUS
  <2>1. PICK x \in {s} \X ids : i = Item(x[1], x[2])
    OBVIOUS
  <2>2. x[1] = s /\ x[2] \in ids
    OBVIOUS
  <2> QED
    BY <2>1, <2>2
<1>4. {Item(s, f) : f \in ids} \subseteq {Item(x[1], x[2]) : x \in {s} \X ids}
  <2> SUFFICES ASSUME NEW i \in {Item(s, f) : f \in ids}
               PROVE  i \in {Item(x[1], x[2]) : x \in {s} \X ids}
    OBVIOUS
  <2>1. PICK f \in ids : i = Item(s, f)
    OBVIOUS
  <2>2. <<s, f>> \in {s} \X ids /\ <<s, f>>[1] = s /\ <<s, f>>[2] = f
    OBVIOUS
  <2> QED
    BY <2>1, <2>2
<1> QED
  BY <1>1, <1>2, <1>3, <1>4

(* The same after a step.                                                  *)
LEMMA BatchNext == \A s \in Transfers : Committing(s)' => Batch' = Items(s)'
<1> DEFINE Settled == \A s \in Transfers : Committing(s) => Batch = Items(s)
<1>1. Settled
  BY BatchIs
<1>2. Settled'
  BY <1>1, PTL
<1> QED
  BY <1>2

(* Outside a commit nothing is waiting to be published.                    *)
LEMMA NoBatch ==
    ASSUME commit = NoCommit
    PROVE  Batch = {}
BY DEF Batch, NoCommit

(* A step during which nothing is waiting and nothing changes that the     *)
(* machine sees.                                                           *)
LEMMA QuietStep ==
    ASSUME Batch = {}, Batch' = {}, UNCHANGED visible
    PROVE  UNCHANGED Publication!vars
BY DEF Publication!vars

(* The commit begins by sealing whole items.                               *)
LEMMA SealStep ==
    ASSUME StagingInv, NEW s \in Transfers, BeginCommit(s)
    PROVE  Publication!Seal
<1>1. Batch = {} /\ UNCHANGED <<entry, visible>> /\ Committing(s)'
  BY NoBatch DEF BeginCommit, Idle, Committing
<1>2. Batch' = Items(s)'
  BY <1>1, BatchNext
<1>3. ASSUME NEW f \in commit'.files \cup commit'.links
      PROVE  Publication!IsItem(Item(s, f)')
  <2>1. /\ ~Incomplete(s) /\ \A g \in IdsOf(s, "link") : Resolves(s, g)
        /\ commit'.files = IdsOf(s, "file") /\ commit'.links = IdsOf(s, "link")
    BY DEF BeginCommit
  <2>2. f \in FileIds
    BY <2>1 DEF IdsOf
  <2>3. Item(s, f)' =
          [at |-> entry[s][f].at, id |-> f,
           content |-> IF f \in IdsOf(s, "file") THEN FileContent(s, f) ELSE Linked(s, f)]
    BY <1>1, <2>1 DEF Item, FileContent, Linked
  <2> QED
    BY <2>1, <2>2, <2>3, ReadyWhole DEF Publication!IsItem
<1> QED
  BY <1>1, <1>2, <1>3 DEF Publication!Seal, Items

(* A rename publishes one item, and only that one is not waiting any more. *)
LEMMA ShowStep ==
    ASSUME StagingInv, NEW s \in Transfers, NEW f \in FileIds,
           PublishFile(s, f) \/ PublishLink(s, f)
    PROVE  Publication!Publish
<1>1. /\ Committing(s) /\ Committing(s)' /\ UNCHANGED entry
      /\ f \in commit.files \cup commit.links
      /\ commit'.files = commit.files \ {f} /\ commit'.links = commit.links \ {f}
      /\ Rename(s, f, IF f \in commit.files THEN FileContent(s, f) ELSE Linked(s, f))
  <2>1. /\ commit \in [transfer : SUBSET (Transfers \ open), files : SUBSET FileIds,
                       links : SUBSET FileIds, dirs : SUBSET FileIds]
        /\ Committing(s)
    BY DEF StagingInv, StagingTypeOK, PublishFile, PublishLink
  <2>2. commit.files \cap commit.links = {}
    BY <2>1, CommitFacts
  <2>3. CASE PublishFile(s, f)
    BY <2>1, <2>2, <2>3 DEF PublishFile, NextFile, Committing
  <2>4. CASE PublishLink(s, f)
    BY <2>1, <2>2, <2>4 DEF PublishLink, NextLink, Committing
  <2> QED
    BY <2>3, <2>4
<1>2. Batch = Items(s) /\ Batch' = Items(s)'
  BY <1>1, BatchIs, BatchNext
<1>3. Item(s, f) \in Batch /\ Publication!Show(Item(s, f))
  BY <1>1, <1>2 DEF Items, Item, Publication!Show, Rename
<1>4. ASSUME NEW g \in commit'.files \cup commit'.links PROVE Item(s, g)' = Item(s, g)
  <2>1. entry' = entry /\ (g \in commit'.files <=> g \in commit.files)
    BY <1>1
  <2>2. FileContent(s, g)' = FileContent(s, g) /\ Linked(s, g)' = Linked(s, g)
    BY <2>1 DEF FileContent, Linked
  <2> QED
    BY <2>1, <2>2 DEF Item
<1>5. \A g : Item(s, g).id = g
  BY DEF Item
<1>6. Batch' = Batch \ {Item(s, f)}
  <2>1. commit'.files \cup commit'.links = (commit.files \cup commit.links) \ {f}
    BY <1>1
  <2> QED
    BY <1>2, <1>4, <1>5, <2>1 DEF Items
<1> QED
  BY <1>3, <1>6 DEF Publication!Publish

(* A commit that fails publishes at most the item it was at.               *)
LEMMA GiveUpStep ==
    ASSUME StagingInv, NEW s \in Transfers, NEW f \in FileIds,
           PublishFileFails(s, f) \/ PublishLinkFails(s, f)
    PROVE  Publication!GiveUp
<1>1. /\ Committing(s) /\ commit' = NoCommit /\ f \in commit.files \cup commit.links
      /\ \/ UNCHANGED visible
         \/ Rename(s, f, IF f \in commit.files THEN FileContent(s, f) ELSE Linked(s, f))
  <2>1. CASE PublishFileFails(s, f)
    BY <2>1 DEF PublishFileFails, NextFile, Abandon
  <2>2. CASE PublishLinkFails(s, f)
    BY <2>2 DEF PublishLinkFails, NextLink, Abandon
  <2> QED
    BY <2>1, <2>2
<1>2. Batch = Items(s) /\ Batch' = {}
  BY <1>1, BatchIs, NoBatch DEF Batch, NoCommit
<1>3. Item(s, f) \in Batch
  BY <1>1, <1>2 DEF Items
<1>4. UNCHANGED visible \/ Publication!Show(Item(s, f))
  BY <1>1 DEF Rename, Item, Publication!Show
<1> QED
  BY <1>2, <1>3, <1>4 DEF Publication!GiveUp

LEMMA IdleQuiet ==
    ASSUME Idle, UNCHANGED <<commit, visible>>
    PROVE  UNCHANGED Publication!vars
BY NoBatch, QuietStep DEF Idle, Batch, NoCommit

(* Everything else is a stutter of publication.                            *)
LEMMA QuietSteps ==
    ASSUME StagingInv, [Next]_vars
    PROVE  \/ UNCHANGED Publication!vars
           \/ \E s \in Transfers :
                \/ BeginCommit(s)
                \/ \E f \in FileIds :
                     \/ PublishFile(s, f) \/ PublishLink(s, f)
                     \/ PublishFileFails(s, f) \/ PublishLinkFails(s, f)
<1>1. CASE UNCHANGED vars
  BY <1>1 DEF vars, Publication!vars, Batch, FileContent, Linked
<1>2. ASSUME NEW h \in Headers, StageFile(h)
      PROVE  UNCHANGED Publication!vars
  BY <1>2, IdleQuiet DEF StageFile
<1>3. ASSUME NEW s \in Transfers, NEW f \in FileIds, DataAfterEnd(s, f) \/ Data(s, f)
      PROVE  UNCHANGED Publication!vars
  <2>1. Idle /\ UNCHANGED <<commit, visible>>
    BY <1>3, DataFrame
  <2> QED
    BY <2>1, IdleQuiet
<1>4. ASSUME NEW s \in Transfers, Abort(s) \/ FinishIncomplete(s) \/ FinishUnresolved(s)
      PROVE  UNCHANGED Publication!vars
  <2>1. Idle /\ UNCHANGED <<commit, visible>>
    BY <1>4 DEF Abort, FinishIncomplete, FinishUnresolved, Discard
  <2> QED
    BY <2>1, IdleQuiet
<1>5. ASSUME commit.files = {}, commit.links = {}, commit'.files = {}, commit'.links = {},
             UNCHANGED visible
      PROVE  UNCHANGED Publication!vars
  <2>1. Batch = {} /\ Batch' = {}
    BY <1>5 DEF Batch
  <2> QED
    BY <1>5, <2>1, QuietStep
<1>6. ASSUME NEW s \in Transfers, NEW f \in FileIds,
             PublishDir(s, f) \/ PublishDirFails(s, f)
      PROVE  UNCHANGED Publication!vars
  <2>1. commit \in [transfer : SUBSET (Transfers \ open), files : SUBSET FileIds,
                    links : SUBSET FileIds, dirs : SUBSET FileIds]
    BY DEF StagingInv, StagingTypeOK
  <2>2. /\ commit.files = {} /\ commit.links = {} /\ UNCHANGED visible
        /\ commit'.files = {} /\ commit'.links = {}
    BY <1>6, <2>1 DEF PublishDir, PublishDirFails, NextDir, NoCommit
  <2> QED
    BY <1>5, <2>2
<1>7. ASSUME NEW s \in Transfers, EndCommit(s)
      PROVE  UNCHANGED Publication!vars
  BY <1>5, <1>7 DEF EndCommit, NoCommit
<1> QED
  BY <1>1, <1>2, <1>3, <1>4, <1>6, <1>7 DEF Next, Finish

(* Staging implements publication: a destination changes only after the    *)
(* transfer was finished, to one whole item that was sealed then           *)
(* (commit_session).                                                       *)
THEOREM PublicationImplemented == Spec => PublishesWhole
<1>1. Init => Publication!Init
  BY NoBatch DEF Init, Publication!Init
<1>2. StagingInv /\ [Next]_vars => [Publication!Next]_Publication!vars
  <2> SUFFICES ASSUME StagingInv, [Next]_vars, ~(UNCHANGED Publication!vars)
               PROVE  Publication!Next
    OBVIOUS
  <2> QED
    BY QuietSteps, SealStep, ShowStep, GiveUpStep DEF Publication!Next
<1> QED
  BY <1>1, <1>2, InitStaging, StagingStep, PTL DEF Spec, PublishesWhole, Publication!Spec
=============================================================================
