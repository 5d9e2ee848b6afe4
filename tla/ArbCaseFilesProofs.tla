-------------------------- MODULE ArbCaseFilesProofs --------------------------
(***************************************************************************)
(* The output directory has one owner, however many runs are given it and  *)
(* wherever they are killed (OneOwner), and what its evidence manifest     *)
(* lists is on disk, whole (EvidenceOnDisk), for every set of runs, turns, *)
(* upload sessions and document sizes.                                     *)
(*                                                                         *)
(* OneOwner is not inductive: two runs past the claim would not contradict *)
(* it until one is past the check.  DirInv adds why there are never two:   *)
(* between the claim and its removal a run's name is in the claim file,    *)
(* and after its removal it is in the manifest.  CaseInv, for the second   *)
(* property, is further down.                                              *)
(*                                                                         *)
(* Last come the theorems about the other part of the evidence store,      *)
(* ArbEvidenceRead: exact budgets, and reads served in their own turn, for *)
(* any number of requests in flight.  The two modules share no name.       *)
(***************************************************************************)
EXTENDS ArbCaseFiles, ArbEvidenceRead, TLAPS, FiniteSetTheorems, SequenceTheorems,
        WellFoundedInduction

Places == {"look", "claim", "check", "write", "rename", "release", "unclaim", "serve", "ended"}
Owning == {"write", "rename", "release", "serve"}

DirTypeOK ==
  /\ pc \in [Runs -> Places]
  /\ claim \in Runs \cup {None}
  /\ temps \subseteq Runs
  /\ manifest \in Runs \cup {None}

ClaimHeld ==
  \A r \in Runs : pc[r] \in {"check", "write", "rename", "release", "unclaim"} => claim = r

FilesAreOwn ==
  \A r \in Runs : pc[r] \in Owning => temps \subseteq {r} /\ manifest \in {None, r}

ManifestHeld == \A r \in Runs : pc[r] \in {"release", "serve"} => manifest = r

DirInv == DirTypeOK /\ ClaimHeld /\ FilesAreOwn /\ ManifestHeld

-----------------------------------------------------------------------------
(* No second run is past the check: claim file and manifest can each name  *)
(* only one.                                                               *)
LEMMA OwnerAlone ==
  ASSUME DirInv, NEW r \in Runs, NEW s \in Runs, r # s,
         pc[r] \in Owning, pc[s] \in Owning
  PROVE  FALSE
<1>1. None # r /\ None # s
  BY CaseFilesAssumption
<1>2. CASE pc[r] # "serve" /\ pc[s] # "serve"
  BY <1>2 DEF DirInv, ClaimHeld, Owning
<1>3. CASE pc[r] = "serve"
  <2>1. manifest = r
    BY <1>3 DEF DirInv, ManifestHeld
  <2>2. manifest \in {None, s}
    BY DEF DirInv, FilesAreOwn
  <2> QED
    BY <1>1, <2>1, <2>2
<1>4. CASE pc[s] = "serve"
  <2>1. manifest = s
    BY <1>4 DEF DirInv, ManifestHeld
  <2>2. manifest \in {None, r}
    BY DEF DirInv, FilesAreOwn
  <2> QED
    BY <1>1, <2>1, <2>2
<1> QED
  BY <1>2, <1>3, <1>4

LEMMA OwnerFromDirInv == DirInv => OneOwner
<1> SUFFICES ASSUME DirInv, NEW r \in Runs, pc[r] \in Owning
             PROVE  /\ \A s \in Runs \ {r} : pc[s] \notin Owning
                    /\ temps \subseteq {r} /\ manifest \in {None, r}
  BY DEF OneOwner, Owning
<1>1. \A s \in Runs \ {r} : pc[s] \notin Owning
  BY OwnerAlone
<1>2. temps \subseteq {r} /\ manifest \in {None, r}
  BY DEF DirInv, FilesAreOwn
<1> QED
  BY <1>1, <1>2

-----------------------------------------------------------------------------
LEMMA DirInit == Init => DirInv
BY DEF Init, DirInv, DirTypeOK, ClaimHeld, FilesAreOwn, ManifestHeld, Places, Owning

\* A run that stops where it is, or turns back before the claim, takes nothing.
LEMMA DirLeaves ==
  ASSUME DirInv, UNCHANGED dirVars, NEW r \in Runs,
         UNCHANGED pc \/ Goto(r, "ended") \/ Goto(r, "claim")
  PROVE  DirInv'
BY DEF DirInv, DirTypeOK, ClaimHeld, FilesAreOwn, ManifestHeld, Places, Owning, dirVars, Goto

LEMMA ClaimKeeps ==
  ASSUME DirInv, NEW r \in Runs, Claim(r)
  PROVE  DirInv'
<1>1. CASE claim = None /\ claim' = r /\ pc' \in {[pc EXCEPT ![r] = at] : at \in {"check", "unclaim"}}
  <2>1. \A s \in Runs : pc[s] \notin {"check", "write", "rename", "release", "unclaim"}
    BY <1>1, CaseFilesAssumption DEF DirInv, ClaimHeld
  <2>2. temps' = temps /\ manifest' = manifest
    BY DEF Claim
  <2> QED
    BY <1>1, <2>1, <2>2
    DEF DirInv, DirTypeOK, ClaimHeld, FilesAreOwn, ManifestHeld, Places, Owning
<1>2. CASE claim' = claim /\ Goto(r, "ended")
  BY <1>2, DirLeaves DEF Claim, dirVars
<1> QED
  BY <1>1, <1>2 DEF Claim

LEMMA CheckKeeps ==
  ASSUME DirInv, NEW r \in Runs, Check(r)
  PROVE  DirInv'
BY DEF Check, OnlyClaim, NoCaseFiles, Goto, dirVars,
       DirInv, DirTypeOK, ClaimHeld, FilesAreOwn, ManifestHeld, Places, Owning

LEMMA WriteKeeps ==
  ASSUME DirInv, NEW r \in Runs, WriteTemp(r)
  PROVE  DirInv'
<1>1. \A s \in Runs \ {r} : pc[s] \notin Owning
  BY OwnerAlone DEF WriteTemp, Owning
<1>2. temps' \subseteq {r} /\ claim' = claim /\ manifest' = manifest
  BY DEF WriteTemp, DirInv, FilesAreOwn, Owning
<1>3. pc' \in {[pc EXCEPT ![r] = "rename"], [pc EXCEPT ![r] = "unclaim"]} /\ pc[r] = "write"
  BY DEF WriteTemp, Goto
<1> QED
  BY <1>1, <1>2, <1>3
  DEF DirInv, DirTypeOK, ClaimHeld, FilesAreOwn, ManifestHeld, Places, Owning

LEMMA RenameKeeps ==
  ASSUME DirInv, NEW r \in Runs, Rename(r)
  PROVE  DirInv'
<1>1. \A s \in Runs \ {r} : pc[s] \notin Owning
  BY OwnerAlone DEF Rename, Owning
<1>2. temps' \subseteq {r} /\ claim' = claim /\ pc[r] = "rename"
  BY DEF Rename, DirInv, FilesAreOwn, Owning
<1>3. \/ manifest' = r /\ pc' = [pc EXCEPT ![r] = "release"]
      \/ manifest' = manifest /\ pc' = [pc EXCEPT ![r] = "unclaim"]
  BY DEF Rename, Goto
<1> QED
  BY <1>1, <1>2, <1>3
  DEF DirInv, DirTypeOK, ClaimHeld, FilesAreOwn, ManifestHeld, Places, Owning

LEMMA ReleaseKeeps ==
  ASSUME DirInv, NEW r \in Runs, Release(r)
  PROVE  DirInv'
<1>1. \A s \in Runs \ {r} : pc[s] \notin {"check", "write", "rename", "release", "unclaim"}
  BY DEF Release, DirInv, ClaimHeld
<1>2. claim' \in {None, claim} /\ temps' = temps /\ manifest' = manifest
  BY DEF Release
<1>3. \/ pc[r] = "release" /\ pc' = [pc EXCEPT ![r] = "serve"]
      \/ pc' = [pc EXCEPT ![r] = "ended"]
  BY DEF Release, Goto
<1> QED
  BY <1>1, <1>2, <1>3
  DEF DirInv, DirTypeOK, ClaimHeld, FilesAreOwn, ManifestHeld, Places, Owning

\* The case in the directory, once a run has it, touches neither claim nor manifest.
LEMMA CaseKeeps ==
  ASSUME DirInv, NEW r \in Runs,
         \/ EndTurn(r) \/ NextTurn(r) \/ Cancelled(r) \/ Submit(r)
         \/ \E u \in Uploads :
              \/ Begin(r, u) \/ CommitUpload(r, u)
              \/ \E offset \in 0 .. Size, n \in 1 .. Size, written \in 0 .. Size :
                   WriteChunk(r, u, offset, n, written)
         \/ KeepPublished(r) \/ Link(r)
         \/ \E written \in 0 .. Size : PublishTemp(r, written)
         \/ Unstage(r) \/ List(r) \/ Accept(r) \/ Restore(r) \/ CommitFails(r)
         \/ Crash(r)
  PROVE  DirInv'
<1>1. UNCHANGED dirVars /\ (UNCHANGED pc \/ Goto(r, "ended"))
  <2>1. CASE EndTurn(r) \/ NextTurn(r) \/ Cancelled(r) \/ Submit(r)
    BY <2>1 DEF EndTurn, NextTurn, Cancelled, Submit
  <2>2. CASE \E u \in Uploads : Begin(r, u) \/ CommitUpload(r, u)
    BY <2>2 DEF Begin, CommitUpload
  <2>3. ASSUME NEW u \in Uploads, NEW offset, NEW n, NEW written,
               WriteChunk(r, u, offset, n, written)
        PROVE  UNCHANGED dirVars /\ (UNCHANGED pc \/ Goto(r, "ended"))
    BY <2>3 DEF WriteChunk
  <2>4. CASE KeepPublished(r) \/ Link(r)
    BY <2>4 DEF KeepPublished, Link
  <2>5. ASSUME NEW written, PublishTemp(r, written)
        PROVE  UNCHANGED dirVars /\ UNCHANGED pc
    BY <2>5 DEF PublishTemp
  <2>6. CASE Unstage(r) \/ List(r) \/ Accept(r)
    BY <2>6 DEF Unstage, List, Accept
  <2>7. CASE Restore(r) \/ CommitFails(r) \/ Crash(r)
    BY <2>7 DEF Restore, CommitFails, Crash
  <2> QED
    BY <2>1, <2>2, <2>3, <2>4, <2>5, <2>6, <2>7
<1> QED
  BY <1>1, DirLeaves

LEMMA DirNext == DirInv /\ [Next]_vars => DirInv'
<1> SUFFICES ASSUME DirInv, [Next]_vars PROVE DirInv'
  OBVIOUS
<1>1. CASE Interrupted
  <2>1. PICK r \in Runs : pc[r] = "serve"
    BY <1>1 DEF Interrupted
  <2> QED
    BY <1>1, <2>1, DirLeaves DEF Interrupted
<1>2. ASSUME NEW r \in Runs, Look(r) PROVE DirInv'
  BY <1>2, DirLeaves DEF Look
<1>3. ASSUME NEW r \in Runs, Claim(r) \/ Check(r) \/ WriteTemp(r) \/ Rename(r) \/ Release(r)
      PROVE  DirInv'
  BY <1>3, ClaimKeeps, CheckKeeps, WriteKeeps, RenameKeeps, ReleaseKeeps
<1>4. CASE UNCHANGED vars
  BY <1>4 DEF vars, dirVars, DirInv, DirTypeOK, ClaimHeld, FilesAreOwn, ManifestHeld
<1> QED
  BY <1>1, <1>2, <1>3, <1>4, CaseKeeps DEF Next

(* However many runs are given one output directory, and wherever they are *)
(* killed, at most one writes or has written its case manifest there, and  *)
(* the directory holds no other run's case files (prepareOutputDir,        *)
(* claimOutputDir, writeInitialCaseManifest).                              *)
THEOREM DirectoryHasOneOwner == Spec => []OneOwner
<1>1. Init => DirInv
  BY DirInit
<1>2. DirInv /\ [Next]_vars => DirInv'
  BY DirNext
<1>3. DirInv => OneOwner
  BY OwnerFromDirInv
<1> QED
  BY <1>1, <1>2, <1>3, PTL DEF Spec

-----------------------------------------------------------------------------
(***************************************************************************)
(* What the manifest lists is on disk.  EvidenceOnDisk says nothing of how *)
(* an upload or a commit stands, nor of what a later owner would find;     *)
(* CaseInv adds it.                                                        *)
(***************************************************************************)
Live == \E r \in Runs : pc[r] = "serve"

CaseTypeOK ==
  /\ turn \in [number : 1 .. Len(Opportunities), is : {"open", "late", "cancelled", "over"}]
  /\ sessions \in [Uploads -> Session \cup {None}]
  /\ evidence \subseteq Item /\ IsFiniteSet(evidence)
  /\ commit \in Commit \cup {None}

\* Until a run has written its case manifest there is no case in the directory.
ManifestPending == \A r \in Runs : pc[r] \in {"write", "rename"} => manifest = None

NothingYet ==
  manifest = None \/ (\E r \in Runs : pc[r] = "release") =>
    /\ evidence = {} /\ listed = {} /\ commit = None /\ DOMAIN disk = {}
    /\ \A u \in Uploads : sessions[u] = None

\* A staging file is the beginning of its session's document; the session of an
\* open turn still has it, unless its commit has dropped it.
Beginning(s, bytes) == \E k \in 0 .. Size : bytes = Bytes(s.by, 1, k)

StagedInOrder ==
  \A u \in Uploads : Exists(Staged(u)) =>
    sessions[u] # None /\ Beginning(sessions[u], disk[Staged(u)])

MayStillUse(u) ==
  /\ Live /\ turn.is # "over"
  /\ sessions[u] # None /\ ~sessions[u].used /\ sessions[u].by = turn.number
  /\ commit # None => commit.source # u

SessionsOfTurn ==
  \A u \in Uploads :
    /\ sessions[u] # None => sessions[u].by \in 1 .. turn.number
    /\ MayStillUse(u) => sessions[u].path = Staged(u)

\* A submission under way is a whole document of this turn, for which its side
\* has room, and its files are published in their order.
CommitInOrder ==
  commit # None =>
    /\ commit.entry.by = turn.number /\ commit.entry.bytes = Document(turn.number)
    /\ Cardinality(SubmittedBy(Opp.role)) < MaxPerSide
    /\ commit.source \in 0 .. MaxUploads
    /\ commit.step # "store" => Exists(Stored(commit.entry))
    /\ commit.step \in {"unstage", "list", "recheck"} => Exists(Copied(commit.entry))
    /\ commit.step = "unstage" => commit.source \in Uploads
    /\ commit.source \in Uploads => sessions[commit.source] # None
    /\ commit.source \in Uploads /\ commit.step \in {"store", "copy", "unstage"} =>
         sessions[commit.source].path = Staged(commit.source)

ListedKept ==
  \A e \in listed : {Stored(e), Copied(e)} \subseteq DOMAIN disk /\ e.bytes = Document(e.by)

ListedAsDecided ==
  /\ evidence \subseteq listed
  /\ Live => listed = IF commit # None /\ commit.step = "recheck"
                      THEN evidence \cup {commit.entry} ELSE evidence

WithinLimit ==
  \A o \in Range(Opportunities) : Cardinality(SubmittedBy(o.role)) <= MaxPerSide

CaseInv ==
  /\ CaseTypeOK /\ ManifestPending /\ NothingYet /\ PublishedWhole
  /\ StagedInOrder /\ SessionsOfTurn /\ CommitInOrder
  /\ ListedKept /\ ListedAsDecided /\ WithinLimit

-----------------------------------------------------------------------------
(* Bytes and names.                                                        *)

LEMMA Numbers ==
  /\ MaxUploads \in Nat /\ Size \in Nat \ {0} /\ MaxPerSide \in Nat
  /\ Len(Opportunities) \in Nat \ {0} /\ DOMAIN Opportunities = 1 .. Len(Opportunities)
BY CaseFilesAssumption

LEMMA ChunkType ==
  ASSUME NEW t \in Nat, NEW k \in Nat, NEW w \in Nat
  PROVE  /\ Bytes(t, k + 1, k + w) \in Seq(Byte) /\ Len(Bytes(t, k + 1, k + w)) = w
         /\ \A i \in 1 .. w : Bytes(t, k + 1, k + w)[i] = <<t, k + i>>
<1> DEFINE b == [i \in 1 .. w |-> <<t, k + i>>]
<1>1. (k + w) + 1 - (k + 1) = w /\ \A i \in 1 .. w : (k + 1) + i - 1 = k + i
  OBVIOUS
<1>2. Bytes(t, k + 1, k + w) = b
  BY <1>1 DEF Bytes
<1>3. \A i \in 1 .. w : <<t, k + i>> \in Byte
  BY DEF Byte
<1>4. b \in Seq(Byte) /\ Len(b) = w /\ \A i \in 1 .. w : b[i] = <<t, k + i>>
  BY <1>3
<1> QED
  BY <1>2, <1>4

LEMMA StartType ==
  ASSUME NEW t \in Nat, NEW k \in Nat
  PROVE  /\ Bytes(t, 1, k) \in Seq(Byte) /\ Len(Bytes(t, 1, k)) = k
         /\ \A i \in 1 .. k : Bytes(t, 1, k)[i] = <<t, i>>
<1> DEFINE b == [i \in 1 .. k |-> <<t, i>>]
<1>1. k + 1 - 1 = k /\ \A i \in 1 .. k : 1 + i - 1 = i
  OBVIOUS
<1>2. Bytes(t, 1, k) = b
  BY <1>1 DEF Bytes
<1>3. \A i \in 1 .. k : <<t, i>> \in Byte
  BY DEF Byte
<1>4. b \in Seq(Byte) /\ Len(b) = k /\ \A i \in 1 .. k : b[i] = <<t, i>>
  BY <1>3
<1> QED
  BY <1>2, <1>4

LEMMA DocumentType ==
  ASSUME NEW t \in Nat
  PROVE  Document(t) \in Seq(Byte) /\ Len(Document(t)) = Size
<1>1. Size \in Nat
  BY Numbers
<1> QED
  BY <1>1, StartType DEF Document

\* A chunk sent in the document's own turn, where it stops, continues it.
LEMMA ChunkContinues ==
  ASSUME NEW t \in Nat, NEW k \in Nat, NEW w \in Nat
  PROVE  Bytes(t, 1, k) \o Bytes(t, k + 1, k + w) = Bytes(t, 1, k + w)
<1> DEFINE a == Bytes(t, 1, k)
           b == Bytes(t, k + 1, k + w)
           c == Bytes(t, 1, k + w)
<1>1. a \in Seq(Byte) /\ Len(a) = k /\ \A i \in 1 .. k : a[i] = <<t, i>>
  BY StartType
<1>2. b \in Seq(Byte) /\ Len(b) = w /\ \A i \in 1 .. w : b[i] = <<t, k + i>>
  BY ChunkType
<1>3. c \in Seq(Byte) /\ Len(c) = k + w /\ \A i \in 1 .. k + w : c[i] = <<t, i>>
  <2>1. k + w \in Nat
    OBVIOUS
  <2> QED
    BY <2>1, StartType
<1> HIDE DEF a, b, c
<1>4. a \o b \in Seq(Byte) /\ Len(a \o b) = k + w
  BY <1>1, <1>2, ConcatProperties
<1>5. ASSUME NEW i \in 1 .. k + w PROVE (a \o b)[i] = c[i]
  <2>1. CASE i \in 1 .. k
    <3>1. (a \o b)[i] = a[i]
      BY <2>1, <1>1, <1>2, ConcatProperties
    <3> QED
      BY <2>1, <3>1, <1>1, <1>3
  <2>2. CASE i \notin 1 .. k
    <3>1. i - k \in 1 .. w /\ (a \o b)[i] = b[i - k]
      BY <2>2, <1>1, <1>2
    <3>2. b[i - k] = <<t, k + (i - k)>> /\ k + (i - k) = i
      BY <3>1, <1>2
    <3> QED
      BY <3>1, <3>2, <1>3
  <2> QED
    BY <2>1, <2>2
<1>6. a \o b = c
  BY <1>3, <1>4, <1>5
<1> QED
  BY <1>6 DEF a, b, c

LEMMA NamesApart ==
  ASSUME NEW u, NEW e, NEW f
  PROVE  /\ Staged(u)[1] = "staging" /\ Temporary[1] = "temporary"
         /\ Stored(e)[1] = "store" /\ Copied(e)[1] = "copy"
         /\ Stored(e)[4] = e.bytes /\ Copied(e)[4] = e.bytes
         /\ Staged(u)[2] = u
BY DEF Staged, Stored, Copied, Temporary

LEMMA NamesType ==
  /\ \A u \in Uploads : Staged(u) \in Name
  /\ \A e \in Item : Stored(e) \in Name /\ Copied(e) \in Name
<1>1. ASSUME NEW u \in Uploads PROVE Staged(u) \in Name
  <2>1. u \in Nat /\ <<>> \in Seq(Byte)
    BY Numbers DEF Uploads
  <2> QED
    BY <2>1 DEF Staged, Name
<1>2. ASSUME NEW e \in Item PROVE Stored(e) \in Name /\ Copied(e) \in Name
  BY DEF Stored, Copied, Name, Item
<1> QED
  BY <1>1, <1>2

\* No other role has this turn's role and phase.
LEMMA OwnTurn ==
  ASSUME NEW i \in 1 .. Len(Opportunities), NEW j \in 1 .. Len(Opportunities),
         Opportunities[i] = Opportunities[j]
  PROVE  i = j
BY CaseFilesAssumption DEF IsInjective

\* None is no session and no commit.
LEMMA NoneApart ==
  None \notin Session /\ None \notin Commit /\ None \notin Runs
BY CaseFilesAssumption

-----------------------------------------------------------------------------
(* Claiming the directory leaves the case alone.                           *)

LEMMA CaseInit == Init => CaseInv
<1> SUFFICES ASSUME Init PROVE CaseInv
  OBVIOUS
<1>1. CaseTypeOK
  BY Numbers, FS_EmptySet DEF Init, CaseTypeOK
<1>2. ManifestPending /\ NothingYet /\ PublishedWhole
  BY DEF Init, ManifestPending, NothingYet, PublishedWhole
<1>3. StagedInOrder /\ SessionsOfTurn /\ CommitInOrder
  BY DEF Init, StagedInOrder, SessionsOfTurn, CommitInOrder, Exists, MayStillUse
<1>4. ListedKept /\ ListedAsDecided
  BY DEF Init, ListedKept, ListedAsDecided
<1>5. ASSUME NEW o PROVE Cardinality(SubmittedBy(o.role)) <= MaxPerSide
  <2>1. SubmittedBy(o.role) = {}
    BY DEF Init, SubmittedBy
  <2> QED
    BY <2>1, FS_EmptySet, Numbers
<1> QED
  BY <1>1, <1>2, <1>3, <1>4, <1>5 DEF CaseInv, WithinLimit

\* What a case leaves alone stays as it is, and a run that begins to serve finds
\* an empty case.
LEMMA CaseUntouched ==
  ASSUME CaseInv, UNCHANGED caseVars, ManifestPending', NothingYet',
         Live' => Live \/ (listed = {} /\ evidence = {} /\ commit = None
                           /\ \A u \in Uploads : sessions[u] = None)
  PROVE  CaseInv'
<1>1. UNCHANGED <<turn, sessions, evidence, commit, disk, listed>>
  BY DEF caseVars
<1>2. CaseTypeOK' /\ PublishedWhole' /\ StagedInOrder' /\ ListedKept' /\ WithinLimit'
  BY <1>1 DEF CaseInv, CaseTypeOK, PublishedWhole, StagedInOrder, Beginning, Exists,
     ListedKept, WithinLimit, SubmittedBy
<1>3. CommitInOrder'
  BY <1>1 DEF CaseInv, CommitInOrder, Exists, Opp, SubmittedBy
<1>4. SessionsOfTurn'
  BY <1>1 DEF CaseInv, SessionsOfTurn, MayStillUse
<1>5. ListedAsDecided'
  BY <1>1 DEF CaseInv, ListedAsDecided
<1> QED
  BY <1>2, <1>3, <1>4, <1>5 DEF CaseInv

\* A run that stops, or goes on before its manifest, changes nothing.
LEMMA EarlyKeeps ==
  ASSUME DirInv, CaseInv, NEW r \in Runs, NEW at \in Places \ {"release", "serve"},
         at \in {"write", "rename"} => manifest = None,
         Goto(r, at), UNCHANGED manifest, UNCHANGED caseVars
  PROVE  CaseInv'
<1>1. pc' = [pc EXCEPT ![r] = at] /\ pc \in [Runs -> Places]
  BY DEF Goto, DirInv, DirTypeOK
<1>2. ManifestPending'
  BY <1>1 DEF CaseInv, ManifestPending
<1>3. \A s \in Runs : pc'[s] \in {"release", "serve"} => pc'[s] = pc[s]
  BY <1>1
<1>4. NothingYet'
  BY <1>3 DEF CaseInv, NothingYet, caseVars
<1>5. Live' => Live
  BY <1>3 DEF Live
<1> QED
  BY <1>2, <1>4, <1>5, CaseUntouched

LEMMA RenameKeepsCase ==
  ASSUME DirInv, CaseInv, NEW r \in Runs, Rename(r)
  PROVE  CaseInv'
<1>1. pc \in [Runs -> Places] /\ pc[r] = "rename" /\ manifest = None
  BY DEF Rename, DirInv, DirTypeOK, CaseInv, ManifestPending
<1>2. UNCHANGED caseVars
  BY DEF Rename
<1>3. CASE Goto(r, "unclaim") /\ UNCHANGED manifest
  BY <1>2, <1>3, EarlyKeeps DEF Places
<1>4. CASE manifest' = r /\ Goto(r, "release")
  <2>1. pc' = [pc EXCEPT ![r] = "release"]
    BY <1>4 DEF Goto
  <2>2. \A s \in Runs \ {r} : pc[s] \notin Owning
    BY <1>1, OwnerAlone DEF Owning
  <2>3. ManifestPending'
    BY <1>1, <2>1, <2>2 DEF ManifestPending, Owning
  <2>4. NothingYet'
    BY <1>1, <1>2 DEF CaseInv, NothingYet, caseVars
  <2>5. ~Live'
    BY <1>1, <2>1, <2>2 DEF Live, Owning
  <2> QED
    BY <1>2, <2>3, <2>4, <2>5, CaseUntouched
<1> QED
  BY <1>3, <1>4 DEF Rename

LEMMA ReleaseKeepsCase ==
  ASSUME DirInv, CaseInv, NEW r \in Runs, Release(r)
  PROVE  CaseInv'
<1>1. pc \in [Runs -> Places] /\ UNCHANGED caseVars /\ UNCHANGED manifest
  BY DEF Release, DirInv, DirTypeOK
<1>2. CASE Goto(r, "ended")
  BY <1>1, <1>2, EarlyKeeps DEF Places
<1>3. CASE pc[r] = "release" /\ Goto(r, "serve")
  <2>1. pc' = [pc EXCEPT ![r] = "serve"]
    BY <1>3 DEF Goto
  <2>2. \A s \in Runs \ {r} : pc[s] \notin Owning
    BY <1>3, OwnerAlone DEF Owning
  <2>3. ManifestPending'
    BY <1>1, <2>1, <2>2 DEF ManifestPending, Owning
  <2>4. /\ evidence = {} /\ listed = {} /\ commit = None /\ DOMAIN disk = {}
        /\ \A u \in Uploads : sessions[u] = None
    BY <1>3 DEF CaseInv, NothingYet
  <2>5. NothingYet'
    BY <2>4, <1>1 DEF NothingYet, caseVars
  <2> QED
    BY <1>1, <2>3, <2>4, <2>5, CaseUntouched
<1> QED
  BY <1>2, <1>3 DEF Release

LEMMA DirectoryKeepsCase ==
  ASSUME DirInv, CaseInv, NEW r \in Runs,
         \/ Look(r) \/ Claim(r) \/ Check(r) \/ WriteTemp(r) \/ Rename(r) \/ Release(r)
         \/ Cancelled(r) \/ Crash(r)
  PROVE  CaseInv'
<1>1. CASE Look(r) \/ Cancelled(r) \/ Crash(r)
  BY <1>1, EarlyKeeps DEF Look, Cancelled, Crash, dirVars, Places
<1>2. CASE Claim(r)
  <2>1. Goto(r, "check") \/ Goto(r, "unclaim") \/ Goto(r, "ended")
    BY <1>2 DEF Claim, Goto
  <2> QED
    BY <1>2, <2>1, EarlyKeeps DEF Claim, Places
<1>3. CASE Check(r)
  <2>1. \/ Goto(r, "write") /\ manifest = None
        \/ Goto(r, "unclaim")
    BY <1>3 DEF Check, OnlyClaim, NoCaseFiles
  <2> QED
    BY <1>3, <2>1, EarlyKeeps DEF Check, dirVars, Places
<1>4. CASE WriteTemp(r)
  <2>1. manifest = None /\ (Goto(r, "rename") \/ Goto(r, "unclaim"))
    BY <1>4 DEF WriteTemp, CaseInv, ManifestPending
  <2> QED
    BY <1>4, <2>1, EarlyKeeps DEF WriteTemp, Places
<1> QED
  BY <1>1, <1>2, <1>3, <1>4, RenameKeepsCase, ReleaseKeepsCase

-----------------------------------------------------------------------------
(* The run that serves has the directory to itself; what it does starts    *)
(* from here.                                                              *)

LEMMA ServerAlone ==
  ASSUME DirInv, CaseInv, NEW r \in Runs, pc[r] = "serve", UNCHANGED dirVars,
         UNCHANGED pc \/ Goto(r, "ended")
  PROVE  /\ ManifestPending' /\ NothingYet'
         /\ Live' => UNCHANGED pc
         /\ Live
<1>1. pc \in [Runs -> Places] /\ manifest = r /\ manifest' = r /\ manifest # None
  BY NoneApart DEF DirInv, DirTypeOK, ManifestHeld, dirVars
<1>2. \A s \in Runs \ {r} : pc[s] \notin Owning
  BY OwnerAlone DEF Owning
<1>3. \A s \in Runs : pc'[s] \notin {"write", "rename", "release"}
  BY <1>1, <1>2 DEF Goto, Owning
<1>4. Goto(r, "ended") => ~Live'
  BY <1>1, <1>2 DEF Goto, Owning, Live
<1> QED
  BY <1>1, <1>3, <1>4 DEF ManifestPending, NothingYet, Live

\* Steps of a serving run that leave files, manifest and submissions alone.
LEMMA TurnsKeep ==
  ASSUME DirInv, CaseInv, NEW r \in Runs, pc[r] = "serve",
         UNCHANGED <<dirVars, sessions, evidence, commit, disk, listed>>,
         UNCHANGED pc \/ Goto(r, "ended"),
         turn' \in [number : 1 .. Len(Opportunities),
                    is : {"open", "late", "cancelled", "over"}],
         \/ turn'.number = turn.number /\ (turn.is = "over" => turn'.is = "over")
         \/ turn'.number = turn.number + 1 /\ commit = None
  PROVE  CaseInv'
<1>1. ManifestPending' /\ NothingYet' /\ (Live' => Live)
  BY ServerAlone
<1>2. CaseTypeOK' /\ PublishedWhole' /\ StagedInOrder' /\ ListedKept' /\ WithinLimit'
  BY DEF CaseInv, CaseTypeOK, PublishedWhole, StagedInOrder, Beginning, Exists,
     ListedKept, WithinLimit, SubmittedBy
<1>3. ListedAsDecided'
  BY <1>1 DEF CaseInv, ListedAsDecided
<1>4. turn.number \in Nat /\ turn'.number \in Nat
  BY Numbers DEF CaseInv, CaseTypeOK
<1>5. SessionsOfTurn'
  <2> SUFFICES ASSUME NEW u \in Uploads
               PROVE  /\ sessions[u] # None => sessions[u].by \in 1 .. turn'.number
                      /\ MayStillUse(u)' => sessions[u].path = Staged(u)
    BY DEF SessionsOfTurn
  <2>1. sessions[u] # None => sessions[u].by \in 1 .. turn.number
    BY DEF CaseInv, SessionsOfTurn
  <2>2. sessions[u] # None => sessions[u].by \in 1 .. turn'.number
    BY <2>1, <1>4
  <2>3. MayStillUse(u)' => MayStillUse(u)
    BY <2>1, <1>1, <1>4 DEF MayStillUse
  <2> QED
    BY <2>2, <2>3 DEF CaseInv, SessionsOfTurn
<1>6. CommitInOrder'
  BY DEF CaseInv, CommitInOrder, Exists, Opp, SubmittedBy
<1> QED
  BY <1>1, <1>2, <1>3, <1>5, <1>6 DEF CaseInv

LEMMA TurnStepsKeepCase ==
  ASSUME DirInv, CaseInv, NEW r \in Runs, EndTurn(r) \/ NextTurn(r)
  PROVE  CaseInv'
<1>1. pc[r] = "serve" /\ commit = None
  BY DEF EndTurn, NextTurn, Serving
<1>2. turn \in [number : 1 .. Len(Opportunities), is : {"open", "late", "cancelled", "over"}]
  BY DEF CaseInv, CaseTypeOK
<1>3. CASE EndTurn(r)
  BY <1>1, <1>2, <1>3, TurnsKeep DEF EndTurn
<1>4. CASE NextTurn(r)
  <2>1. CASE turn' = [number |-> turn.number + 1, is |-> "open"] /\ UNCHANGED pc
             /\ turn.number < Len(Opportunities)
    <3>1. turn.number + 1 \in 1 .. Len(Opportunities)
      BY <1>2, <2>1, Numbers
    <3> QED
      BY <1>1, <1>4, <2>1, <3>1, TurnsKeep DEF NextTurn
  <2>2. CASE Goto(r, "ended") /\ UNCHANGED turn
    BY <1>1, <1>2, <1>4, <2>2, TurnsKeep DEF NextTurn
  <2> QED
    BY <1>4, <2>1, <2>2 DEF NextTurn
<1> QED
  BY <1>3, <1>4

LEMMA InterruptionKeepsCase ==
  ASSUME DirInv, CaseInv, Interrupted
  PROVE  CaseInv'
<1>1. PICK r \in Runs : pc[r] = "serve"
  BY DEF Interrupted
<1>2. turn \in [number : 1 .. Len(Opportunities), is : {"open", "late", "cancelled", "over"}]
  BY DEF CaseInv, CaseTypeOK
<1>3. turn.is = "open" /\ turn' \in {[turn EXCEPT !.is = "late"], [turn EXCEPT !.is = "cancelled"]}
  BY DEF Interrupted
<1> QED
  BY <1>1, <1>2, <1>3, TurnsKeep DEF Interrupted

-----------------------------------------------------------------------------
(* Upload sessions.                                                        *)

LEMMA BeginKeepsCase ==
  ASSUME DirInv, CaseInv, NEW r \in Runs, NEW u \in Uploads, Begin(r, u)
  PROVE  CaseInv'
<1> DEFINE s == [by |-> turn.number, received |-> 0, path |-> Staged(u), used |-> FALSE]
<1>1. /\ pc[r] = "serve" /\ commit = None /\ sessions[u] = None
      /\ sessions' = [sessions EXCEPT ![u] = s]
      /\ UNCHANGED <<pc, dirVars, turn, evidence, commit, disk, listed>>
  BY DEF Begin, InTurn, Serving
<1>2. ManifestPending' /\ NothingYet' /\ (Live' => Live)
  BY <1>1, ServerAlone
<1>3. turn.number \in Nat \ {0} /\ sessions \in [Uploads -> Session \cup {None}]
  BY Numbers DEF CaseInv, CaseTypeOK
<1>4. s \in Session /\ s # None
  <2>1. Staged(u) \in Name /\ turn.number \in Nat /\ 0 \in Nat
    BY <1>3, NamesType
  <2>2. s \in Session
    BY <2>1 DEF Session
  <2> QED
    BY <2>2, NoneApart
<1>5. CaseTypeOK'
  BY <1>1, <1>3, <1>4 DEF CaseInv, CaseTypeOK
<1>6. PublishedWhole' /\ ListedKept' /\ WithinLimit'
  BY <1>1 DEF CaseInv, PublishedWhole, ListedKept, WithinLimit, SubmittedBy
<1>7. ListedAsDecided' /\ CommitInOrder'
  BY <1>1, <1>2 DEF CaseInv, ListedAsDecided, CommitInOrder
<1>8. StagedInOrder'
  BY <1>1, <1>3 DEF CaseInv, StagedInOrder, Exists, Beginning
<1>9. SessionsOfTurn'
  <2> SUFFICES ASSUME NEW v \in Uploads
               PROVE  /\ sessions'[v] # None => sessions'[v].by \in 1 .. turn'.number
                      /\ MayStillUse(v)' => sessions'[v].path = Staged(v)
    BY DEF SessionsOfTurn
  <2>1. CASE v = u
    <3>1. sessions'[v] = s
      BY <1>1, <1>3, <2>1
    <3> QED
      BY <3>1, <1>1, <1>3, <2>1
  <2>2. CASE v # u
    <3>1. sessions'[v] = sessions[v]
      BY <1>1, <1>3, <2>2
    <3>2. MayStillUse(v)' => MayStillUse(v)
      BY <3>1, <1>1, <1>2 DEF MayStillUse
    <3> QED
      BY <3>1, <3>2, <1>1 DEF CaseInv, SessionsOfTurn
  <2> QED
    BY <2>1, <2>2
<1> QED
  BY <1>2, <1>5, <1>6, <1>7, <1>8, <1>9 DEF CaseInv

\* A session that may still be used has its own staging file, and what is there
\* began in this turn.
LEMMA OwnSession ==
  ASSUME CaseInv, NEW r \in Runs, NEW u \in Uploads,
         InTurn(r), Open(u), Owned(sessions[u])
  PROVE  /\ sessions[u] \in Session /\ sessions[u].by = turn.number
         /\ sessions[u].path = Staged(u)
         /\ turn.number \in Nat
<1>1. sessions[u] \in Session /\ sessions[u] # None
  BY DEF Open, CaseInv, CaseTypeOK
<1>2. turn.number \in 1 .. Len(Opportunities) /\ turn.number \in Nat
  BY Numbers DEF CaseInv, CaseTypeOK
<1>3. sessions[u].by \in 1 .. turn.number
  BY <1>1 DEF CaseInv, SessionsOfTurn
<1>4. sessions[u].by \in 1 .. Len(Opportunities)
  BY <1>2, <1>3, Numbers
<1>5. sessions[u].by = turn.number
  BY <1>2, <1>4, OwnTurn DEF Owned, Opp
<1>6. MayStillUse(u)
  BY <1>1, <1>5 DEF MayStillUse, InTurn, Serving, Live, Open
<1> QED
  BY <1>1, <1>2, <1>5, <1>6 DEF CaseInv, SessionsOfTurn

\* What a published file, or a name that is kept, keeps.
LEMMA Writing ==
  ASSUME NEW name, NEW bytes
  PROVE  /\ DOMAIN With(disk, name, bytes) = DOMAIN disk \cup {name}
         /\ With(disk, name, bytes)[name] = bytes
         /\ \A n \in DOMAIN disk \ {name} : With(disk, name, bytes)[n] = disk[n]
         /\ DOMAIN Without(disk, name) = DOMAIN disk \ {name}
         /\ \A n \in DOMAIN disk \ {name} : Without(disk, name)[n] = disk[n]
BY DEF With, Without

\* Staging and temporary files come and go without harm to what is published.
LEMMA PublishedStays ==
  ASSUME CaseInv, UNCHANGED listed,
         \A n \in DOMAIN disk' : n[1] \in {"store", "copy"} => n \in DOMAIN disk /\ disk'[n] = disk[n],
         \A n \in DOMAIN disk : n[1] \in {"store", "copy"} => n \in DOMAIN disk'
  PROVE  PublishedWhole' /\ ListedKept' /\ \A e : /\ Exists(Stored(e)) => Exists(Stored(e))'
                                                  /\ Exists(Copied(e)) => Exists(Copied(e))'
<1>1. PublishedWhole'
  BY DEF CaseInv, PublishedWhole
<1>2. \A e : /\ Exists(Stored(e)) => Exists(Stored(e))'
             /\ Exists(Copied(e)) => Exists(Copied(e))'
  BY NamesApart DEF Exists
<1>3. ListedKept'
  BY <1>2 DEF CaseInv, ListedKept, Exists
<1> QED
  BY <1>1, <1>2, <1>3

LEMMA ChunkKeepsCase ==
  ASSUME DirInv, CaseInv, NEW r \in Runs, NEW u \in Uploads,
         NEW offset \in 0 .. Size, NEW n \in 1 .. Size, NEW written \in 0 .. Size,
         WriteChunk(r, u, offset, n, written)
  PROVE  CaseInv'
<1> DEFINE s   == sessions[u]
           old == IF Exists(s.path) THEN disk[s.path] ELSE <<>>
           new == old \o Bytes(turn.number, offset + 1, offset + written)
<1>1. /\ InTurn(r) /\ Open(u) /\ Owned(s)
      /\ offset = Visible(s) /\ offset + n <= Size /\ written <= n
      /\ disk' = With(disk, s.path, new)
      /\ sessions' = [sessions EXCEPT ![u].received = offset + written]
      /\ UNCHANGED pc \/ Goto(r, "ended")
      /\ UNCHANGED <<dirVars, turn, evidence, commit, listed>>
  BY DEF WriteChunk
<1>2. pc[r] = "serve" /\ commit = None
  BY <1>1 DEF InTurn, Serving
<1>3. s \in Session /\ s.by = turn.number /\ s.path = Staged(u) /\ turn.number \in Nat
  BY <1>1, OwnSession
<1>4. s \in Session /\ s # None /\ sessions \in [Uploads -> Session \cup {None}]
  BY <1>1, <1>3 DEF Open, CaseInv, CaseTypeOK
<1>5. offset \in Nat /\ written \in Nat /\ offset + written \in 0 .. Size
  BY <1>1, Numbers
<1>6. old = Bytes(turn.number, 1, offset)
  <2>1. CASE Exists(Staged(u))
    <3>1. PICK k \in 0 .. Size : disk[Staged(u)] = Bytes(turn.number, 1, k)
      BY <2>1, <1>3 DEF CaseInv, StagedInOrder, Beginning
    <3>2. k \in Nat
      BY Numbers
    <3>3. Len(Bytes(turn.number, 1, k)) = k
      BY <1>3, <3>2, StartType
    <3>4. offset = k
      BY <3>1, <3>3, <2>1, <1>1, <1>3 DEF Visible
    <3> QED
      BY <3>1, <3>4, <2>1, <1>3
  <2>2. CASE ~Exists(Staged(u))
    <3>1. offset = 0 /\ old = <<>>
      BY <2>2, <1>1, <1>3 DEF Visible
    <3>2. 0 \in Nat
      OBVIOUS
    <3>3. Bytes(turn.number, 1, 0) \in Seq(Byte) /\ Len(Bytes(turn.number, 1, 0)) = 0
      BY <1>3, <3>2, StartType
    <3>4. Bytes(turn.number, 1, 0) = <<>>
      BY <3>3
    <3> QED
      BY <3>1, <3>4
  <2> QED
    BY <2>1, <2>2
<1>7. new = Bytes(turn.number, 1, offset + written)
  <2>1. Bytes(turn.number, 1, offset) \o Bytes(turn.number, offset + 1, offset + written)
          = Bytes(turn.number, 1, offset + written)
    BY <1>3, <1>5, ChunkContinues
  <2> QED
    BY <1>6, <2>1
<1> HIDE DEF new
<1>8. DOMAIN disk' = DOMAIN disk \cup {Staged(u)} /\ disk'[Staged(u)] = new
      /\ \A m \in DOMAIN disk \ {Staged(u)} : disk'[m] = disk[m]
  <2>1. disk' = With(disk, Staged(u), new)
    BY <1>1, <1>3
  <2> QED
    BY <2>1 DEF With
<1>9. /\ sessions' \in [Uploads -> Session \cup {None}]
      /\ \A v \in Uploads \ {u} : sessions'[v] = sessions[v]
      /\ sessions'[u] \in Session /\ sessions'[u] # None
      /\ sessions'[u].by = s.by /\ sessions'[u].path = s.path /\ sessions'[u].used = s.used
  <2>1. sessions'[u] = [s EXCEPT !.received = offset + written]
    BY <1>1, <1>4
  <2>2. offset + written \in Nat
    BY <1>5
  <2>3. sessions'[u] \in Session
    BY <2>1, <2>2, <1>4 DEF Session
  <2>4. sessions'[u].by = s.by /\ sessions'[u].path = s.path /\ sessions'[u].used = s.used
    BY <2>1, <1>4 DEF Session
  <2>5. \A v \in Uploads \ {u} : sessions'[v] = sessions[v]
    BY <1>1, <1>4
  <2>6. DOMAIN sessions' = Uploads /\ sessions' = [v \in Uploads |-> sessions'[v]]
    BY <1>1, <1>4
  <2> QED
    BY <2>3, <2>4, <2>5, <2>6, <1>4, NoneApart
<1>10. CaseTypeOK'
  BY <1>1, <1>9 DEF CaseInv, CaseTypeOK
<1>11. ManifestPending' /\ NothingYet' /\ (Live' => Live)
  BY <1>1, <1>2, ServerAlone
<1>12. PublishedWhole' /\ ListedKept'
  <2>1. Staged(u)[1] \notin {"store", "copy"}
    BY NamesApart
  <2>2. \A m \in DOMAIN disk' : m[1] \in {"store", "copy"} => m \in DOMAIN disk /\ disk'[m] = disk[m]
    BY <2>1, <1>8
  <2>3. \A m \in DOMAIN disk : m \in DOMAIN disk'
    BY <1>8
  <2>4. UNCHANGED listed
    BY <1>1
  <2> QED
    BY <2>2, <2>3, <2>4, PublishedStays
<1>13. WithinLimit' /\ ListedAsDecided' /\ CommitInOrder'
  BY <1>1, <1>2, <1>11
  DEF CaseInv, WithinLimit, SubmittedBy, ListedAsDecided, CommitInOrder
<1>14. StagedInOrder'
  <2> SUFFICES ASSUME NEW v \in Uploads, Exists(Staged(v))'
               PROVE  sessions'[v] # None /\ Beginning(sessions'[v], disk'[Staged(v)])
    BY DEF StagedInOrder, Beginning
  <2>1. CASE v = u
    BY <2>1, <1>3, <1>5, <1>7, <1>8, <1>9 DEF Beginning
  <2>2. CASE v # u
    <3>1. Staged(v) # Staged(u)
      BY <2>2, NamesApart
    <3>2. Exists(Staged(v)) /\ disk'[Staged(v)] = disk[Staged(v)]
      BY <3>1, <1>8 DEF Exists
    <3> QED
      BY <3>2, <2>2, <1>9 DEF CaseInv, StagedInOrder, Beginning
  <2> QED
    BY <2>1, <2>2
<1>15. SessionsOfTurn'
  <2> SUFFICES ASSUME NEW v \in Uploads
               PROVE  /\ sessions'[v] # None => sessions'[v].by \in 1 .. turn'.number
                      /\ MayStillUse(v)' => sessions'[v].path = Staged(v)
    BY DEF SessionsOfTurn
  <2>1. sessions'[v] = sessions[v] \/ v = u
    BY <1>9
  <2>2. /\ (sessions'[v] = None) <=> (sessions[v] = None)
        /\ sessions'[v] # None => /\ sessions'[v].by = sessions[v].by
                                  /\ sessions'[v].path = sessions[v].path
                                  /\ sessions'[v].used = sessions[v].used
    BY <2>1, <1>4, <1>9
  <2>3. MayStillUse(v)' => MayStillUse(v)
    BY <2>2, <1>1, <1>11 DEF MayStillUse
  <2> QED
    BY <2>2, <2>3, <1>1 DEF CaseInv, SessionsOfTurn
<1> QED
  BY <1>10, <1>11, <1>12, <1>13, <1>14, <1>15 DEF CaseInv

-----------------------------------------------------------------------------
(* A submission, from its start to its end.                                *)

\* A submission starts with a whole document of the turn and room for it.
LEMMA StartKeepsCase ==
  ASSUME DirInv, CaseInv, NEW r \in Runs, NEW source \in 0 .. MaxUploads,
         InTurn(r), MaySubmit,
         StartCommit(turn.number, Document(turn.number), source),
         source \in Uploads => /\ sessions[source] # None
                               /\ sessions[source].path = Staged(source),
         UNCHANGED <<pc, dirVars, turn, sessions, evidence, disk, listed>>
  PROVE  CaseInv'
<1> DEFINE e == Entry(turn.number, Document(turn.number))
<1>1. pc[r] = "serve" /\ commit = None /\ commit' = [entry |-> e, source |-> source, step |-> "store"]
  BY DEF InTurn, Serving, StartCommit
<1>2. turn.number \in Nat /\ source \in Nat /\ Cardinality(evidence) \in Nat
  BY Numbers, FS_CardinalityType DEF CaseInv, CaseTypeOK
<1>3. e \in Item /\ e.by = turn.number /\ e.bytes = Document(turn.number)
  <2>1. Document(turn.number) \in Seq(Byte) /\ Cardinality(evidence) + 1 \in Nat
    BY <1>2, DocumentType
  <2> QED
    BY <2>1, <1>2 DEF Entry, Item
<1> HIDE DEF e
<1>4. commit' \in Commit /\ commit' # None
  <2>1. commit' \in Commit
    BY <1>1, <1>2, <1>3 DEF Commit, Steps
  <2> QED
    BY <2>1, NoneApart
<1>5. commit'.entry = e /\ commit'.source = source /\ commit'.step = "store"
  BY <1>1
<1>6. CaseTypeOK'
  BY <1>4 DEF CaseInv, CaseTypeOK
<1>7. ManifestPending' /\ NothingYet' /\ (Live' => Live)
  BY <1>1, ServerAlone
<1>8. PublishedWhole' /\ StagedInOrder' /\ ListedKept' /\ WithinLimit'
  BY DEF CaseInv, PublishedWhole, StagedInOrder, Beginning, Exists, ListedKept,
     WithinLimit, SubmittedBy
<1>9. SessionsOfTurn'
  BY <1>1, <1>7 DEF CaseInv, SessionsOfTurn, MayStillUse
<1>10. ListedAsDecided'
  BY <1>1, <1>5, <1>7 DEF CaseInv, ListedAsDecided
<1>11. CommitInOrder'
  BY <1>3, <1>5 DEF CommitInOrder, MaySubmit, SubmittedBy, Opp
<1> QED
  BY <1>6, <1>7, <1>8, <1>9, <1>10, <1>11 DEF CaseInv

\* An upload that is complete on both sides is its turn's whole document.
LEMMA CommitUploadKeepsCase ==
  ASSUME DirInv, CaseInv, NEW r \in Runs, NEW u \in Uploads, CommitUpload(r, u)
  PROVE  CaseInv'
<1> DEFINE s == sessions[u]
<1>1. /\ s \in Session /\ s.by = turn.number /\ s.path = Staged(u) /\ turn.number \in Nat
      /\ s # None
  BY OwnSession DEF CommitUpload, Open
<1>2. u \in 0 .. MaxUploads
  BY Numbers DEF Uploads
<1>3. Exists(Staged(u)) /\ Len(disk[Staged(u)]) = Size
  BY <1>1, Numbers DEF CommitUpload, Visible
<1>4. PICK k \in 0 .. Size : disk[Staged(u)] = Bytes(turn.number, 1, k)
  BY <1>1, <1>3 DEF CaseInv, StagedInOrder, Beginning
<1>5. k = Size
  <2>1. k \in Nat
    BY Numbers
  <2>2. Len(Bytes(turn.number, 1, k)) = k
    BY <2>1, <1>1, StartType
  <2> QED
    BY <2>2, <1>3, <1>4
<1>6. StartCommit(turn.number, Document(turn.number), u)
  BY <1>1, <1>4, <1>5 DEF CommitUpload, Document
<1> QED
  BY <1>1, <1>2, <1>6, StartKeepsCase DEF CommitUpload

LEMMA SubmitKeepsCase ==
  ASSUME DirInv, CaseInv, NEW r \in Runs, Submit(r)
  PROVE  CaseInv'
<1>1. 0 \in 0 .. MaxUploads /\ 0 \notin Uploads
  BY Numbers DEF Uploads
<1> QED
  BY <1>1, StartKeepsCase DEF Submit

\* What every step of a commit knows.
LEMMA UnderCommit ==
  ASSUME CaseInv, NEW r \in Runs, NEW steps, Committing(r, steps)
  PROVE  /\ pc[r] = "serve" /\ Live /\ commit \in Commit /\ commit # None
         /\ commit.step \in steps /\ commit.step \in Steps
         /\ commit.entry \in Item /\ commit.source \in Nat
         /\ commit.entry.by = turn.number
         /\ commit.entry.bytes = Document(commit.entry.by)
         /\ turn.number \in 1 .. Len(Opportunities)
<1>1. commit \in Commit /\ commit # None /\ turn.number \in 1 .. Len(Opportunities)
  BY DEF Committing, CaseInv, CaseTypeOK
<1> QED
  BY <1>1 DEF Committing, CaseInv, CommitInOrder, Commit, Live

\* The commit's next step leaves its submission and its source.
LEMMA NextStep ==
  ASSUME NEW step \in Steps, commit \in Commit, AtStep(step)
  PROVE  /\ commit' \in Commit /\ commit' # None
         /\ commit'.entry = commit.entry /\ commit'.source = commit.source
         /\ commit'.step = step
<1>1. commit' = [commit EXCEPT !.step = step]
  BY DEF AtStep
<1>2. commit' \in Commit
  BY <1>1 DEF Commit
<1>3. commit'.entry = commit.entry /\ commit'.source = commit.source /\ commit'.step = step
  BY <1>1 DEF Commit
<1> QED
  BY <1>2, <1>3, NoneApart

\* What a step of publication must show to keep the rest: it touches no staging
\* file, and its file is there before the next step.
LEMMA PublishKeeps ==
  ASSUME DirInv, CaseInv, NEW r \in Runs, Committing(r, {"store", "copy"}),
         AtStep(Following(commit.step)),
         UNCHANGED <<pc, dirVars, turn, sessions, evidence, listed>>,
         PublishedWhole',
         \A n \in DOMAIN disk \ {Temporary} : n \in DOMAIN disk' /\ disk'[n] = disk[n],
         \A u \in Uploads : Exists(Staged(u))' => Exists(Staged(u)),
         Target \in DOMAIN disk'
  PROVE  CaseInv'
<1>1. /\ pc[r] = "serve" /\ Live /\ commit \in Commit /\ commit # None
      /\ commit.step \in {"store", "copy"} /\ commit.source \in Nat
      /\ commit.entry.by = turn.number
      /\ commit.entry.bytes = Document(commit.entry.by)
  BY UnderCommit
<1>2. Following(commit.step) \in Steps
  BY DEF Following, Steps
<1>3. /\ commit' \in Commit /\ commit' # None
      /\ commit'.entry = commit.entry /\ commit'.source = commit.source
      /\ commit'.step = Following(commit.step)
  BY <1>1, <1>2, NextStep
<1>4. CaseTypeOK'
  BY <1>3 DEF CaseInv, CaseTypeOK
<1>5. ManifestPending' /\ NothingYet' /\ (Live' => Live)
  BY <1>1, ServerAlone
<1>6. /\ \A e : Stored(e) \in DOMAIN disk => Stored(e) \in DOMAIN disk'
      /\ \A e : Copied(e) \in DOMAIN disk => Copied(e) \in DOMAIN disk'
  BY NamesApart
<1>7. ListedKept'
  BY <1>6 DEF CaseInv, ListedKept, Exists
<1>8. StagedInOrder'
  BY NamesApart DEF CaseInv, StagedInOrder, Beginning, Exists
<1>9. SessionsOfTurn'
  BY <1>1, <1>3, <1>5 DEF CaseInv, SessionsOfTurn, MayStillUse
<1>10. Following(commit.step) # "recheck" /\ commit.step # "recheck"
  BY <1>1 DEF Following
<1>11. ListedAsDecided' /\ WithinLimit'
  BY <1>1, <1>3, <1>5, <1>10 DEF CaseInv, ListedAsDecided, WithinLimit, SubmittedBy
<1>12. CommitInOrder'
  <2>1. Cardinality(SubmittedBy(Opp.role))' = Cardinality(SubmittedBy(Opp.role))
    BY DEF SubmittedBy, Opp
  <2>2. CASE commit.step = "store"
    <3>1. Following(commit.step) = "copy" /\ Stored(commit.entry) \in DOMAIN disk'
      BY <2>2 DEF Following, Target
    <3> QED
      BY <1>1, <1>3, <2>1, <2>2, <3>1 DEF CaseInv, CommitInOrder, Exists
  <2>3. CASE commit.step = "copy"
    <3>1. /\ Following(commit.step) \in {"list", "unstage"}
          /\ Following(commit.step) = "unstage" => commit.source # 0
          /\ Copied(commit.entry) \in DOMAIN disk'
      BY <2>3 DEF Following, Target
    <3>2. Stored(commit.entry) \in DOMAIN disk'
      <4>1. Stored(commit.entry) \in DOMAIN disk
        BY <1>1, <2>3 DEF CaseInv, CommitInOrder, Exists
      <4> QED
        BY <1>6, <4>1
    <3>3. commit.source \in 0 .. MaxUploads /\ (commit.source # 0 => commit.source \in Uploads)
      BY <1>1, Numbers DEF CaseInv, CommitInOrder, Uploads
    <3> QED
      BY <1>1, <1>3, <2>1, <2>3, <3>1, <3>2, <3>3 DEF CaseInv, CommitInOrder, Exists
  <2> QED
    BY <1>1, <2>2, <2>3
<1> QED
  BY <1>4, <1>5, <1>7, <1>8, <1>9, <1>11, <1>12 DEF CaseInv

\* A file under its temporary name is nobody's yet.
LEMMA TemporaryKeeps ==
  ASSUME DirInv, CaseInv, NEW r \in Runs, pc[r] = "serve",
         UNCHANGED <<dirVars, turn, sessions, evidence, commit, listed>>,
         UNCHANGED pc \/ Goto(r, "ended"),
         DOMAIN disk' \ {Temporary} = DOMAIN disk \ {Temporary},
         \A n \in DOMAIN disk \ {Temporary} : disk'[n] = disk[n]
  PROVE  CaseInv'
<1>1. ManifestPending' /\ NothingYet' /\ (Live' => Live)
  BY ServerAlone
<1>2. /\ \A u : Staged(u) # Temporary
      /\ \A e : Stored(e) # Temporary /\ Copied(e) # Temporary
      /\ Temporary[1] \notin {"store", "copy"}
  BY NamesApart
<1>3. /\ \A u : /\ Staged(u) \in DOMAIN disk' <=> Staged(u) \in DOMAIN disk
                /\ Staged(u) \in DOMAIN disk => disk'[Staged(u)] = disk[Staged(u)]
      /\ \A e : /\ Stored(e) \in DOMAIN disk' <=> Stored(e) \in DOMAIN disk
                /\ Copied(e) \in DOMAIN disk' <=> Copied(e) \in DOMAIN disk
  BY <1>2
<1>4. PublishedWhole'
  BY <1>2 DEF CaseInv, PublishedWhole
<1>5. CaseTypeOK' /\ WithinLimit'
  BY DEF CaseInv, CaseTypeOK, WithinLimit, SubmittedBy
<1>6. ListedKept'
  BY <1>3 DEF CaseInv, ListedKept
<1>7. StagedInOrder'
  BY <1>3 DEF CaseInv, StagedInOrder, Beginning, Exists
<1>8. SessionsOfTurn' /\ ListedAsDecided'
  BY <1>1 DEF CaseInv, SessionsOfTurn, MayStillUse, ListedAsDecided
<1>9. CommitInOrder'
  BY <1>3 DEF CaseInv, CommitInOrder, Exists, Opp, SubmittedBy
<1> QED
  BY <1>1, <1>4, <1>5, <1>6, <1>7, <1>8, <1>9 DEF CaseInv

LEMMA PublishTempKeepsCase ==
  ASSUME DirInv, CaseInv, NEW r \in Runs, NEW written, PublishTemp(r, written)
  PROVE  CaseInv'
<1>1. pc[r] = "serve"
  BY DEF PublishTemp, Committing
<1>2. disk' = With(disk, Temporary, SubSeq(commit.entry.bytes, 1, written))
  BY DEF PublishTemp, WrittenTo
<1>3. /\ DOMAIN disk' \ {Temporary} = DOMAIN disk \ {Temporary}
      /\ \A n \in DOMAIN disk \ {Temporary} : disk'[n] = disk[n]
  BY <1>2 DEF With
<1> QED
  BY <1>1, <1>3, TemporaryKeeps DEF PublishTemp

LEMMA CommitFailsKeepsCase ==
  ASSUME DirInv, CaseInv, NEW r \in Runs, CommitFails(r)
  PROVE  CaseInv'
<1>1. pc[r] = "serve"
  BY DEF CommitFails, Committing
<1>2. disk' \in {disk, Without(disk, Temporary)}
  BY DEF CommitFails
<1>3. /\ DOMAIN disk' \ {Temporary} = DOMAIN disk \ {Temporary}
      /\ \A n \in DOMAIN disk \ {Temporary} : disk'[n] = disk[n]
  BY <1>2 DEF Without
<1> QED
  BY <1>1, <1>3, TemporaryKeeps DEF CommitFails

LEMMA KeepPublishedKeepsCase ==
  ASSUME DirInv, CaseInv, NEW r \in Runs, KeepPublished(r)
  PROVE  CaseInv'
<1>1. UNCHANGED disk /\ Target \in DOMAIN disk'
  BY DEF KeepPublished, Exists
<1>2. PublishedWhole'
  BY <1>1 DEF CaseInv, PublishedWhole
<1> QED
  BY <1>1, <1>2, PublishKeeps DEF KeepPublished, Exists

\* The name of a published file is the name of the bytes that are linked to it.
LEMMA LinkKeepsCase ==
  ASSUME DirInv, CaseInv, NEW r \in Runs, Link(r)
  PROVE  CaseInv'
<1>1. disk' = With(Without(disk, Temporary), Target, commit.entry.bytes)
  BY DEF Link
<1>2. /\ Target[1] \in {"store", "copy"} /\ Target[4] = commit.entry.bytes
      /\ Target # Temporary /\ \A u : Staged(u) # Target
  BY NamesApart DEF Target
<1>3. Target \notin DOMAIN disk
  BY DEF Link, Exists
<1>4. /\ DOMAIN disk' = (DOMAIN disk \ {Temporary}) \cup {Target}
      /\ disk'[Target] = commit.entry.bytes
      /\ \A n \in DOMAIN disk \ {Temporary} : n # Target => disk'[n] = disk[n]
  BY <1>1 DEF With, Without
<1>5. \A n \in DOMAIN disk \ {Temporary} : n \in DOMAIN disk' /\ disk'[n] = disk[n]
  BY <1>3, <1>4
<1>6. PublishedWhole'
  BY <1>2, <1>4 DEF CaseInv, PublishedWhole
<1>7. \A u \in Uploads : Exists(Staged(u))' => Exists(Staged(u))
  BY <1>2, <1>4 DEF Exists
<1>8. Target \in DOMAIN disk'
  BY <1>4
<1> QED
  BY <1>5, <1>6, <1>7, <1>8, PublishKeeps DEF Link

LEMMA UnstageKeepsCase ==
  ASSUME DirInv, CaseInv, NEW r \in Runs, Unstage(r)
  PROVE  CaseInv'
<1> DEFINE u == commit.source
<1>1. /\ pc[r] = "serve" /\ Live /\ commit \in Commit /\ commit # None
      /\ commit.step = "unstage" /\ commit.entry \in Item
      /\ commit.entry.by = turn.number
      /\ commit.entry.bytes = Document(commit.entry.by)
  BY UnderCommit DEF Unstage
<1>2. u \in Uploads /\ sessions[u] # None /\ sessions[u].path = Staged(u)
  BY <1>1 DEF CaseInv, CommitInOrder
<1>3. "list" \in Steps /\ AtStep("list")
  BY DEF Steps, Unstage
<1>4. /\ commit' \in Commit /\ commit' # None
      /\ commit'.entry = commit.entry /\ commit'.source = u /\ commit'.step = "list"
  BY <1>1, <1>3, NextStep
<1>5. /\ disk' = Without(disk, Staged(u))
      /\ sessions' = [sessions EXCEPT ![u].path = Copied(commit.entry)]
      /\ UNCHANGED <<pc, dirVars, turn, evidence, listed>>
  BY <1>2 DEF Unstage
<1>6. sessions \in [Uploads -> Session \cup {None}] /\ sessions[u] \in Session
  BY <1>2 DEF CaseInv, CaseTypeOK
<1>7. /\ sessions' \in [Uploads -> Session \cup {None}]
      /\ \A v \in Uploads \ {u} : sessions'[v] = sessions[v]
      /\ sessions'[u] # None /\ sessions'[u].by = sessions[u].by
  <2>1. sessions'[u] = [sessions[u] EXCEPT !.path = Copied(commit.entry)]
    BY <1>2, <1>5, <1>6
  <2>2. Copied(commit.entry) \in Name
    BY <1>1, NamesType
  <2>3. sessions'[u] \in Session /\ sessions'[u].by = sessions[u].by
    BY <2>1, <2>2, <1>6 DEF Session
  <2>4. \A v \in Uploads \ {u} : sessions'[v] = sessions[v]
    BY <1>5, <1>6
  <2>5. DOMAIN sessions' = Uploads /\ sessions' = [v \in Uploads |-> sessions'[v]]
    BY <1>5, <1>6
  <2> QED
    BY <2>3, <2>4, <2>5, <1>6, NoneApart
<1>8. CaseTypeOK'
  BY <1>4, <1>5, <1>7 DEF CaseInv, CaseTypeOK
<1>9. ManifestPending' /\ NothingYet' /\ (Live' => Live)
  BY <1>1, <1>5, ServerAlone
<1>10. /\ DOMAIN disk' = DOMAIN disk \ {Staged(u)}
       /\ \A n \in DOMAIN disk \ {Staged(u)} : disk'[n] = disk[n]
       /\ Staged(u)[1] \notin {"store", "copy"}
  <2>1. Staged(u)[1] \notin {"store", "copy"}
    BY NamesApart
  <2> QED
    BY <1>5, <2>1 DEF Without
<1>11. /\ PublishedWhole' /\ ListedKept'
       /\ \A e : /\ Stored(e) \in DOMAIN disk => Stored(e) \in DOMAIN disk'
                 /\ Copied(e) \in DOMAIN disk => Copied(e) \in DOMAIN disk'
  <2>1. \A e : Stored(e) # Staged(u) /\ Copied(e) # Staged(u)
    BY NamesApart
  <2>2. \A e : /\ Stored(e) \in DOMAIN disk => Stored(e) \in DOMAIN disk'
               /\ Copied(e) \in DOMAIN disk => Copied(e) \in DOMAIN disk'
    BY <2>1, <1>10
  <2>3. PublishedWhole'
    BY <1>10 DEF CaseInv, PublishedWhole
  <2>4. ListedKept'
    BY <2>2, <1>5 DEF CaseInv, ListedKept
  <2> QED
    BY <2>2, <2>3, <2>4
<1>12. StagedInOrder'
  <2> SUFFICES ASSUME NEW v \in Uploads, Exists(Staged(v))'
               PROVE  sessions'[v] # None /\ Beginning(sessions'[v], disk'[Staged(v)])
    BY DEF StagedInOrder, Beginning
  <2>1. v # u /\ Exists(Staged(v)) /\ disk'[Staged(v)] = disk[Staged(v)]
    BY <1>10 DEF Exists
  <2> QED
    BY <2>1, <1>7 DEF CaseInv, StagedInOrder, Beginning
<1>13. SessionsOfTurn'
  <2> SUFFICES ASSUME NEW v \in Uploads
               PROVE  /\ sessions'[v] # None => sessions'[v].by \in 1 .. turn'.number
                      /\ MayStillUse(v)' => sessions'[v].path = Staged(v)
    BY DEF SessionsOfTurn
  <2>1. CASE v = u
    <3>1. ~MayStillUse(v)'
      BY <2>1, <1>4 DEF MayStillUse
    <3> QED
      BY <3>1, <2>1, <1>2, <1>5, <1>7 DEF CaseInv, SessionsOfTurn
  <2>2. CASE v # u
    <3>1. sessions'[v] = sessions[v]
      BY <2>2, <1>7
    <3>2. MayStillUse(v)' => MayStillUse(v)
      BY <3>1, <2>2, <1>4, <1>5, <1>9 DEF MayStillUse
    <3> QED
      BY <3>1, <3>2, <1>5 DEF CaseInv, SessionsOfTurn
  <2> QED
    BY <2>1, <2>2
<1>14. ListedAsDecided' /\ WithinLimit'
  BY <1>1, <1>4, <1>5, <1>9 DEF CaseInv, ListedAsDecided, WithinLimit, SubmittedBy
<1>15. CommitInOrder'
  <2>1. Cardinality(SubmittedBy(Opp.role))' = Cardinality(SubmittedBy(Opp.role))
    BY <1>5 DEF SubmittedBy, Opp
  <2> QED
    BY <1>1, <1>2, <1>4, <1>5, <1>7, <1>11, <2>1 DEF CaseInv, CommitInOrder, Exists
<1> QED
  BY <1>8, <1>9, <1>11, <1>12, <1>13, <1>14, <1>15 DEF CaseInv

LEMMA ListKeepsCase ==
  ASSUME DirInv, CaseInv, NEW r \in Runs, List(r)
  PROVE  CaseInv'
<1>1. /\ pc[r] = "serve" /\ Live /\ commit \in Commit /\ commit # None
      /\ commit.step = "list" /\ commit.entry \in Item
      /\ commit.entry.by = turn.number
      /\ commit.entry.bytes = Document(commit.entry.by)
  BY UnderCommit DEF List
<1>2. "recheck" \in Steps /\ AtStep("recheck")
  BY DEF Steps, List
<1>3. /\ commit' \in Commit /\ commit' # None
      /\ commit'.entry = commit.entry /\ commit'.source = commit.source
      /\ commit'.step = "recheck"
  BY <1>1, <1>2, NextStep
<1>4. /\ listed' = evidence \cup {commit.entry}
      /\ UNCHANGED <<pc, dirVars, turn, sessions, evidence, disk>>
  BY DEF List
<1>5. CaseTypeOK'
  BY <1>3, <1>4 DEF CaseInv, CaseTypeOK
<1>6. ManifestPending' /\ NothingYet' /\ (Live' => Live)
  BY <1>1, <1>4, ServerAlone
<1>7. PublishedWhole' /\ StagedInOrder' /\ WithinLimit'
  BY <1>4 DEF CaseInv, PublishedWhole, StagedInOrder, Beginning, Exists, WithinLimit, SubmittedBy
<1>8. SessionsOfTurn'
  BY <1>1, <1>3, <1>4, <1>6 DEF CaseInv, SessionsOfTurn, MayStillUse
<1>9. Stored(commit.entry) \in DOMAIN disk /\ Copied(commit.entry) \in DOMAIN disk
  BY <1>1 DEF CaseInv, CommitInOrder, Exists
<1>10. ListedKept'
  BY <1>1, <1>4, <1>9 DEF CaseInv, ListedKept, ListedAsDecided
<1>11. ListedAsDecided'
  BY <1>3, <1>4 DEF ListedAsDecided
<1>12. CommitInOrder'
  <2>1. Cardinality(SubmittedBy(Opp.role))' = Cardinality(SubmittedBy(Opp.role))
    BY <1>4 DEF SubmittedBy, Opp
  <2> QED
    BY <1>1, <1>3, <1>4, <2>1 DEF CaseInv, CommitInOrder, Exists
<1> QED
  BY <1>5, <1>6, <1>7, <1>8, <1>10, <1>11, <1>12 DEF CaseInv

\* The room a side had when its submission began is still there when it ends.
LEMMA OneMore ==
  ASSUME CaseInv, commit # None, evidence' = evidence \cup {commit.entry}
  PROVE  WithinLimit'
<1> SUFFICES ASSUME NEW o \in Range(Opportunities)
             PROVE  Cardinality(SubmittedBy(o.role)') <= MaxPerSide
  BY DEF WithinLimit, SubmittedBy
<1> DEFINE before == SubmittedBy(o.role)
           after  == SubmittedBy(o.role)'
<1>1. commit.entry.by = turn.number
  BY DEF CaseInv, CommitInOrder
<1>2. IsFiniteSet(before) /\ Cardinality(before) \in Nat
  BY FS_Subset, FS_CardinalityType DEF CaseInv, CaseTypeOK, SubmittedBy
<1>3. Cardinality(before) <= MaxPerSide
  BY DEF CaseInv, WithinLimit
<1>4. CASE Opp.role = o.role
  <2>1. after = before \cup {commit.entry}
    BY <1>1, <1>4 DEF SubmittedBy, Opp
  <2>2. Cardinality(before) < MaxPerSide
    BY <1>4 DEF CaseInv, CommitInOrder
  <2> HIDE DEF before, after
  <2>3. Cardinality(after) \in {Cardinality(before), Cardinality(before) + 1}
    BY <1>2, <2>1, FS_AddElement
  <2>4. Cardinality(after) <= MaxPerSide
    BY <1>2, <2>2, <2>3, Numbers
  <2> QED
    BY <2>4 DEF after
<1>5. CASE Opp.role # o.role
  <2>1. after = before
    BY <1>1, <1>5 DEF SubmittedBy, Opp
  <2> QED
    BY <2>1, <1>3
<1> QED
  BY <1>4, <1>5

LEMMA AcceptKeepsCase ==
  ASSUME DirInv, CaseInv, NEW r \in Runs, Accept(r)
  PROVE  CaseInv'
<1> DEFINE e == commit.entry
<1>1. /\ pc[r] = "serve" /\ Live /\ commit # None /\ commit.step = "recheck" /\ e \in Item
  BY UnderCommit DEF Accept
<1>2. /\ turn.is = "open" /\ evidence' = evidence \cup {e} /\ commit' = None
      /\ UNCHANGED pc \/ Goto(r, "ended")
      /\ UNCHANGED <<dirVars, turn, disk, listed>>
  BY DEF Accept
<1>3. sessions \in [Uploads -> Session \cup {None}]
  BY DEF CaseInv, CaseTypeOK
<1>4. /\ sessions' \in [Uploads -> Session \cup {None}]
      /\ \A u \in Uploads : u # commit.source => sessions'[u] = sessions[u]
      /\ \A u \in Uploads : sessions[u] = None /\ u # commit.source => sessions'[u] = None
      /\ \A u \in Uploads : u = commit.source =>
           sessions'[u].used /\ sessions'[u].by = sessions[u].by /\ sessions'[u] # None
  <2>1. \A u \in Uploads : u = commit.source => sessions[u] \in Session
    BY <1>1, <1>3 DEF CaseInv, CommitInOrder
  <2>2. sessions' = [u \in Uploads |->
          IF u = commit.source THEN [sessions[u] EXCEPT !.used = TRUE] ELSE sessions[u]]
    BY DEF Accept
  <2>3. \A u \in Uploads : u = commit.source =>
          /\ [sessions[u] EXCEPT !.used = TRUE] \in Session
          /\ [sessions[u] EXCEPT !.used = TRUE].used
          /\ [sessions[u] EXCEPT !.used = TRUE].by = sessions[u].by
    BY <2>1 DEF Session
  <2> QED
    BY <2>1, <2>2, <2>3, <1>3, NoneApart
<1>5. CaseTypeOK'
  <2>1. IsFiniteSet(evidence \cup {e})
    BY FS_AddElement DEF CaseInv, CaseTypeOK
  <2> QED
    BY <2>1, <1>1, <1>2, <1>4 DEF CaseInv, CaseTypeOK
<1>6. ManifestPending' /\ NothingYet' /\ (Live' => Live)
  BY <1>1, <1>2, ServerAlone
<1>7. PublishedWhole' /\ ListedKept' /\ CommitInOrder'
  BY <1>2 DEF CaseInv, PublishedWhole, ListedKept, CommitInOrder
<1>8. WithinLimit'
  BY <1>1, <1>2, OneMore
<1>9. StagedInOrder'
  BY <1>2, <1>4 DEF CaseInv, StagedInOrder, Beginning, Exists
<1>10. SessionsOfTurn'
  <2> SUFFICES ASSUME NEW v \in Uploads
               PROVE  /\ sessions'[v] # None => sessions'[v].by \in 1 .. turn'.number
                      /\ MayStillUse(v)' => sessions'[v].path = Staged(v)
    BY DEF SessionsOfTurn
  <2>1. CASE v = commit.source
    <3>1. ~MayStillUse(v)' /\ sessions[v] # None
      BY <2>1, <1>1, <1>4 DEF MayStillUse, CaseInv, CommitInOrder
    <3> QED
      BY <3>1, <2>1, <1>2, <1>4 DEF CaseInv, SessionsOfTurn
  <2>2. CASE v # commit.source
    <3>1. sessions'[v] = sessions[v]
      BY <2>2, <1>4
    <3>2. MayStillUse(v)' => MayStillUse(v)
      BY <3>1, <2>2, <1>2, <1>6 DEF MayStillUse
    <3> QED
      BY <3>1, <3>2, <1>2 DEF CaseInv, SessionsOfTurn
  <2> QED
    BY <2>1, <2>2
<1>11. ListedAsDecided'
  <2>1. listed = evidence \cup {e}
    BY <1>1 DEF CaseInv, ListedAsDecided
  <2> QED
    BY <2>1, <1>2 DEF ListedAsDecided
<1> QED
  BY <1>5, <1>6, <1>7, <1>8, <1>9, <1>10, <1>11 DEF CaseInv

LEMMA RestoreKeepsCase ==
  ASSUME DirInv, CaseInv, NEW r \in Runs, Restore(r)
  PROVE  CaseInv'
<1>1. /\ pc[r] = "serve" /\ Live /\ commit # None /\ commit.step = "recheck"
      /\ turn.number \in 1 .. Len(Opportunities)
  BY UnderCommit DEF Restore
<1>2. /\ commit' = None
      /\ UNCHANGED pc \/ Goto(r, "ended")
      /\ UNCHANGED <<dirVars, sessions, evidence, disk>>
  BY DEF Restore
<1>3. ManifestPending' /\ NothingYet' /\ (Live' => Live) /\ (Live' => UNCHANGED pc)
  BY <1>1, <1>2, ServerAlone
<1>4. turn \in [number : 1 .. Len(Opportunities), is : {"open", "late", "cancelled", "over"}]
  BY DEF CaseInv, CaseTypeOK
<1>5. /\ turn' \in [number : 1 .. Len(Opportunities), is : {"open", "late", "cancelled", "over"}]
      /\ turn'.number = turn.number /\ (Live' => turn'.is = "over")
      /\ listed' = evidence \/ listed' = listed
      /\ Live' => listed' = evidence
  <2>1. CASE turn' = [turn EXCEPT !.is = "over"] /\ listed' = evidence
    BY <2>1, <1>4
  <2>2. CASE Goto(r, "ended") /\ UNCHANGED <<turn, listed>>
    <3>1. pc \in [Runs -> Places]
      BY DEF DirInv, DirTypeOK
    <3>2. pc' # pc
      BY <3>1, <2>2, <1>1 DEF Goto
    <3> QED
      BY <3>2, <2>2, <1>3, <1>4
  <2> QED
    BY <2>1, <2>2 DEF Restore, Restored
<1>6. CaseTypeOK'
  BY <1>2, <1>5 DEF CaseInv, CaseTypeOK
<1>7. PublishedWhole' /\ StagedInOrder' /\ WithinLimit' /\ CommitInOrder'
  BY <1>2 DEF CaseInv, PublishedWhole, StagedInOrder, Beginning, Exists, WithinLimit,
     SubmittedBy, CommitInOrder
<1>8. ListedKept'
  BY <1>2, <1>5 DEF CaseInv, ListedKept, ListedAsDecided
<1>9. SessionsOfTurn'
  BY <1>2, <1>5 DEF CaseInv, SessionsOfTurn, MayStillUse
<1>10. ListedAsDecided'
  BY <1>2, <1>5 DEF CaseInv, ListedAsDecided
<1> QED
  BY <1>3, <1>6, <1>7, <1>8, <1>9, <1>10 DEF CaseInv

-----------------------------------------------------------------------------
LEMMA CaseNext == DirInv /\ CaseInv /\ [Next]_vars => CaseInv'
<1> SUFFICES ASSUME DirInv, CaseInv, [Next]_vars PROVE CaseInv'
  OBVIOUS
<1>1. CASE Interrupted
  BY <1>1, InterruptionKeepsCase
<1>2. ASSUME NEW r \in Runs,
             \/ Look(r) \/ Claim(r) \/ Check(r) \/ WriteTemp(r) \/ Rename(r) \/ Release(r)
             \/ Cancelled(r) \/ Crash(r)
      PROVE  CaseInv'
  BY <1>2, DirectoryKeepsCase
<1>3. ASSUME NEW r \in Runs, EndTurn(r) \/ NextTurn(r) \/ Submit(r) PROVE CaseInv'
  BY <1>3, TurnStepsKeepCase, SubmitKeepsCase
<1>4. ASSUME NEW r \in Runs, NEW u \in Uploads, Begin(r, u) \/ CommitUpload(r, u)
      PROVE  CaseInv'
  BY <1>4, BeginKeepsCase, CommitUploadKeepsCase
<1>5. ASSUME NEW r \in Runs, NEW u \in Uploads,
             NEW offset \in 0 .. Size, NEW n \in 1 .. Size, NEW written \in 0 .. Size,
             WriteChunk(r, u, offset, n, written)
      PROVE  CaseInv'
  BY <1>5, ChunkKeepsCase
<1>6. ASSUME NEW r \in Runs, NEW written \in 0 .. Size, PublishTemp(r, written)
      PROVE  CaseInv'
  BY <1>6, PublishTempKeepsCase
<1>7. ASSUME NEW r \in Runs,
             \/ KeepPublished(r) \/ Link(r) \/ Unstage(r) \/ List(r) \/ Accept(r)
             \/ Restore(r) \/ CommitFails(r)
      PROVE  CaseInv'
  BY <1>7, KeepPublishedKeepsCase, LinkKeepsCase, UnstageKeepsCase, ListKeepsCase,
     AcceptKeepsCase, RestoreKeepsCase, CommitFailsKeepsCase
<1>8. CASE UNCHANGED vars
  <2>1. UNCHANGED <<pc, manifest>> /\ UNCHANGED caseVars
    BY <1>8 DEF vars, dirVars
  <2>2. ManifestPending' /\ NothingYet' /\ (Live' => Live)
    BY <2>1 DEF CaseInv, ManifestPending, NothingYet, Live, caseVars
  <2> QED
    BY <2>1, <2>2, CaseUntouched
<1> QED
  BY <1>1, <1>2, <1>3, <1>4, <1>5, <1>6, <1>7, <1>8 DEF Next

LEMMA EvidenceFromCaseInv == CaseInv => EvidenceOnDisk
<1> SUFFICES ASSUME CaseInv PROVE EvidenceOnDisk
  OBVIOUS
<1>1. (\E r \in Runs : Serving(r)) => listed = evidence
  BY DEF CaseInv, ListedAsDecided, Serving, Live
<1> QED
  BY <1>1 DEF CaseInv, ListedKept, ListedAsDecided, WithinLimit, EvidenceOnDisk

(* What the evidence manifest lists is on disk as a stored file and a copy  *)
(* and is the whole document of the turn it is entered under, at every      *)
(* moment, for any number of runs, turns, upload sessions and bytes: through *)
(* chunks cut short, turns that end in the middle of an upload, deadlines   *)
(* and cancellations in the middle of a commit, failed writes and killed    *)
(* processes (writeEvidenceChunk, publishSubmittedEvidence,                 *)
(* commitEvidenceSubmissionLocked).                                         *)
THEOREM EvidenceIsKept == Spec => []EvidenceOnDisk
<1>1. Init => DirInv /\ CaseInv
  BY DirInit, CaseInit
<1>2. DirInv /\ CaseInv /\ [Next]_vars => DirInv' /\ CaseInv'
  BY DirNext, CaseNext
<1>3. CaseInv => EvidenceOnDisk
  BY EvidenceFromCaseInv
<1> QED
  BY <1>1, <1>2, <1>3, PTL DEF Spec

-----------------------------------------------------------------------------
(* Reads of evidence.  First what a set of reads holds in all: the sum is  *)
(* defined by a function on its subsets, and that this function exists and *)
(* counts every member once is shown by a least counterexample.            *)

LEMMA LeastNatural ==
  ASSUME NEW S \in SUBSET Nat, S # {}
  PROVE  \E x \in S : \A y \in S : x <= y
<1>1. PICK x \in S : \A y \in S : ~ (<<y, x>> \in OpToRel(<, Nat))
  BY NatLessThanWellFounded, WFMin
<1>2. \A y \in S : ~ (y < x)
  BY <1>1 DEF OpToRel
<1> QED BY <1>2

\* What the reads of a set hold, and the functions on sets that add it up.
Held(w, S) == MapThenSumSet(LAMBDA r : w[r].length, S)

Chosen(S) == CHOOSE x \in S : TRUE

Summing(it, w, D) ==
  it = [S \in D |-> IF S = {} THEN 0 ELSE w[Chosen(S)].length + it[S \ {Chosen(S)}]]

Summed(w, S) == CHOOSE it : Summing(it, w, SUBSET S)

UpTo(S, n) == {T \in SUBSET S : Cardinality(T) <= n}

LEMMA HeldIs ==
  ASSUME NEW w, NEW S
  PROVE  Held(w, S) = Summed(w, S)[S]
BY DEF Held, MapThenSumSet, MapThenFoldSet, Summing, Summed, Chosen

\* A finite set loses one member when one is chosen.
LEMMA OneFewer ==
  ASSUME NEW S, IsFiniteSet(S), NEW T \in SUBSET S, NEW x \in T
  PROVE  /\ IsFiniteSet(T) /\ Cardinality(T) \in Nat /\ Cardinality(T \ {x}) \in Nat
         /\ T \ {x} \in SUBSET S /\ Cardinality(T \ {x}) = Cardinality(T) - 1
<1>1. IsFiniteSet(T)
  BY FS_Subset
<1>2. Cardinality(T) \in Nat
  BY <1>1, FS_CardinalityType
<1>3. Cardinality(T \ {x}) = Cardinality(T) - 1 /\ IsFiniteSet(T \ {x})
  BY <1>1, FS_RemoveElement
<1>4. Cardinality(T \ {x}) \in Nat
  BY <1>3, FS_CardinalityType
<1> QED BY <1>1, <1>2, <1>3, <1>4

LEMMA SummingExists ==
  ASSUME NEW w, NEW S, IsFiniteSet(S)
  PROVE  Summing(Summed(w, S), w, SUBSET S)
<1> DEFINE Bad == {n \in Nat : ~ \E it : Summing(it, w, UpTo(S, n))}
<1>1. Bad = {}
  <2> SUFFICES ASSUME Bad # {} PROVE FALSE
    OBVIOUS
  <2>1. PICK n \in Bad : \A k \in Bad : n <= k
    BY LeastNatural
  <2>2. CASE n = 0
    <3> DEFINE it == [T \in UpTo(S, 0) |-> 0]
    <3>1. \A T \in UpTo(S, 0) : T = {}
      BY FS_Subset, FS_EmptySet, FS_CardinalityType DEF UpTo
    <3>2. Summing(it, w, UpTo(S, 0))
      BY <3>1 DEF Summing
    <3> QED BY <2>1, <2>2, <3>2
  <2>3. CASE n # 0
    <3>1. n - 1 \in Nat /\ n - 1 \notin Bad
      BY <2>1, <2>3
    <3>2. PICK f : Summing(f, w, UpTo(S, n - 1))
      BY <3>1
    <3> DEFINE it == [T \in UpTo(S, n) |->
                        IF T = {} THEN 0 ELSE w[Chosen(T)].length + f[T \ {Chosen(T)}]]
    <3>3. ASSUME NEW T \in UpTo(S, n), T # {}
          PROVE  it[T \ {Chosen(T)}] = f[T \ {Chosen(T)}]
      <4> DEFINE R == T \ {Chosen(T)}
      <4>1. Chosen(T) \in T
        BY <3>3 DEF Chosen
      <4>2. R \in SUBSET S /\ Cardinality(R) <= n - 1 /\ Cardinality(R) <= n
        BY <4>1, <2>1, OneFewer DEF UpTo
      <4>3. R \in UpTo(S, n - 1) /\ R \in UpTo(S, n)
        BY <4>2 DEF UpTo
      <4> HIDE DEF R
      <4>4. f[R] = IF R = {} THEN 0 ELSE w[Chosen(R)].length + f[R \ {Chosen(R)}]
        BY <3>2, <4>3 DEF Summing
      <4>5. it[R] = IF R = {} THEN 0 ELSE w[Chosen(R)].length + f[R \ {Chosen(R)}]
        BY <4>3
      <4> QED BY <4>4, <4>5 DEF R
    <3>4. Summing(it, w, UpTo(S, n))
      BY <3>3 DEF Summing
    <3> HIDE DEF it
    <3> QED BY <2>1, <3>4
  <2> QED BY <2>2, <2>3
<1>2. Cardinality(S) \in Nat
  BY FS_CardinalityType
<1>3. UpTo(S, Cardinality(S)) = SUBSET S
  BY FS_Subset DEF UpTo
<1> HIDE DEF Bad
<1>4. \E it : Summing(it, w, UpTo(S, Cardinality(S)))
  BY <1>1, <1>2 DEF Bad
<1> QED BY <1>3, <1>4 DEF Summed

LEMMA SummedValue ==
  ASSUME NEW w, NEW S, IsFiniteSet(S), NEW U \in SUBSET S
  PROVE  Summed(w, S)[U] = IF U = {} THEN 0
                           ELSE w[Chosen(U)].length + Summed(w, S)[U \ {Chosen(U)}]
<1> DEFINE it == Summed(w, S)
<1>1. Summing(it, w, SUBSET S)
  BY SummingExists
<1> HIDE DEF it
<1>2. it[U] = IF U = {} THEN 0 ELSE w[Chosen(U)].length + it[U \ {Chosen(U)}]
  BY <1>1 DEF Summing
<1> QED BY <1>2 DEF it

\* The part of a sum that a smaller set needs is the same whichever reads and
\* whichever larger set it was added up for.
LEMMA SummedAgree ==
  ASSUME NEW w, NEW v, NEW S, NEW R, IsFiniteSet(S), IsFiniteSet(R),
         NEW T \in SUBSET S, T \in SUBSET R, \A x \in T : w[x] = v[x]
  PROVE  Summed(w, S)[T] = Summed(v, R)[T]
<1> DEFINE f == Summed(w, S)
           g == Summed(v, R)
           Bad == {n \in Nat : \E U \in SUBSET T : Cardinality(U) = n /\ f[U] # g[U]}
<1>1. \A U \in SUBSET S : f[U] = IF U = {} THEN 0 ELSE w[Chosen(U)].length + f[U \ {Chosen(U)}]
  <2> SUFFICES ASSUME NEW U \in SUBSET S
               PROVE  Summed(w, S)[U] = IF U = {} THEN 0
                        ELSE w[Chosen(U)].length + Summed(w, S)[U \ {Chosen(U)}]
    OBVIOUS
  <2> QED BY SummedValue
<1>2. \A U \in SUBSET R : g[U] = IF U = {} THEN 0 ELSE v[Chosen(U)].length + g[U \ {Chosen(U)}]
  BY SummedValue
<1> HIDE DEF f, g
<1>3. ASSUME Bad # {} PROVE FALSE
  <2>1. PICK n \in Bad : \A k \in Bad : n <= k
    BY <1>3, LeastNatural
  <2>2. PICK U \in SUBSET T : Cardinality(U) = n /\ f[U] # g[U]
    BY <2>1
  <2>2a. n \in Nat
    BY <2>1
  <2>3. U # {}
    BY <1>1, <1>2, <2>2
  <2>4. Chosen(U) \in U
    BY <2>3 DEF Chosen
  <2> DEFINE V == U \ {Chosen(U)}
  <2>5. Cardinality(V) \in Nat /\ Cardinality(V) = n - 1 /\ V \in SUBSET T
    BY <2>2, <2>4, OneFewer
  <2> HIDE DEF V
  <2>6. ~(n <= Cardinality(V))
    BY <2>2a, <2>5
  <2>6a. Cardinality(V) \notin Bad
    BY <2>1, <2>6
  <2>7. f[V] = g[V]
    BY <2>5, <2>6a
  <2>8. w[Chosen(U)] = v[Chosen(U)]
    BY <2>4
  <2> QED BY <1>1, <1>2, <2>2, <2>3, <2>7, <2>8 DEF V
<1>4. IsFiniteSet(T) /\ Cardinality(T) \in Nat
  BY FS_Subset, FS_CardinalityType
<1> QED BY <1>3, <1>4 DEF f, g

\* Every member counts once, whichever is chosen first.
LEMMA SummedRemove ==
  ASSUME NEW S, IsFiniteSet(S), NEW w, \A x \in S : w[x].length \in Nat
  PROVE  \A T \in SUBSET S :
           /\ Summed(w, S)[T] \in Nat
           /\ \A x \in T : Summed(w, S)[T] = w[x].length + Summed(w, S)[T \ {x}]
<1> DEFINE f == Summed(w, S)
           Good(T) == /\ f[T] \in Nat
                      /\ \A x \in T : f[T] = w[x].length + f[T \ {x}]
           Bad == {n \in Nat : \E T \in SUBSET S : Cardinality(T) = n /\ ~Good(T)}
<1>1. \A U \in SUBSET S : f[U] = IF U = {} THEN 0 ELSE w[Chosen(U)].length + f[U \ {Chosen(U)}]
  BY SummedValue
<1> HIDE DEF f
<1>3. ASSUME Bad # {} PROVE FALSE
  <2>1. PICK n \in Bad : \A k \in Bad : n <= k
    BY <1>3, LeastNatural
  <2>2. PICK T \in SUBSET S : Cardinality(T) = n /\ ~Good(T)
    BY <2>1
  <2>2a. n \in Nat
    BY <2>1
  <2>3. T # {}
    BY <1>1, <2>2
  <2> DEFINE y == Chosen(T)
  <2>4. y \in T
    BY <2>3 DEF Chosen
  <2> HIDE DEF y
  <2>5. f[T] = w[y].length + f[T \ {y}]
    BY <1>1, <2>3 DEF y
  <2> HIDE DEF Good
  <2>6. ASSUME NEW x \in T PROVE Good(T \ {x})
    <3>1. Cardinality(T \ {x}) \in Nat /\ Cardinality(T \ {x}) = n - 1 /\ T \ {x} \in SUBSET S
      BY <2>2, OneFewer
    <3>1a. ~(n <= Cardinality(T \ {x}))
      BY <2>2a, <3>1
    <3>2. Cardinality(T \ {x}) \notin Bad
      BY <2>1, <3>1a
    <3> QED BY <3>1, <3>2
  <2>7. f[T] \in Nat
    <3>1. w[y].length \in Nat /\ f[T \ {y}] \in Nat
      BY <2>4, <2>6 DEF Good
    <3> QED BY <2>5, <3>1
  <2>8. ASSUME NEW x \in T PROVE f[T] = w[x].length + f[T \ {x}]
    <3>1. CASE x = y
      BY <2>5, <3>1
    <3>2. CASE x # y
      <4>1. y \in T \ {x} /\ x \in T \ {y}
        BY <2>4, <3>2
      <4>2. f[T \ {x}] = w[y].length + f[(T \ {x}) \ {y}]
        BY <2>6, <4>1 DEF Good
      <4>3. f[T \ {y}] = w[x].length + f[(T \ {y}) \ {x}]
        BY <2>4, <2>6, <4>1 DEF Good
      <4>4. (T \ {x}) \ {y} = (T \ {y}) \ {x}
        OBVIOUS
      <4>5. f[T \ {x}] \in Nat /\ f[T \ {y}] \in Nat /\ w[x].length \in Nat /\ w[y].length \in Nat
        BY <2>4, <2>6 DEF Good
      <4> DEFINE rest == f[(T \ {x}) \ {y}]
      <4>6. rest \in Nat
        <5>1. (T \ {x}) \ {y} \in SUBSET S
          OBVIOUS
        <5>2. Cardinality((T \ {x}) \ {y}) \in Nat /\ Cardinality((T \ {x}) \ {y}) < n
          <6>1. Cardinality(T \ {x}) = n - 1 /\ Cardinality(T \ {x}) \in Nat /\ T \ {x} \in SUBSET S
            BY <2>2, OneFewer
          <6>2. Cardinality((T \ {x}) \ {y}) = Cardinality(T \ {x}) - 1 
                /\ Cardinality((T \ {x}) \ {y}) \in Nat
            BY <4>1, <6>1, OneFewer
          <6> QED BY <6>1, <6>2
        <5>3. Cardinality((T \ {x}) \ {y}) \notin Bad
          <6>1. ~(n <= Cardinality((T \ {x}) \ {y}))
            BY <2>2a, <5>2
          <6> QED BY <2>1, <6>1
        <5>4. Good((T \ {x}) \ {y})
          BY <5>1, <5>2, <5>3
        <5> QED BY <5>4 DEF Good
      <4> HIDE DEF rest
      <4>7. f[T \ {x}] = w[y].length + rest /\ f[T \ {y}] = w[x].length + rest
        BY <4>2, <4>3, <4>4 DEF rest
      <4> QED BY <2>5, <4>5, <4>6, <4>7
    <3> QED BY <3>1, <3>2
  <2> QED BY <2>2, <2>7, <2>8 DEF Good
<1>4. \A T \in SUBSET S : IsFiniteSet(T) /\ Cardinality(T) \in Nat
  BY FS_Subset, FS_CardinalityType
<1>5. \A T \in SUBSET S : Good(T)
  BY <1>3, <1>4
<1> QED BY <1>5 DEF f

\* What a set of reads holds, with one read more or one fewer.
LEMMA HeldFacts ==
  ASSUME NEW S, IsFiniteSet(S), NEW w, \A x \in S : w[x].length \in Nat
  PROVE  /\ Held(w, S) \in Nat
         /\ \A x \in S : Held(w, S) = w[x].length + Held(w, S \ {x})
<1>1. Held(w, S) = Summed(w, S)[S]
  BY HeldIs
<1>2. ASSUME NEW x \in S PROVE Held(w, S \ {x}) = Summed(w, S)[S \ {x}]
  <2>1. IsFiniteSet(S \ {x}) /\ S \ {x} \in SUBSET S
    BY FS_RemoveElement
  <2>2. Summed(w, S)[S \ {x}] = Summed(w, S \ {x})[S \ {x}]
    BY <2>1, SummedAgree
  <2> QED BY <2>2, HeldIs
<1>3. Summed(w, S)[S] \in Nat /\ \A x \in S : Summed(w, S)[S] = w[x].length + Summed(w, S)[S \ {x}]
  BY SummedRemove
<1> QED BY <1>1, <1>2, <1>3

LEMMA HeldAgree ==
  ASSUME NEW S, IsFiniteSet(S), NEW w, NEW v, \A x \in S : w[x] = v[x]
  PROVE  Held(w, S) = Held(v, S)
<1>1. S \in SUBSET S
  OBVIOUS
<1> QED BY <1>1, SummedAgree, HeldIs


-----------------------------------------------------------------------------
(* The invariant.                                                          *)

Read == [turn : Turns, length : 1 .. MaxReadBytes]

ReadTypeOK ==
  /\ active \in [number : Nat, open : BOOLEAN]
  /\ active.open => active.number \in Turns
  /\ budget \in [Turns -> Tally] /\ served \in [Turns -> Tally]
  /\ reading \in [Readers -> Read \cup {NoRead}]

ReadInv == ReadTypeOK /\ BudgetExact

\* Reads of a turn in flight are reads, not idle requests.
LEMMA ReadFields ==
  ASSUME ReadTypeOK
  PROVE  /\ \A r \in Readers : /\ reading[r].length \in Nat /\ reading[r].turn \in Nat
                               /\ reading[r] # NoRead => /\ reading[r] \in Read
                                                         /\ reading[r].turn \in Turns
                                                         /\ reading[r].length \in 1 .. MaxReadBytes
         /\ NoRead.turn = 0 /\ NoRead.length = 0 /\ 0 \notin Turns
         /\ \A t \in Turns : /\ IsFiniteSet(InFlight(t)) /\ Cardinality(InFlight(t)) \in Nat
                             /\ \A r \in InFlight(t) : reading[r].length \in Nat
<1>1. ASSUME NEW r \in Readers
      PROVE  /\ reading[r].length \in Nat /\ reading[r].turn \in Nat
             /\ reading[r] # NoRead => /\ reading[r] \in Read
                                       /\ reading[r].turn \in Turns
                                       /\ reading[r].length \in 1 .. MaxReadBytes
  <2>1. reading[r] \in Read \/ reading[r] = NoRead
    BY DEF ReadTypeOK
  <2> QED BY <2>1, ReadAssumption DEF Read, NoRead, Turns
<1>2. NoRead.turn = 0 /\ NoRead.length = 0 /\ 0 \notin Turns
  BY DEF NoRead, Turns
<1>3. ASSUME NEW t \in Turns PROVE IsFiniteSet(InFlight(t)) /\ Cardinality(InFlight(t)) \in Nat
  BY ReadAssumption, FS_Subset, FS_CardinalityType DEF InFlight
<1>4. \A t \in Turns : \A r \in InFlight(t) : reading[r].length \in Nat
  BY <1>1 DEF InFlight
<1> QED BY <1>1, <1>2, <1>3, <1>4

\* A read that settles leaves its turn's reads, and takes its bytes with it.
LEMMA ReadLeaves ==
  ASSUME ReadTypeOK, NEW r \in Readers, reading[r] # NoRead,
         reading' = [reading EXCEPT ![r] = NoRead], NEW t \in Turns
  PROVE  IF t = reading[r].turn
           THEN /\ Cardinality(InFlight(t)) = Cardinality(InFlight(t)') + 1
                /\ Held(reading, InFlight(t)) =
                     reading[r].length + Held(reading, InFlight(t))'
           ELSE /\ Cardinality(InFlight(t)) = Cardinality(InFlight(t)')
                /\ Held(reading, InFlight(t)) = Held(reading, InFlight(t))'
<1>1. IsFiniteSet(InFlight(t)) /\ \A x \in InFlight(t) : reading[x].length \in Nat
  BY ReadFields
<1>2. \A x \in Readers : reading'[x] = IF x = r THEN NoRead ELSE reading[x]
  BY DEF ReadTypeOK
<1>3. InFlight(t)' = InFlight(t) \ {r}
  BY <1>2, ReadFields DEF InFlight
<1>4. \A x \in InFlight(t) \ {r} : reading[x] = reading'[x]
  BY <1>2 DEF InFlight
<1>5. IsFiniteSet(InFlight(t) \ {r})
  BY <1>1, FS_Subset
<1>6. Held(reading, InFlight(t) \ {r}) = Held(reading', InFlight(t)')
  <2> DEFINE S == InFlight(t) \ {r}
             v == reading'
  <2>1. IsFiniteSet(S) /\ \A x \in S : reading[x] = v[x]
    BY <1>4, <1>5
  <2> HIDE DEF S, v
  <2>2. Held(reading, S) = Held(v, S)
    BY <2>1, HeldAgree
  <2> QED BY <1>3, <2>2 DEF S, v
<1>7. CASE t = reading[r].turn
  <2>1. r \in InFlight(t)
    BY <1>7 DEF InFlight
  <2>2. Cardinality(InFlight(t) \ {r}) = Cardinality(InFlight(t)) - 1
    BY <1>1, <2>1, FS_RemoveElement
  <2>3. Held(reading, InFlight(t)) = reading[r].length + Held(reading, InFlight(t) \ {r})
    BY <1>1, <2>1, HeldFacts
  <2>4. Cardinality(InFlight(t)) \in Nat
    BY ReadFields
  <2> QED BY <1>3, <1>6, <1>7, <2>2, <2>3, <2>4
<1>8. CASE t # reading[r].turn
  <2>1. InFlight(t) \ {r} = InFlight(t)
    BY <1>8 DEF InFlight
  <2> QED BY <1>3, <1>6, <1>8, <2>1
<1> QED BY <1>7, <1>8

\* A read that is admitted joins its turn's reads.
LEMMA ReadJoins ==
  ASSUME ReadTypeOK, NEW r \in Readers, reading[r] = NoRead, NEW x \in Read,
         reading' = [reading EXCEPT ![r] = x], NEW t \in Turns
  PROVE  IF t = x.turn
           THEN /\ Cardinality(InFlight(t)') = Cardinality(InFlight(t)) + 1
                /\ Held(reading, InFlight(t))' = x.length + Held(reading, InFlight(t))
           ELSE /\ Cardinality(InFlight(t)) = Cardinality(InFlight(t)')
                /\ Held(reading, InFlight(t)) = Held(reading, InFlight(t))'
<1>1. IsFiniteSet(InFlight(t)) /\ \A y \in InFlight(t) : reading[y].length \in Nat
  BY ReadFields
<1>2. \A y \in Readers : reading'[y] = IF y = r THEN x ELSE reading[y]
  BY DEF ReadTypeOK
<1>3. r \notin InFlight(t)
  BY ReadFields DEF InFlight
<1>4. \A y \in InFlight(t) : reading[y] = reading'[y]
  BY <1>2, <1>3 DEF InFlight
<1>5. Held(reading, InFlight(t)) = Held(reading', InFlight(t))
  BY <1>1, <1>4, HeldAgree
<1>6. CASE t = x.turn
  <2>1. InFlight(t)' = InFlight(t) \cup {r}
    BY <1>2, <1>6 DEF InFlight
  <2> DEFINE S == InFlight(t) \cup {r}
  <2>2. IsFiniteSet(S) /\ Cardinality(S) = Cardinality(InFlight(t)) + 1
    BY <1>1, <1>3, FS_AddElement
  <2>3. \A y \in S : reading'[y].length \in Nat
    BY <1>1, <1>2, <1>4 DEF Read
  <2>4. S \ {r} = InFlight(t) /\ r \in S
    BY <1>3
  <2> HIDE DEF S
  <2>5. Held(reading', S) = reading'[r].length + Held(reading', S \ {r})
    <3> DEFINE v == reading'
    <3>1. IsFiniteSet(S) /\ r \in S /\ \A y \in S : v[y].length \in Nat
      BY <2>2, <2>3, <2>4
    <3> HIDE DEF v
    <3>2. Held(v, S) = v[r].length + Held(v, S \ {r})
      BY <3>1, HeldFacts
    <3> QED BY <3>2 DEF v
  <2>6. Held(reading', S) = x.length + Held(reading, InFlight(t))
    BY <1>2, <1>5, <2>4, <2>5
  <2> QED BY <1>6, <2>1, <2>2, <2>6 DEF S
<1>7. CASE t # x.turn
  <2>1. InFlight(t)' = InFlight(t)
    BY <1>2, <1>3, <1>7 DEF InFlight
  <2> QED BY <1>5, <1>7, <2>1
<1> QED BY <1>6, <1>7

-----------------------------------------------------------------------------
(* What each turn's budget says, one turn at a time.                       *)

Exact(t) ==
  /\ budget[t].reads = served[t].reads + Cardinality(InFlight(t))
  /\ budget[t].bytes = served[t].bytes + Held(reading, InFlight(t))
  /\ budget[t].reads <= MaxReads /\ budget[t].bytes <= MaxBytes

LEMMA ExactTurns == BudgetExact <=> \A t \in Turns : Exact(t)
BY DEF BudgetExact, Exact, Held

LEMMA Tallies ==
  ASSUME ReadTypeOK, NEW t \in Turns
  PROVE  /\ budget[t] \in Tally /\ served[t] \in Tally
         /\ budget[t].reads \in Nat /\ budget[t].bytes \in Nat
         /\ served[t].reads \in Nat /\ served[t].bytes \in Nat
         /\ Held(reading, InFlight(t)) \in Nat /\ Cardinality(InFlight(t)) \in Nat
<1>1. budget[t] \in Tally /\ served[t] \in Tally
  BY DEF ReadTypeOK
<1>2. Held(reading, InFlight(t)) \in Nat /\ Cardinality(InFlight(t)) \in Nat
  BY ReadFields, HeldFacts
<1> QED BY <1>1, <1>2 DEF Tally

-----------------------------------------------------------------------------
(* The steps.                                                              *)

\* A reservation that is given back, with n bytes of it kept for the client.
LEMMA SettleKeeps ==
  ASSUME ReadInv, NEW r \in Readers, reading[r] # NoRead, NEW b \in Tally, NEW gave \in Tally,
         Settle(r, b),
         served' = [served EXCEPT ![reading[r].turn] = gave],
         b.reads = budget[reading[r].turn].reads - 1 +
                     (gave.reads - served[reading[r].turn].reads),
         b.bytes = budget[reading[r].turn].bytes - reading[r].length +
                     (gave.bytes - served[reading[r].turn].bytes),
         b.reads <= MaxReads, b.bytes <= MaxBytes
  PROVE  /\ budget' \in [Turns -> Tally] /\ served' \in [Turns -> Tally]
         /\ reading' \in [Readers -> Read \cup {NoRead}]
         /\ BudgetExact'
<1> DEFINE u == reading[r].turn
<1>1. u \in Turns /\ reading[r].length \in Nat
  BY ReadFields DEF ReadInv
<1>2. /\ reading' = [reading EXCEPT ![r] = NoRead]
      /\ budget' = [budget EXCEPT ![u] = b]
      /\ served' = [served EXCEPT ![u] = gave]
  BY DEF Settle
<1>3. /\ budget' \in [Turns -> Tally] /\ served' \in [Turns -> Tally]
      /\ reading' \in [Readers -> Read \cup {NoRead}]
  BY <1>1, <1>2 DEF ReadInv, ReadTypeOK
<1>4. ReadTypeOK
  BY DEF ReadInv
<1> HIDE DEF u
<1>5. ASSUME NEW t \in Turns PROVE Exact(t)'
  <2>1. Exact(t)
    BY ExactTurns DEF ReadInv
  <2>2. /\ budget[t].reads \in Nat /\ budget[t].bytes \in Nat
        /\ served[t].reads \in Nat /\ served[t].bytes \in Nat
        /\ Held(reading, InFlight(t)) \in Nat /\ Cardinality(InFlight(t)) \in Nat
    BY <1>4, Tallies
  <2>3. budget'[t] = (IF t = u THEN b ELSE budget[t])
        /\ served'[t] = (IF t = u THEN gave ELSE served[t])
    BY <1>2 DEF ReadInv, ReadTypeOK
  <2>4. IF t = u
          THEN /\ Cardinality(InFlight(t)) = Cardinality(InFlight(t)') + 1
               /\ Held(reading, InFlight(t)) = reading[r].length + Held(reading, InFlight(t))'
          ELSE /\ Cardinality(InFlight(t)) = Cardinality(InFlight(t)')
               /\ Held(reading, InFlight(t)) = Held(reading, InFlight(t))'
    BY <1>2, <1>4, ReadLeaves DEF u
  <2>5. /\ Held(reading, InFlight(t))' \in Nat /\ Cardinality(InFlight(t))' \in Nat
    <3>2. IsFiniteSet(InFlight(t)') /\ \A x \in InFlight(t)' : reading'[x].length \in Nat
      <4>1. IsFiniteSet(InFlight(t)')
        BY ReadAssumption, FS_Subset DEF InFlight
      <4>2. \A x \in Readers : reading'[x] \in Read \/ reading'[x] = NoRead
        BY <1>3
      <4> QED BY <4>1, <4>2 DEF InFlight, Read, NoRead
    <3> DEFINE S == InFlight(t)'
               v == reading'
    <3>3. IsFiniteSet(S) /\ \A x \in S : v[x].length \in Nat
      BY <3>2
    <3> HIDE DEF S, v
    <3>4. Held(v, S) \in Nat /\ Cardinality(S) \in Nat
      BY <3>3, HeldFacts, FS_CardinalityType
    <3> QED BY <3>4 DEF S, v
  <2>6. gave.reads \in Nat /\ gave.bytes \in Nat /\ b.reads \in Nat /\ b.bytes \in Nat
    BY DEF Tally
  <2>7. CASE t = u
    <3>1. /\ b.reads = budget[t].reads - 1 + (gave.reads - served[t].reads)
          /\ b.bytes = budget[t].bytes - reading[r].length + (gave.bytes - served[t].bytes)
      BY <2>7 DEF u
    <3>2. budget'[t] = b /\ served'[t] = gave
      BY <2>3, <2>7
    <3>3. /\ budget[t].reads = served[t].reads + (Cardinality(InFlight(t)') + 1)
          /\ budget[t].bytes = served[t].bytes + (reading[r].length + Held(reading, InFlight(t))')
      BY <2>1, <2>4, <2>7 DEF Exact
    <3>4. /\ b.reads = gave.reads + Cardinality(InFlight(t))'
          /\ b.bytes = gave.bytes + Held(reading, InFlight(t))'
      BY <1>1, <2>2, <2>5, <2>6, <3>1, <3>3
    <3> QED BY <3>2, <3>4 DEF Exact
  <2>8. CASE t # u
    BY <2>1, <2>3, <2>4, <2>8 DEF Exact
  <2> QED BY <2>7, <2>8
<1>6. (\A t \in Turns : Exact(t)') => BudgetExact'
  BY DEF BudgetExact, Exact, Held
<1> QED BY <1>3, <1>5, <1>6

LEMMA ReserveKeeps ==
  ASSUME ReadInv, NEW r \in Readers, NEW length \in 1 .. MaxReadBytes, Reserve(r, length)
  PROVE  ReadInv'
<1> DEFINE u == active.number
           x == [turn |-> u, length |-> length]
<1>0. ReadTypeOK /\ u \in Turns /\ length \in Nat
  BY ReadAssumption DEF ReadInv, ReadTypeOK, Reserve
<1>1. x \in Read /\ x.turn = u /\ x.length = length
  BY <1>0 DEF Read
<1>2. /\ reading[r] = NoRead /\ reading' = [reading EXCEPT ![r] = x]
      /\ budget' = [budget EXCEPT ![u] = Reserved(budget[u], length)]
      /\ UNCHANGED <<active, served>> /\ Fits(budget[u], length)
  BY DEF Reserve, ReadInv, ReadTypeOK
<1> HIDE DEF u, x
<1>3. Reserved(budget[u], length) \in Tally
  BY <1>0, Tallies DEF Reserved, Tally
<1>4. ReadTypeOK'
  BY <1>0, <1>1, <1>2, <1>3 DEF ReadTypeOK
<1>5. ASSUME NEW t \in Turns PROVE Exact(t)'
  <2>1. Exact(t)
    BY ExactTurns DEF ReadInv
  <2>2. /\ budget[t].reads \in Nat /\ budget[t].bytes \in Nat
        /\ served[t].reads \in Nat /\ served[t].bytes \in Nat
        /\ Held(reading, InFlight(t)) \in Nat /\ Cardinality(InFlight(t)) \in Nat
    BY <1>0, Tallies
  <2>3. budget'[t] = (IF t = u THEN Reserved(budget[u], length) ELSE budget[t])
    BY <1>0, <1>2 DEF ReadTypeOK
  <2>4. IF t = u
          THEN /\ Cardinality(InFlight(t)') = Cardinality(InFlight(t)) + 1
               /\ Held(reading, InFlight(t))' = length + Held(reading, InFlight(t))
          ELSE /\ Cardinality(InFlight(t)) = Cardinality(InFlight(t)')
               /\ Held(reading, InFlight(t)) = Held(reading, InFlight(t))'
    BY <1>0, <1>1, <1>2, ReadJoins
  <2>5. CASE t = u
    <3>1. budget'[t].reads = budget[t].reads + 1 /\ budget'[t].bytes = budget[t].bytes + length
      BY <2>3, <2>5 DEF Reserved
    <3>2. budget[t].reads < MaxReads /\ budget[t].bytes + length <= MaxBytes
      BY <1>2, <2>5 DEF Fits
    <3> QED BY <1>0, <1>2, <2>1, <2>2, <2>4, <2>5, <3>1, <3>2, ReadAssumption DEF Exact
  <2>6. CASE t # u
    BY <1>2, <2>1, <2>3, <2>4, <2>6 DEF Exact
  <2> QED BY <2>5, <2>6
<1>6. (\A t \in Turns : Exact(t)') => BudgetExact'
  BY DEF BudgetExact, Exact, Held
<1> QED BY <1>4, <1>5, <1>6 DEF ReadInv

\* A discarded or failed read gives back all it reserved.
LEMMA RollBackKeeps ==
  ASSUME ReadInv, NEW r \in Readers, reading[r] # NoRead,
         Settle(r, RolledBack(budget[reading[r].turn], reading[r].length)), UNCHANGED served
  PROVE  /\ budget' \in [Turns -> Tally] /\ served' \in [Turns -> Tally]
         /\ reading' \in [Readers -> Read \cup {NoRead}]
         /\ BudgetExact'
<1> DEFINE u == reading[r].turn
           b == RolledBack(budget[u], reading[r].length)
           gave == served[u]
<1>0. ReadTypeOK /\ u \in Turns /\ reading[r].length \in Nat
  BY ReadFields DEF ReadInv
<1>1. /\ budget[u].reads \in Nat /\ budget[u].bytes \in Nat /\ gave \in Tally
      /\ gave.reads \in Nat /\ gave.bytes \in Nat
  BY <1>0, Tallies
<1>2. budget[u].reads >= 1 /\ budget[u].bytes >= reading[r].length
  <2>1. Exact(u)
    BY <1>0, ExactTurns DEF ReadInv
  <2>2. r \in InFlight(u) /\ IsFiniteSet(InFlight(u)) /\ Cardinality(InFlight(u)) \in Nat
    BY <1>0, ReadFields DEF InFlight
  <2>3. Cardinality(InFlight(u) \ {r}) = Cardinality(InFlight(u)) - 1
        /\ Cardinality(InFlight(u) \ {r}) \in Nat
    BY <2>2, FS_RemoveElement, FS_CardinalityType
  <2>4. Held(reading, InFlight(u)) = reading[r].length + Held(reading, InFlight(u) \ {r})
    BY <1>0, <2>2, ReadFields, HeldFacts
  <2>5. Held(reading, InFlight(u) \ {r}) \in Nat
    <3>1. IsFiniteSet(InFlight(u) \ {r}) /\ \A x \in InFlight(u) \ {r} : reading[x].length \in Nat
      BY <1>0, <2>2, FS_Subset, ReadFields
    <3> QED BY <3>1, HeldFacts
  <2> QED BY <1>0, <1>1, <2>1, <2>2, <2>3, <2>4, <2>5 DEF Exact
<1>3. b.reads = budget[u].reads - 1 /\ b.bytes = budget[u].bytes - reading[r].length
  BY DEF RolledBack
<1>4. b \in Tally
  BY <1>0, <1>1, <1>2 DEF RolledBack, Tally
<1>5. b.reads <= MaxReads /\ b.bytes <= MaxBytes
  <2>1. budget[u].reads <= MaxReads /\ budget[u].bytes <= MaxBytes
    BY <1>0 DEF ReadInv, BudgetExact
  <2> QED BY <1>0, <1>1, <1>3, <2>1, ReadAssumption
<1>6. served' = [served EXCEPT ![u] = gave]
  BY <1>0 DEF ReadTypeOK
<1>7. /\ b.reads = budget[u].reads - 1 + (gave.reads - served[u].reads)
      /\ b.bytes = budget[u].bytes - reading[r].length + (gave.bytes - served[u].bytes)
  BY <1>0, <1>1, <1>3
<1>8. Settle(r, b)
  OBVIOUS
<1> HIDE DEF b, gave
<1> QED BY <1>1, <1>4, <1>5, <1>6, <1>7, <1>8, SettleKeeps

\* A short read is charged for what it gave.
LEMMA ServeKeeps ==
  ASSUME ReadInv, NEW r \in Readers, NEW n \in 0 .. MaxReadBytes, Serve(r, n)
  PROVE  ReadInv'
<1> DEFINE u == reading[r].turn
           b == Finalized(budget[u], reading[r].length, n)
           gave == [reads |-> served[u].reads + 1, bytes |-> served[u].bytes + n]
<1>a. reading[r] # NoRead /\ n \in 0 .. reading[r].length /\ UNCHANGED active
  BY DEF Serve
<1>0. ReadTypeOK /\ u \in Turns /\ reading[r].length \in Nat /\ n \in Nat /\ n <= reading[r].length
  BY <1>a, ReadFields DEF ReadInv
<1>1. /\ budget[u] \in Tally /\ budget[u].reads \in Nat /\ budget[u].bytes \in Nat
      /\ served[u].reads \in Nat /\ served[u].bytes \in Nat
  BY <1>0, Tallies
<1>2. budget[u].bytes >= reading[r].length
  <2>1. Exact(u)
    BY <1>0, ExactTurns DEF ReadInv
  <2>2. r \in InFlight(u) /\ IsFiniteSet(InFlight(u))
    BY <1>0, ReadFields DEF InFlight
  <2>4. Held(reading, InFlight(u)) = reading[r].length + Held(reading, InFlight(u) \ {r})
    BY <1>0, <2>2, ReadFields, HeldFacts
  <2>5. Held(reading, InFlight(u) \ {r}) \in Nat
    <3>1. IsFiniteSet(InFlight(u) \ {r}) /\ \A x \in InFlight(u) \ {r} : reading[x].length \in Nat
      BY <1>0, <2>2, FS_Subset, ReadFields
    <3> QED BY <3>1, HeldFacts
  <2> QED BY <1>0, <1>1, <2>1, <2>4, <2>5 DEF Exact
<1>3. b.reads = budget[u].reads /\ b.bytes = budget[u].bytes - (reading[r].length - n)
  BY <1>1 DEF Finalized, Tally
<1>4. b \in Tally /\ gave \in Tally
  BY <1>0, <1>1, <1>2 DEF Finalized, Tally
<1>5. b.reads <= MaxReads /\ b.bytes <= MaxBytes
  <2>1. budget[u].reads <= MaxReads /\ budget[u].bytes <= MaxBytes
    BY <1>0 DEF ReadInv, BudgetExact
  <2> QED BY <1>0, <1>1, <1>3, <2>1, ReadAssumption
<1>6. served' = [served EXCEPT ![u] = gave] /\ Settle(r, b)
  BY <1>0 DEF Serve, ReadTypeOK
<1>7. /\ b.reads = budget[u].reads - 1 + (gave.reads - served[u].reads)
      /\ b.bytes = budget[u].bytes - reading[r].length + (gave.bytes - served[u].bytes)
  <2>1. gave.reads - served[u].reads = 1 /\ gave.bytes - served[u].bytes = n
    BY <1>0, <1>1
  <2> HIDE DEF b, gave
  <2>2. /\ b.reads = budget[u].reads - 1 + 1
        /\ b.bytes = budget[u].bytes - reading[r].length + n
    BY <1>0, <1>1, <1>3
  <2> QED BY <2>1, <2>2
<1> HIDE DEF b, gave
<1>8. /\ budget' \in [Turns -> Tally] /\ served' \in [Turns -> Tally]
      /\ reading' \in [Readers -> Read \cup {NoRead}]
      /\ BudgetExact'
  BY <1>a, <1>4, <1>5, <1>6, <1>7, SettleKeeps
<1> QED BY <1>a, <1>8 DEF ReadInv, ReadTypeOK

LEMMA ExactStays ==
  ASSUME BudgetExact, UNCHANGED <<budget, reading, served>>
  PROVE  BudgetExact'
<1>1. ASSUME NEW t \in Turns PROVE Exact(t)'
  <2>1. Exact(t)
    BY ExactTurns
  <2>2. InFlight(t)' = InFlight(t)
    BY DEF InFlight
  <2>3. Held(reading, InFlight(t))' = Held(reading, InFlight(t))
    BY <2>2
  <2> QED BY <2>1, <2>2, <2>3 DEF Exact
<1>2. (\A t \in Turns : Exact(t)') => BudgetExact'
  BY DEF BudgetExact, Exact, Held
<1> QED BY <1>1, <1>2

LEMMA ReadInvKept ==
  ASSUME ReadInv, [ReadNext]_readVars
  PROVE  ReadInv'
<1>1. CASE StartTurn
  <2>1. active' \in [number : Nat, open : BOOLEAN] /\ active'.number \in Turns
    BY <1>1, ReadAssumption DEF StartTurn, ReadInv, ReadTypeOK, Turns
  <2>2. UNCHANGED <<budget, reading, served>>
    BY <1>1 DEF StartTurn
  <2>3. ReadTypeOK'
    BY <2>1, <2>2 DEF ReadInv, ReadTypeOK
  <2> QED BY <2>2, <2>3, ExactStays DEF ReadInv
<1>2. CASE CloseTurn
  <2>1. UNCHANGED <<budget, reading, served>>
    BY <1>2 DEF CloseTurn
  <2>2. ReadTypeOK'
    BY <1>2, <2>1 DEF CloseTurn, ReadInv, ReadTypeOK
  <2> QED BY <2>1, <2>2, ExactStays DEF ReadInv
<1>3. CASE UNCHANGED readVars
  BY <1>3, ExactStays DEF readVars, ReadInv, ReadTypeOK
<1>4. ASSUME NEW r \in Readers, Discard(r) \/ ReadFails(r) PROVE ReadInv'
  <2>1. /\ budget' \in [Turns -> Tally] /\ served' \in [Turns -> Tally]
        /\ reading' \in [Readers -> Read \cup {NoRead}]
        /\ BudgetExact'
    BY <1>4, RollBackKeeps DEF Discard, ReadFails
  <2>2. /\ active' \in [number : Nat, open : BOOLEAN]
        /\ active'.open => active'.number \in Turns
    BY <1>4 DEF Discard, ReadFails, ReadInv, ReadTypeOK
  <2> QED BY <2>1, <2>2 DEF ReadInv, ReadTypeOK
<1> QED BY <1>1, <1>2, <1>3, <1>4, ReserveKeeps, ServeKeeps DEF ReadNext, Done

LEMMA ReadInvInit ==
  ASSUME ReadInit
  PROVE  ReadInv
<1>1. ReadTypeOK
  BY DEF ReadInit, ReadTypeOK, Zero, Tally
<1>2. ASSUME NEW t \in Turns PROVE Exact(t)
  <2>1. InFlight(t) = {}
    BY DEF InFlight, ReadInit, NoRead, Turns
  <2>2. Held(reading, {}) = 0
    <3>1. IsFiniteSet({}) /\ {} \in SUBSET {}
      BY FS_EmptySet
    <3>2. Summed(reading, {})[{}] = 0
      BY <3>1, SummedValue
    <3> QED BY <3>2, HeldIs
  <2> QED BY <2>1, <2>2, FS_EmptySet, ReadAssumption DEF ReadInit, Exact, Zero
<1> QED BY <1>1, <1>2, ExactTurns DEF ReadInv

(* The invariant of evidence reads: a budget is exact in every turn, for   *)
(* any number of requests in flight and any limits of the policy           *)
(* (lawyerapi.go, reserveEvidenceReadLocked and rollbackEvidenceReadLocked).*)
THEOREM BudgetsAreExact == ReadSpec => []BudgetExact
<1>1. ReadInv /\ [ReadNext]_readVars => ReadInv'
  BY ReadInvKept
<1>2. ReadInv => BudgetExact
  BY DEF ReadInv
<1> QED BY <1>1, <1>2, ReadInvInit, PTL DEF ReadSpec

(* A read is answered only in the turn that admitted it: what a turn's     *)
(* clients were given does not grow once it has ended (lawyerapi.go,       *)
(* revalidateLawyerEvidenceTurnLocked).                                    *)
THEOREM ReadsServedInTheirTurn == ReadSpec => ServedOnlyWhileOpen
<1> DEFINE Admitted == \A t \in Turns : served'[t] # served[t] => active.open /\ active.number = t
<1>1. ReadInv /\ [ReadNext]_readVars => [Admitted]_readVars
  <2> SUFFICES ASSUME ReadInv, [ReadNext]_readVars, NEW t \in Turns, served'[t] # served[t]
               PROVE  active.open /\ active.number = t
    OBVIOUS
  <2>1. PICK r \in Readers : \E n \in 0 .. MaxReadBytes : Serve(r, n)
    BY DEF ReadNext, StartTurn, CloseTurn, Done, Reserve, Discard, ReadFails, readVars
  <2>2. PICK n \in 0 .. MaxReadBytes : Serve(r, n)
    BY <2>1
  <2>3. served' = [served EXCEPT ![reading[r].turn] =
                     [reads |-> @.reads + 1, bytes |-> @.bytes + n]] /\ Valid(r)
    BY <2>2 DEF Serve
  <2> QED BY <2>3 DEF Valid, ReadInv, ReadTypeOK
<1>2. ReadInv /\ [ReadNext]_readVars => ReadInv'
  BY ReadInvKept
<1> QED BY <1>1, <1>2, ReadInvInit, PTL DEF ReadSpec, ServedOnlyWhileOpen
=============================================================================
