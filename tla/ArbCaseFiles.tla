----------------------------- MODULE ArbCaseFiles -----------------------------
(***************************************************************************)
(* The output directory of an arb case.  Runs given the same directory     *)
(* race to claim it (prepareOutputDir, claimOutputDir,                     *)
(* writeInitialCaseManifest); the one that gets it takes evidence into it, *)
(* uploaded in chunks or submitted whole, turn after turn.  A process may  *)
(* be killed, and a file operation fail, at any point.                     *)
(*                                                                         *)
(* Files are functions from names to bytes; a byte is known by the turn    *)
(* whose client sent it and by its place in the client's document.  Every  *)
(* document has Size bytes.  The handlers of a turn hold rc.mu, so between *)
(* the steps of a commit only the deadline, the case's cancellation and a  *)
(* crash may come.  The evidence a case starts with, the engine and the    *)
(* certificate are ArbRuntime's concern.                                   *)
(***************************************************************************)
EXTENDS Naturals, Sequences, FiniteSets, Functions

CONSTANTS
  Runs,           \* processes given the directory
  Opportunities,  \* the turns of the case: their role and phase
  MaxUploads,     \* bound: upload sessions begun
  Size,           \* bytes of a document
  MaxPerSide,     \* policy.max_submitted_evidence_per_side
  None

Byte    == Nat \X Nat
Name    == {"staging", "store", "copy", "temporary"} \X Nat \X Nat \X Seq(Byte)
Session == [by : Nat, received : Nat, path : Name, used : BOOLEAN]
Item    == [index : Nat, by : Nat, bytes : Seq(Byte)]
Steps   == {"store", "copy", "unstage", "list", "recheck"}
Commit  == [entry : Item, source : Nat, step : Steps]

\* No role has two turns in one phase: the engine's phases are one turn a side.
ASSUME CaseFilesAssumption ==
  /\ IsFiniteSet(Runs) /\ None \notin Runs \cup Session \cup Commit
  /\ MaxUploads \in Nat /\ Size \in Nat \ {0} /\ MaxPerSide \in Nat
  /\ Opportunities \in Seq([role : STRING, phase : STRING]) /\ Opportunities # <<>>
  /\ IsInjective(Opportunities)

VARIABLES
  pc,        \* where each run stands
  claim,     \* the claim file, and who made it, or None
  temps,     \* runs whose temporary case manifest is in the directory
  manifest,  \* the run whose case manifest is in the directory, or None
  turn,      \* the number of the turn, and is it open, late, cancelled or over
  sessions,  \* rc.uploadSessions: one record per upload begun, or None
  evidence,  \* rc.submittedEvidence, and with it rc.evidence
  commit,    \* the submission being committed and its next step, or None
  disk,      \* staging files, evidence store and submitted copies
  listed     \* the evidence in evidence-manifest.json

dirVars  == <<claim, temps, manifest>>
caseVars == <<turn, sessions, evidence, commit, disk, listed>>
vars     == <<pc, dirVars, caseVars>>

Uploads == 1 .. MaxUploads
Opp     == Opportunities[turn.number]

\* The bytes from place first to place last of a document sent in turn t.
Bytes(t, first, last) == [i \in 1 .. last + 1 - first |-> <<t, first + i - 1>>]
Document(t) == Bytes(t, 1, Size)

\* Names: staging files by session, stored files by content, copies by entry.
Staged(u)  == <<"staging", u, 0, <<>>>>
Stored(e)  == <<"store", 0, 0, e.bytes>>
Copied(e)  == <<"copy", e.index, e.by, e.bytes>>
Temporary  == <<"temporary", 0, 0, <<>>>>

Exists(name) == name \in DOMAIN disk
With(f, name, bytes) ==
  [n \in DOMAIN f \cup {name} |-> IF n = name THEN bytes ELSE f[n]]
Without(f, name) == [n \in DOMAIN f \ {name} |-> f[n]]

Init ==
  /\ pc = [r \in Runs |-> "look"]
  /\ claim = None /\ temps = {} /\ manifest = None
  /\ turn = [number |-> 1, is |-> "open"]
  /\ sessions = [u \in Uploads |-> None]
  /\ evidence = {} /\ commit = None /\ disk = <<>> /\ listed = {}

Goto(r, at) == pc' = [pc EXCEPT ![r] = at]

-----------------------------------------------------------------------------
(* Claiming the directory.                                                 *)

NoCaseFiles == temps = {} /\ manifest = None

\* prepareOutputDir: the directory must be there and empty.
Look(r) ==
  /\ pc[r] = "look"
  /\ \/ NoCaseFiles /\ claim = None /\ Goto(r, "claim")
     \/ Goto(r, "ended")
  /\ UNCHANGED <<dirVars, caseVars>>

\* O_EXCL creates the claim for one run only; an error on close gives it up.
Claim(r) ==
  /\ pc[r] = "claim"
  /\ \/ claim = None /\ claim' = r /\ pc' \in {[pc EXCEPT ![r] = at] : at \in {"check", "unclaim"}}
     \/ claim' = claim /\ Goto(r, "ended")
  /\ UNCHANGED <<temps, manifest, caseVars>>

\* Mutant: the empty directory seen before the claim is taken for granted.
OnlyClaimAssumed == TRUE

\* The directory is read again under the claim: it must hold nothing else.
OnlyClaim == NoCaseFiles

Check(r) ==
  /\ pc[r] = "check"
  /\ \/ OnlyClaim /\ Goto(r, "write")
     \/ Goto(r, "unclaim")
  /\ UNCHANGED <<dirVars, caseVars>>

\* WriteAtomic: the temporary file, then its rename over the manifest; after an
\* error the temporary file is removed, if it can be, and the claim too.
WriteTemp(r) ==
  /\ pc[r] = "write"
  /\ \/ temps' = temps \cup {r} /\ Goto(r, "rename")
     \/ temps' \in {temps, temps \cup {r}} /\ Goto(r, "unclaim")
  /\ UNCHANGED <<claim, manifest, caseVars>>

Rename(r) ==
  /\ pc[r] = "rename"
  /\ \/ manifest' = r /\ temps' = temps \ {r} /\ Goto(r, "release")
     \/ temps' \in {temps, temps \ {r}} /\ Goto(r, "unclaim") /\ UNCHANGED manifest
  /\ UNCHANGED <<claim, caseVars>>

\* removeOutputDirClaim, by path; the run goes on only from a written manifest
\* and a removed claim.
Release(r) ==
  /\ pc[r] \in {"release", "unclaim"}
  /\ \/ claim' = None /\ Goto(r, IF pc[r] = "release" THEN "serve" ELSE "ended")
     \/ claim' = claim /\ Goto(r, "ended")
  /\ UNCHANGED <<temps, manifest, caseVars>>

-----------------------------------------------------------------------------
(* The run that has it: turns and upload sessions.                         *)

Serving(r) == pc[r] = "serve" /\ commit = None
InTurn(r)  == Serving(r) /\ turn.is = "open"
Evidences  == Opp.phase \in {"arguments", "rebuttals", "surrebuttals"}

\* The turn was answered or failed, by a handler or by its timer.
EndTurn(r) ==
  /\ Serving(r) /\ turn.is \in {"open", "late"}
  /\ turn' = [turn EXCEPT !.is = "over"]
  /\ UNCHANGED <<pc, dirVars, sessions, evidence, commit, disk, listed>>

NextTurn(r) ==
  /\ Serving(r) /\ turn.is = "over"
  /\ IF turn.number < Len(Opportunities)
     THEN turn' = [number |-> turn.number + 1, is |-> "open"] /\ UNCHANGED pc
     ELSE Goto(r, "ended") /\ UNCHANGED turn
  /\ UNCHANGED <<dirVars, sessions, evidence, commit, disk, listed>>

\* turn.deadline passes or the case's context ends, also during a commit; a
\* cancelled run that is committing nothing returns.
Interrupted ==
  /\ turn.is = "open" /\ \E r \in Runs : pc[r] = "serve"
  /\ turn' \in {[turn EXCEPT !.is = "late"], [turn EXCEPT !.is = "cancelled"]}
  /\ UNCHANGED <<pc, dirVars, sessions, evidence, commit, disk, listed>>

Cancelled(r) ==
  /\ Serving(r) /\ turn.is = "cancelled" /\ Goto(r, "ended")
  /\ UNCHANGED <<dirVars, caseVars>>

SubmittedBy(role) == {e \in evidence : Opportunities[e.by].role = role}
MaySubmit == Evidences /\ Cardinality(SubmittedBy(Opp.role)) < MaxPerSide

\* beginEvidenceUpload
Begin(r, u) ==
  /\ InTurn(r) /\ MaySubmit
  /\ sessions[u] = None /\ \A v \in 1 .. u - 1 : sessions[v] # None
  /\ sessions' = [sessions EXCEPT ![u] =
                    [by |-> turn.number, received |-> 0, path |-> Staged(u), used |-> FALSE]]
  /\ UNCHANGED <<pc, dirVars, turn, evidence, commit, disk, listed>>

\* Mutant: the role alone is compared.
OwnedByRole(s) == Opportunities[s.by].role = Opp.role

\* validateUploadSessionAuthority
Owned(s) == Opportunities[s.by] = Opp

Open(u) == sessions[u] # None /\ ~sessions[u].used
Visible(s) == IF Exists(s.path) THEN Len(disk[s.path]) ELSE 0

\* writeEvidenceChunk of n bytes at offset, of which written reach the file.  A
\* short or failed write keeps what was written and ends the run.
WriteChunk(r, u, offset, n, written) ==
  LET s == sessions[u]
      old == IF Exists(s.path) THEN disk[s.path] ELSE <<>>
  IN /\ InTurn(r) /\ Evidences /\ Open(u) /\ Owned(s)
     /\ offset = Visible(s) /\ s.received <= Visible(s)
     /\ offset + n <= Size /\ written <= n
     /\ disk' = With(disk, s.path, old \o Bytes(turn.number, offset + 1, offset + written))
     /\ sessions' = [sessions EXCEPT ![u].received = offset + written]
     /\ IF written = n THEN UNCHANGED pc ELSE Goto(r, "ended")
     /\ UNCHANGED <<dirVars, turn, evidence, commit, listed>>

-----------------------------------------------------------------------------
(* commitEvidenceSubmissionLocked, step by step.                           *)

Entry(by, bytes) == [index |-> Cardinality(evidence) + 1, by |-> by, bytes |-> bytes]

StartCommit(by, bytes, source) ==
  commit' = [entry |-> Entry(by, bytes), source |-> source, step |-> "store"]

\* prepareEvidenceUploadCommit: the session's own turn, complete on both sides.
CommitUpload(r, u) ==
  /\ InTurn(r) /\ MaySubmit /\ Open(u) /\ Owned(sessions[u])
  /\ sessions[u].received = Size /\ Visible(sessions[u]) = Size
  /\ StartCommit(sessions[u].by, disk[sessions[u].path], u)
  /\ UNCHANGED <<pc, dirVars, turn, sessions, evidence, disk, listed>>

\* submit_evidence: the document comes whole, with no session.
Submit(r) ==
  /\ InTurn(r) /\ MaySubmit
  /\ StartCommit(turn.number, Document(turn.number), 0)
  /\ UNCHANGED <<pc, dirVars, turn, sessions, evidence, disk, listed>>

Committing(r, steps) == pc[r] = "serve" /\ commit # None /\ commit.step \in steps
AtStep(step) == commit' = [commit EXCEPT !.step = step]
Target == IF commit.step = "store" THEN Stored(commit.entry) ELSE Copied(commit.entry)

\* publishSubmittedEvidence: the store, then the copy; then the staging file goes.
Following(step) ==
  IF step = "store" THEN "copy" ELSE IF commit.source = 0 THEN "list" ELSE "unstage"

\* publishReaderAtomic writes under a temporary name.
WrittenTo == Temporary

\* A file already there is verified and kept.
KeepPublished(r) ==
  /\ Committing(r, {"store", "copy"})
  /\ Exists(Target) /\ disk[Target] = commit.entry.bytes
  /\ AtStep(Following(commit.step))
  /\ UNCHANGED <<pc, dirVars, turn, sessions, evidence, disk, listed>>

PublishTemp(r, written) ==
  /\ Committing(r, {"store", "copy"}) /\ ~Exists(Target) /\ ~Exists(Temporary)
  /\ disk' = With(disk, WrittenTo, SubSeq(commit.entry.bytes, 1, written))
  /\ UNCHANGED <<pc, dirVars, turn, sessions, evidence, commit, listed>>

\* Written in full and synced, the file gets its name.
Link(r) ==
  /\ Committing(r, {"store", "copy"}) /\ ~Exists(Target)
  /\ Exists(Temporary) /\ disk[Temporary] = commit.entry.bytes
  /\ disk' = With(Without(disk, Temporary), Target, commit.entry.bytes)
  /\ AtStep(Following(commit.step))
  /\ UNCHANGED <<pc, dirVars, turn, sessions, evidence, listed>>

\* The published upload is dropped and its session points to the copy.
Unstage(r) ==
  /\ Committing(r, {"unstage"})
  /\ disk' = Without(disk, sessions[commit.source].path)
  /\ sessions' = [sessions EXCEPT ![commit.source].path = Copied(commit.entry)]
  /\ AtStep("list")
  /\ UNCHANGED <<pc, dirVars, turn, evidence, listed>>

\* writeEvidenceManifestCandidate, by rename.
List(r) ==
  /\ Committing(r, {"list"})
  /\ listed' = evidence \cup {commit.entry}
  /\ AtStep("recheck")
  /\ UNCHANGED <<pc, dirVars, turn, sessions, evidence, disk>>

\* Still in time: the submission is the case's, and its session is deleted.  If
\* its event cannot be recorded the run ends with it.
Accept(r) ==
  /\ Committing(r, {"recheck"}) /\ turn.is = "open"
  /\ evidence' = evidence \cup {commit.entry}
  /\ sessions' = [u \in Uploads |->
       IF u = commit.source THEN [sessions[u] EXCEPT !.used = TRUE] ELSE sessions[u]]
  /\ commit' = None
  /\ UNCHANGED pc \/ Goto(r, "ended")
  /\ UNCHANGED <<dirVars, turn, disk, listed>>

\* writeEvidenceManifestCandidate(rc.evidence)
Restored == listed' = evidence

\* Too late or cancelled: the manifest is put back.  A missed deadline fails the
\* opportunity, a cancellation ends the run, and so does a failed restore.
Restore(r) ==
  /\ Committing(r, {"recheck"}) /\ turn.is # "open"
  /\ \/ Restored /\ turn' = [turn EXCEPT !.is = "over"]
        /\ IF turn.is = "late" THEN UNCHANGED pc ELSE Goto(r, "ended")
     \/ Goto(r, "ended") /\ UNCHANGED <<turn, listed>>
  /\ commit' = None
  /\ UNCHANGED <<dirVars, sessions, evidence, disk>>

\* An error of a file operation ends the turn and the run; the temporary file
\* is removed if it can be.
CommitFails(r) ==
  /\ Committing(r, {"store", "copy", "unstage", "list"})
  /\ Goto(r, "ended")
  /\ disk' \in {disk, Without(disk, Temporary)}
  /\ UNCHANGED <<dirVars, turn, sessions, evidence, commit, listed>>

-----------------------------------------------------------------------------
Crash(r) ==
  /\ pc[r] # "ended" /\ Goto(r, "ended")
  /\ UNCHANGED <<dirVars, caseVars>>

Next ==
  \/ Interrupted
  \/ \E r \in Runs :
       \/ Look(r) \/ Claim(r) \/ Check(r) \/ WriteTemp(r) \/ Rename(r) \/ Release(r)
       \/ EndTurn(r) \/ NextTurn(r) \/ Cancelled(r) \/ Submit(r)
       \/ \E u \in Uploads :
            \/ Begin(r, u) \/ CommitUpload(r, u)
            \/ \E offset \in 0 .. Size, n \in 1 .. Size, written \in 0 .. Size :
                 WriteChunk(r, u, offset, n, written)
       \/ KeepPublished(r) \/ Link(r)
       \/ \E written \in 0 .. Size : PublishTemp(r, written)
       \/ Unstage(r) \/ List(r) \/ Accept(r) \/ Restore(r) \/ CommitFails(r)
       \/ Crash(r)

Spec == Init /\ [][Next]_vars

-----------------------------------------------------------------------------
\* A run that writes or has written its case manifest is alone with it: no other
\* run is past the check, and the directory holds no case file of another's,
\* whatever each saw before its claim and wherever runs were killed
\* (prepareOutputDir, claimOutputDir, writeInitialCaseManifest).
OneOwner ==
  \A r \in Runs : pc[r] \in {"write", "rename", "release", "serve"} =>
    /\ \A s \in Runs \ {r} : pc[s] \notin {"write", "rename", "release", "serve"}
    /\ temps \subseteq {r} /\ manifest \in {None, r}

PublishedWhole ==
  \A n \in DOMAIN disk : n[1] \in {"store", "copy"} => disk[n] = n[4]

\* What the evidence manifest lists is on disk, as a stored file and a copy, and
\* is the whole document sent in the opportunity it is entered under, whatever
\* was uploaded across turns, written short or killed midway; what was accepted
\* stays listed, within each side's limit, and a live run between submissions
\* lists nothing else.
EvidenceOnDisk ==
  /\ PublishedWhole
  /\ evidence \subseteq listed
  /\ \A e \in listed :
       /\ {Stored(e), Copied(e)} \subseteq DOMAIN disk
       /\ e.bytes = Document(e.by)
  /\ \A o \in Range(Opportunities) : Cardinality(SubmittedBy(o.role)) <= MaxPerSide
  /\ (\E r \in Runs : Serving(r)) => listed = evidence
=============================================================================
