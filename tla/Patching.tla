------------------------------ MODULE Patching ------------------------------
(***************************************************************************)
(* The life of one patch session: prepared against a pinned revision of a  *)
(* source tree, applied to a workspace of its own, rolled back from a      *)
(* backup.  Everything is in files, several processes may call apply and   *)
(* rollback (one at a time, under the session's lock), any of them may be  *)
(* killed between two file operations, an operation may fail, and people   *)
(* go on editing the source tree and the workspace meanwhile.              *)
(*                                                                         *)
(* Abstracted: a file's content is one of a few values that digests tell   *)
(* apart; the unified diff (the files it changes and what it makes of      *)
(* each); limits, path rules and secret scanning, which refuse a patch     *)
(* before anything is written; directories, listed with their files.       *)
(* Who may call apply and rollback is ApprovalGate's part.                 *)
(***************************************************************************)
EXTENDS Naturals, Sequences, FiniteSets

CONSTANTS Callers,   \* processes with a PatchWorkspaceManager
          Files,     \* the files the diff changes, in its order
          Created,   \* those it creates
          Evidence,  \* files whose digest the diagnosis names
          MaxEdits   \* bound on edits by other people

Changed == {Files[i] : i \in DOMAIN Files}

ASSUME CreatedAreChanged == Created \subseteq Changed /\ Evidence \subseteq Changed

(* _parse_patch: a diff that names a file twice is refused.                *)
ASSUME FilesOnce ==
  /\ Files \in Seq(Changed)
  /\ \A i, j \in DOMAIN Files : Files[i] = Files[j] => i = j
ASSUME SomeEdits == MaxEdits \in Nat

VARIABLES
  source,    \* the configured source tree
  session,   \* metadata.json: status and digests of originals and proposals
  workspace, \* <patch_id>/workspace
  backup,    \* <patch_id>/rollback
  lock,      \* who holds .mutation.lock
  call,      \* locals of each caller's operation
  edited,    \* history: files of the workspace that somebody else changed
  edits      \* how many edits were made so far

vars == <<source, session, workspace, backup, lock, call, edited, edits>>

(* "old" is the content at the pinned revision, "endings" the same lines   *)
(* with other line endings, "new" what the diff makes of either, "other"   *)
(* what else people write, "odd" what the diff makes of that.              *)
Contents == {"absent", "blank", "old", "endings", "new", "other", "odd"}
Trees == [made : BOOLEAN, file : [Changed -> Contents]]
NoTree == [made |-> FALSE, file |-> [f \in Changed |-> "absent"]]
Idle == [pc |-> "idle", next |-> 1, orig |-> NoTree.file, prop |-> NoTree.file,
         working |-> NoTree.file]
Nobody == "nobody"

ASSUME NobodyIsNoCaller == Nobody \notin Callers

Pinned == [f \in Changed |-> IF f \in Created THEN "absent" ELSE "old"]

(* The bytes an operation reads as the original of f: none for a new file. *)
Original(f) == IF f \in Created THEN "blank" ELSE source[f]

(* What people may put into the source tree in f's place.                  *)
Sources(f) == {Pinned[f], "other"} \cup (IF f \in Created THEN {} ELSE {"endings"})

(* _apply_file_patch splits the text into lines and joins them, which      *)
(* makes all line endings the same; other differences stay in the result,  *)
(* where the context does not refuse them.                                 *)
Patched(c) == CASE c \in {"old", "endings", "blank"} -> "new"
                [] OTHER -> "odd"

(* What rolling back leaves of f.                                          *)
Restored(f) == IF f \in Created THEN "absent" ELSE session.orig[f]

Init ==
  /\ source = Pinned
  /\ session = [status |-> "NONE", orig |-> NoTree.file, prop |-> NoTree.file]
  /\ workspace = NoTree /\ backup = NoTree
  /\ lock = Nobody
  /\ call = [c \in Callers |-> Idle]
  /\ edited = [f \in Changed |-> "no"]
  /\ edits = 0

Current(c) == Files[call[c].next]
AllDone(c) == call[c].next > Len(Files)
At(c, pc) == call[c].pc = pc
Move(c, pc) == call' = [call EXCEPT ![c].pc = pc]
NextFile(c, pc) == [call EXCEPT ![c].pc = pc, ![c].next = @ + 1]

(* The operation is over and, if it had one, its lock is released.         *)
Return(c) ==
  /\ call' = [call EXCEPT ![c] = Idle]
  /\ lock' = IF lock = c THEN Nobody ELSE lock

-----------------------------------------------------------------------------
(* Prepare                                                                 *)

(* The tree is at the revision the caller names.  One session is modelled. *)
Prepare(c) ==
  /\ At(c, "idle") /\ session.status = "NONE"
  /\ \A d \in Callers : At(d, "idle")
  /\ source = Pinned
  /\ Move(c, "prepare")
  /\ UNCHANGED <<source, session, workspace, backup, lock, edited, edits>>

PrepareFile(c) ==
  /\ At(c, "prepare") /\ ~AllDone(c)
  /\ LET f == Current(c)
         changed == [call EXCEPT ![c].next = @ + 1, ![c].orig[f] = Original(f),
                                 ![c].prop[f] = Patched(Original(f))]
     IN  \/ /\ call' = changed
            /\ UNCHANGED lock
         \/ /\ Patched(Original(f)) = "odd"
            /\ Return(c)
  /\ UNCHANGED <<source, session, workspace, backup, edited, edits>>

(* _diagnosis_link: the digests it names are still those of the files.     *)
EvidenceCurrent == \A f \in Evidence : source[f] = Pinned[f]

(* The session is written, unless the evidence is stale by now.            *)
PrepareEnds(c) ==
  /\ At(c, "prepare") /\ AllDone(c)
  /\ IF EvidenceCurrent
     THEN session' = [status |-> "PREPARED", orig |-> call[c].orig, prop |-> call[c].prop]
     ELSE UNCHANGED session
  /\ Return(c)
  /\ UNCHANGED <<source, workspace, backup, edited, edits>>

-----------------------------------------------------------------------------
(* Apply                                                                   *)

(* _load_metadata finds a session and _session_lock gets its turn.         *)
Lock(c, pc) ==
  /\ At(c, "idle") /\ session.status # "NONE" /\ lock = Nobody
  /\ lock' = c
  /\ Move(c, pc)
  /\ UNCHANGED <<source, session, workspace, backup, edited, edits>>

Apply(c) == Lock(c, "apply")

(* Not PREPARED, another revision, or a workspace that is there already.   *)
ApplyRefused(c) ==
  /\ At(c, "apply")
  /\ session.status # "PREPARED" \/ source # Pinned \/ workspace.made
  /\ Return(c)
  /\ UNCHANGED <<source, session, workspace, backup, edited, edits>>

ApplyBegins(c) ==
  /\ At(c, "apply")
  /\ session.status = "PREPARED" /\ source = Pinned /\ ~workspace.made
  /\ workspace' = [NoTree EXCEPT !.made = TRUE]
  /\ edited' = [f \in Changed |-> "no"]
  /\ Move(c, "copy")
  /\ UNCHANGED <<source, session, backup, lock, edits>>

(* The original is read and written, unless something is in its place.     *)
CopyOriginal(c) ==
  /\ At(c, "copy") /\ ~AllDone(c)
  /\ LET f == Current(c)
     IN  /\ workspace.file[f] = "absent"
         /\ workspace' = [workspace EXCEPT !.file[f] = Original(f)]
         /\ call' = [call EXCEPT ![c].pc = "patch", ![c].orig[f] = Original(f)]
  /\ UNCHANGED <<source, session, backup, lock, edited, edits>>

WriteProposed(c) ==
  /\ At(c, "patch")
  /\ LET f == Current(c)
         p == Patched(call[c].orig[f])
     IN  /\ workspace' = [workspace EXCEPT !.file[f] = p]
         /\ call' = [NextFile(c, "copy") EXCEPT ![c].prop[f] = p]
  /\ UNCHANGED <<source, session, backup, lock, edited, edits>>

(* Mutant of IntegrityHolds: the files are compared by name only.          *)
IntegrityByName(c) == \A f \in Changed : call[c].prop[f] # "absent"

IntegrityHolds(c) == call[c].prop = session.prop

(* The proposals are the prepared ones; the backup directory is created.   *)
BackUp(c) ==
  /\ At(c, "copy") /\ AllDone(c)
  /\ IntegrityHolds(c) /\ ~backup.made
  /\ backup' = [NoTree EXCEPT !.made = TRUE]
  /\ call' = [call EXCEPT ![c].pc = "backup", ![c].next = 1]
  /\ UNCHANGED <<source, session, workspace, lock, edited, edits>>

BackUpFile(c) ==
  /\ At(c, "backup") /\ ~AllDone(c)
  /\ backup' = [backup EXCEPT !.file[Current(c)] = call[c].orig[Current(c)]]
  /\ call' = NextFile(c, "backup")
  /\ UNCHANGED <<source, session, workspace, lock, edited, edits>>

ApplyEnds(c) ==
  /\ At(c, "backup") /\ AllDone(c)
  /\ session' = [session EXCEPT !.status = "APPLIED"]
  /\ Return(c)
  /\ UNCHANGED <<source, workspace, backup, edited, edits>>

(* Any exception after the workspace was created, a full disk at any step  *)
(* or one of the checks: the workspace goes, the backup stays.             *)
ApplyFails(c) ==
  /\ call[c].pc \in {"copy", "patch", "backup"}
  /\ workspace' = NoTree
  /\ Return(c)
  /\ UNCHANGED <<source, session, backup, edited, edits>>

-----------------------------------------------------------------------------
(* Rollback                                                                *)

Rollback(c) == Lock(c, "rollback")

AsApplied == workspace.made /\ workspace.file = session.prop
BackupIntact == \A f \in Changed \ Created : backup.file[f] = session.orig[f]

(* Mutant of RollbackRefused: the early exit is outside the lock's scope.  *)
RollbackRefusedHolding(c) ==
  /\ At(c, "rollback")
  /\ session.status # "APPLIED" \/ ~AsApplied \/ ~BackupIntact
  /\ call' = [call EXCEPT ![c] = Idle]
  /\ UNCHANGED <<source, session, workspace, backup, lock, edited, edits>>

RollbackRefused(c) ==
  /\ At(c, "rollback")
  /\ session.status # "APPLIED" \/ ~AsApplied \/ ~BackupIntact
  /\ Return(c)
  /\ UNCHANGED <<source, session, workspace, backup, edited, edits>>

RollbackBegins(c) ==
  /\ At(c, "rollback")
  /\ session.status = "APPLIED" /\ AsApplied /\ BackupIntact
  /\ call' = [call EXCEPT ![c].pc = "snapshot", ![c].working = session.prop]
  /\ UNCHANGED <<source, session, workspace, backup, lock, edited, edits>>

(* Before each file the whole workspace must be what this rollback left.   *)
Snapshot(c) ==
  /\ At(c, "snapshot") /\ ~AllDone(c)
  /\ IF workspace.file = call[c].working
     THEN Move(c, "compare") /\ UNCHANGED lock
     ELSE Return(c)
  /\ UNCHANGED <<source, session, workspace, backup, edited, edits>>

(* Mutant of Unchanged: the snapshot of the workspace is trusted.          *)
UnchangedSinceSnapshot(c) == TRUE

Unchanged(c) == workspace.file[Current(c)] = call[c].working[Current(c)]

(* The digest of the file itself, read by _safe_write and _safe_delete.    *)
Compare(c) ==
  /\ At(c, "compare")
  /\ IF Unchanged(c)
     THEN Move(c, "restore") /\ UNCHANGED lock
     ELSE Return(c)
  /\ UNCHANGED <<source, session, workspace, backup, edited, edits>>

(* Mutant of RestoredTo: a created file gets its empty original back.      *)
RestoredFromBackup(f) == backup.file[f]

RestoredTo(f) == IF f \in Created THEN "absent" ELSE backup.file[f]

RestoreFile(c) ==
  /\ At(c, "restore")
  /\ workspace' = [workspace EXCEPT !.file[Current(c)] = RestoredTo(Current(c))]
  /\ Move(c, "note")
  /\ UNCHANGED <<source, session, backup, lock, edited, edits>>

(* What is there now is what the next snapshot has to find.                *)
NoteFiles(c) ==
  /\ At(c, "note")
  /\ call' = [NextFile(c, "snapshot") EXCEPT ![c].working = workspace.file]
  /\ UNCHANGED <<source, session, workspace, backup, lock, edited, edits>>

RollbackConfirmed(c) ==
  /\ At(c, "snapshot") /\ AllDone(c)
  /\ IF workspace.file = call[c].working
     THEN Move(c, "commit") /\ UNCHANGED lock
     ELSE Return(c)
  /\ UNCHANGED <<source, session, workspace, backup, edited, edits>>

RollbackEnds(c) ==
  /\ At(c, "commit")
  /\ session' = [session EXCEPT !.status = "ROLLED_BACK"]
  /\ Return(c)
  /\ UNCHANGED <<source, workspace, backup, edited, edits>>

-----------------------------------------------------------------------------
(* The surroundings                                                        *)

(* An I/O error inside rollback, or the process is killed: nothing is      *)
(* tidied up, and the kernel drops the lock of a process that dies.        *)
Crash(c) ==
  /\ ~At(c, "idle")
  /\ Return(c)
  /\ UNCHANGED <<source, session, workspace, backup, edited, edits>>

EditSource(f) ==
  /\ edits < MaxEdits /\ edits' = edits + 1
  /\ \E b \in Sources(f) \ {source[f]} : source' = [source EXCEPT ![f] = b]
  /\ UNCHANGED <<session, workspace, backup, lock, call, edited>>

(* A caller has compared f and not written it yet; or it is restoring      *)
(* another file, has taken the snapshot before and not the one after.      *)
Restoring(c) == call[c].pc \in {"compare", "restore", "note"}

InWindow(f) ==
  \E c \in Callers : Restoring(c) /\ (Current(c) = f => At(c, "restore"))

EditWorkspace(f) ==
  /\ edits < MaxEdits /\ edits' = edits + 1
  /\ workspace.made /\ workspace.file[f] # "other"
  /\ workspace' = [workspace EXCEPT !.file[f] = "other"]
  /\ edited' = [edited EXCEPT ![f] = IF InWindow(f) THEN "late" ELSE "seen"]
  /\ UNCHANGED <<source, session, backup, lock, call>>

ApplySteps(c) ==
  \/ Apply(c) \/ ApplyRefused(c) \/ ApplyBegins(c) \/ CopyOriginal(c) \/ WriteProposed(c)
  \/ BackUp(c) \/ BackUpFile(c) \/ ApplyEnds(c) \/ ApplyFails(c)

RollbackSteps(c) ==
  \/ Rollback(c) \/ RollbackRefused(c) \/ RollbackBegins(c) \/ Snapshot(c) \/ Compare(c)
  \/ RestoreFile(c) \/ NoteFiles(c) \/ RollbackConfirmed(c) \/ RollbackEnds(c)

Next ==
  \/ \E c \in Callers :
       \/ Prepare(c) \/ PrepareFile(c) \/ PrepareEnds(c)
       \/ ApplySteps(c) \/ RollbackSteps(c) \/ Crash(c)
  \/ \E f \in Changed : EditSource(f) \/ EditWorkspace(f)

Spec == Init /\ [][Next]_vars

-----------------------------------------------------------------------------

Pcs == {"idle", "prepare", "apply", "copy", "patch", "backup", "rollback",
        "snapshot", "compare", "restore", "note", "commit"}
Bytes == [Changed -> Contents]
Sessions == [status : {"NONE", "PREPARED", "APPLIED", "ROLLED_BACK"},
             orig : Bytes, prop : Bytes]
Calls == [pc : Pcs, next : 1 .. Len(Files) + 1, orig : Bytes, prop : Bytes, working : Bytes]

(* Every variable has its type, and whoever works on the session holds its *)
(* lock: _session_lock, patching.py:535.                                   *)
TypeOK ==
  /\ source \in Bytes
  /\ session \in Sessions
  /\ workspace \in Trees /\ backup \in Trees
  /\ lock \in Callers \cup {Nobody}
  /\ call \in [Callers -> Calls]
  /\ \A c \in Callers : call[c].pc \notin {"idle", "prepare"} <=> lock = c
  /\ edited \in [Changed -> {"no", "seen", "late"}]
  /\ edits \in 0 .. MaxEdits

(* APPLIED in metadata.json, whatever crashes, failures and edits of the   *)
(* source came between: every file has an original in the backup of which  *)
(* the diff makes what was prepared for review, and it holds the proposal, *)
(* is restored by a rollback that was cut short, or was edited by somebody *)
(* else.  The original in the backup need not be the one prepared: apply   *)
(* compares the digests of the proposals only (patching.py:736), which     *)
(* line endings do not change, and rollback then refuses the backup        *)
(* (patching.py:803).                                                      *)
AppliedAsPrepared ==
  session.status = "APPLIED" =>
    \A f \in Changed :
      /\ backup.file[f] # "absent" /\ Patched(backup.file[f]) = session.prop[f]
      /\ \/ workspace.file[f] \in {session.prop[f], Restored(f)}
         \/ edited[f] # "no"

(* ROLLED_BACK in metadata.json: no file that was left alone still has the *)
(* patch, and no file that the patch created is left over.                 *)
RolledBackIsOriginal ==
  session.status = "ROLLED_BACK" =>
    \A f \in Changed : workspace.file[f] = Restored(f) \/ edited[f] # "no"

(* A rollback that ends as ROLLED_BACK has overwritten nobody's change:    *)
(* "It refuses rollback on any concurrent workspace change"                *)
(* (docs/PHASE15C_SAFE_CODE_MODIFICATION.md:11).  False: what is written   *)
(* while another file is restored becomes part of the snapshot that the    *)
(* next file is compared with (patching.py:831), and what is written       *)
(* between a file's comparison and its replacement (patching.py:345, 360)  *)
(* is not looked at again.                                                 *)
ConcurrentChangeRefused ==
  session.status = "ROLLED_BACK" =>
    \A f \in Changed : edited[f] = "late" => workspace.file[f] = "other"

(* How far that goes: an edit of the workspace is overwritten by a         *)
(* rollback only if it was made in one of these two windows.  One that was *)
(* made before the rollback, between two of its files or just before a     *)
(* file is compared stops it, whatever was killed or failed before.        *)
EditsSurvive ==
  [][\A f \in Changed :
       workspace.file[f] = "other" /\ session.status = "APPLIED"
         => workspace'.file[f] = "other" \/ edited[f] = "late"]_vars
=============================================================================
