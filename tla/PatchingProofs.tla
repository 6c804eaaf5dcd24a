--------------------------- MODULE PatchingProofs ---------------------------
(***************************************************************************)
(* Theorems of Patching, for any callers, any diff and any number of edits *)
(* by other people: what the metadata say of the files holds whatever is   *)
(* killed or fails, and a rollback overwrites what somebody else wrote in  *)
(* the windows of InWindow only.                                           *)
(***************************************************************************)
EXTENDS Patching, TLAPS

Places == 1 .. Len(Files)

(* The contents _safe_read can return for f, and whether an operation has  *)
(* read f and what its patch makes of it.                                  *)
Originals(f) == IF f \in Created THEN {"blank"} ELSE {"old", "endings", "other"}
Seen(c, f) ==
  /\ call[c].orig[f] \in Originals(f)
  /\ call[c].prop[f] = Patched(call[c].orig[f])

Applying == {"copy", "patch", "backup"}
RollingBack == {"snapshot", "compare", "restore", "note", "commit"}

(* f holds what was prepared, or what rolling back makes of it, unless     *)
(* somebody else edited it; the backup has an original the patch is of.    *)
HasPatch(f) == workspace.file[f] = session.prop[f] \/ edited[f] # "no"
HasOriginal(f) == workspace.file[f] = Restored(f) \/ edited[f] # "no"
Saved(f) == backup.file[f] # "absent" /\ Patched(backup.file[f]) = session.prop[f]

(* While a session is prepared nobody does anything else.                  *)
PhaseInv ==
  /\ \A f \in Changed : source[f] \in Sources(f)
  /\ session.status = "NONE" => \A c \in Callers : call[c].pc \in {"idle", "prepare"}
  /\ \A c, d \in Callers : At(c, "prepare") => c = d \/ At(d, "idle")

(* A file is current wherever the code uses the current one, and the       *)
(* status stays while the lock is held.                                    *)
PointInv(c) ==
  /\ call[c].pc \in {"idle", "apply", "rollback"} => call[c].next = 1
  /\ call[c].pc \in {"patch", "compare", "restore", "note"} => call[c].next \in Places
  /\ At(c, "prepare") => session.status = "NONE"
  /\ call[c].pc \in Applying => session.status = "PREPARED"
  /\ call[c].pc \in RollingBack => session.status = "APPLIED"

(* What the session records is what the diff makes of what was read.       *)
RecordInv ==
  session.status # "NONE" =>
    \A f \in Changed : /\ session.orig[f] \in Originals(f)
                       /\ session.prop[f] = Patched(session.orig[f])

(* How far a preparation or an application has come.                       *)
ApplyInv(c) ==
  /\ call[c].pc \in {"prepare", "copy", "patch"} =>
       \A i \in Places : i < call[c].next => Seen(c, Files[i])
  /\ call[c].pc \in {"copy", "patch"} =>
       \A i \in Places : i < call[c].next =>
         workspace.file[Files[i]] = call[c].prop[Files[i]] \/ edited[Files[i]] # "no"
  /\ At(c, "patch") => call[c].orig[Current(c)] \in Originals(Current(c))
  /\ At(c, "backup") =>
       /\ call[c].prop = session.prop
       /\ \A f \in Changed : Seen(c, f) /\ HasPatch(f)
       /\ \A i \in Places : i < call[c].next => Saved(Files[i])

(* How far a rollback has come; it has checked what it restores from.      *)
RollbackInv(c) ==
  /\ call[c].pc \in RollingBack => BackupIntact
  /\ call[c].pc \in RollingBack =>
       \A i \in Places : i < call[c].next => HasOriginal(Files[i])
  /\ At(c, "note") => HasOriginal(Current(c))
  /\ At(c, "commit") => \A f \in Changed : HasOriginal(f)

(* What other people wrote into a file that a rollback still has to        *)
(* restore: either the next snapshot refuses it, or it was written late.   *)
Kept(f) == workspace.file[f] = "other" /\ edited[f] = "late"

EditInv(c) ==
  /\ call[c].pc \in {"snapshot", "compare", "restore"} =>
       \A i \in Places : i >= call[c].next /\ call[c].working[Files[i]] = "other" => Kept(Files[i])
  /\ Restoring(c) =>
       \A i \in Places : i > call[c].next /\ workspace.file[Files[i]] = "other" => Kept(Files[i])
  /\ At(c, "restore") /\ workspace.file[Current(c)] = "other" => Kept(Current(c))

CallInv(c) == PointInv(c) /\ ApplyInv(c) /\ RollbackInv(c) /\ EditInv(c)

FilesInv == RecordInv /\ AppliedAsPrepared /\ RolledBackIsOriginal

PatchInv == TypeOK /\ PhaseInv /\ FilesInv /\ \A c \in Callers : CallInv(c)

-----------------------------------------------------------------------------
(* Files and their contents *)

LEMMA Place ==
  /\ Len(Files) \in Nat /\ Places = DOMAIN Files
  /\ \A i \in Places : Files[i] \in Changed
  /\ \A f \in Changed : \E i \in Places : f = Files[i]
  /\ \A i, j \in Places : Files[i] = Files[j] => i = j
<1>1. Len(Files) \in Nat /\ Places = DOMAIN Files
  BY FilesOnce DEF Places
<1> QED
  BY <1>1, FilesOnce DEF Changed

LEMMA ContentsOf ==
  ASSUME NEW f \in Changed
  PROVE  /\ Pinned[f] \in Contents
         /\ Originals(f) \subseteq Contents
         /\ \A a \in Originals(f) : a # "absent" /\ Patched(a) \in {"new", "odd"}
         /\ Sources(f) \subseteq Contents
BY DEF Pinned, Originals, Patched, Contents, Sources

LEMMA OriginalIsOne ==
  ASSUME PhaseInv, NEW f \in Changed
  PROVE  Original(f) \in Originals(f)
BY DEF PhaseInv, Original, Originals, Pinned, Sources

-----------------------------------------------------------------------------
(* One at a time *)

(* c is the only one with an operation under way.                          *)
Alone(c) == \A d \in Callers \ {c} : At(d, "idle")

LEMMA ActiveIsAlone ==
  ASSUME PatchInv, NEW c \in Callers, ~At(c, "idle")
  PROVE  Alone(c)
<1> SUFFICES ASSUME NEW d \in Callers \ {c} PROVE At(d, "idle")
  BY DEF Alone
<1>1. CASE At(c, "prepare")
  BY <1>1 DEF PatchInv, PhaseInv
<1>2. CASE ~At(c, "prepare")
  <2>1. lock = c
    BY <1>2 DEF PatchInv, TypeOK, At
  <2>2. call[d].pc \in {"idle", "prepare"}
    BY <2>1 DEF PatchInv, TypeOK
  <2>3. ~At(d, "prepare")
    BY DEF PatchInv, PhaseInv, At
  <2> QED
    BY <2>2, <2>3 DEF At
<1> QED
  BY <1>1, <1>2

LEMMA LockedIsAlone ==
  ASSUME PatchInv, NEW c \in Callers, lock = Nobody, session.status # "NONE"
  PROVE  Alone(c)
<1> SUFFICES ASSUME NEW d \in Callers \ {c} PROVE At(d, "idle")
  BY DEF Alone
<1>1. call[d].pc \in {"idle", "prepare"}
  BY NobodyIsNoCaller DEF PatchInv, TypeOK
<1> QED
  BY <1>1 DEF PatchInv, CallInv, PointInv, At

(* Whoever is idle satisfies its part of the invariant.                    *)
LEMMA IdleCall ==
  ASSUME NEW c \in Callers, At(c, "idle"), call[c].next = 1
  PROVE  CallInv(c)
BY DEF CallInv, PointInv, ApplyInv, RollbackInv, EditInv, At, Applying, RollingBack, Restoring

(* What is left to show of a step of c alone.                              *)
LEMMA StepOfOne ==
  ASSUME PatchInv, NEW c \in Callers, Alone(c), TypeOK', FilesInv', CallInv(c)',
         \A d \in Callers \ {c} : call'[d] = call[d],
         UNCHANGED source, session'.status = "NONE" => call'[c].pc \in {"idle", "prepare"}
  PROVE  PatchInv'
<1>1. \A d \in Callers \ {c} : call'[d].pc = "idle" /\ call'[d].next = 1
  BY DEF Alone, PatchInv, CallInv, PointInv, At
<1>2. PhaseInv'
  BY <1>1 DEF PatchInv, PhaseInv, At
<1>3. ASSUME NEW d \in Callers \ {c} PROVE CallInv(d)'
  BY <1>1 DEF CallInv, PointInv, ApplyInv, RollbackInv, EditInv, At, Applying, RollingBack, Restoring
<1>4. \A d \in Callers : CallInv(d)'
  BY <1>3
<1> QED
  BY <1>2, <1>4 DEF PatchInv

(* A step that leaves the files alone leaves what is said of them.         *)
LEMMA SameFiles ==
  ASSUME PatchInv, UNCHANGED <<session, workspace, backup, edited>>
  PROVE  FilesInv'
BY DEF PatchInv, FilesInv, RecordInv, AppliedAsPrepared, RolledBackIsOriginal, Restored

(* A step that moves c, with lock' held as its new point demands, is typed.*)
LEMMA TypedStep ==
  ASSUME PatchInv, NEW c \in Callers, Alone(c), NEW r \in Calls,
         call' = [call EXCEPT ![c] = r],
         lock' = IF r.pc \in {"idle", "prepare"} THEN Nobody ELSE c,
         source' \in Bytes, session' \in Sessions, workspace' \in Trees, backup' \in Trees,
         edited' \in [Changed -> {"no", "seen", "late"}], UNCHANGED edits
  PROVE  TypeOK' /\ (\A d \in Callers \ {c} : call'[d] = call[d]) /\ call'[c] = r
BY NobodyIsNoCaller DEF PatchInv, TypeOK, Alone, At

LEMMA IdleIsCall == Idle \in Calls /\ Idle.pc = "idle" /\ Idle.next = 1
<1>1. NoTree.file \in Bytes /\ NoTree \in Trees
  BY DEF NoTree, Bytes, Contents, Trees
<1> QED
  BY <1>1, Place DEF Idle, Calls, Pcs

(* An operation that returns leaves nobody at work.                        *)
LEMMA Returned ==
  ASSUME PatchInv, NEW c \in Callers, ~At(c, "idle"), Return(c), FilesInv',
         UNCHANGED <<source, edits, edited>>, session' \in Sessions, workspace' \in Trees, UNCHANGED backup
  PROVE  PatchInv'
<1>1. Alone(c)
  BY ActiveIsAlone
<1>2. lock' = Nobody
  BY NobodyIsNoCaller DEF Return, PatchInv, TypeOK, PhaseInv, At
<1>3. TypeOK' /\ (\A d \in Callers \ {c} : call'[d] = call[d]) /\ call'[c] = Idle
  BY <1>1, <1>2, IdleIsCall, TypedStep DEF Return, PatchInv, TypeOK
<1>4. CallInv(c)'
  BY <1>3, IdleIsCall
     DEF CallInv, PointInv, ApplyInv, RollbackInv, EditInv, At, Applying, RollingBack, Restoring
<1> QED
  BY <1>1, <1>3, <1>4, StepOfOne, IdleIsCall

(* A step that changes only the point c is at, and the lock.               *)
LEMMA MovedStep ==
  ASSUME PatchInv, NEW c \in Callers, Alone(c), NEW pc \in Pcs, Move(c, pc),
         lock' = IF pc \in {"idle", "prepare"} THEN Nobody ELSE c,
         UNCHANGED <<source, session, workspace, backup, edited, edits>>
  PROVE  /\ TypeOK' /\ FilesInv'
         /\ \A d \in Callers \ {c} : call'[d] = call[d]
         /\ call'[c] = [call[c] EXCEPT !.pc = pc]
<1> DEFINE r == [call[c] EXCEPT !.pc = pc]
<1>1. call \in [Callers -> Calls]
  BY DEF PatchInv, TypeOK
<1>2. r \in Calls /\ r.pc = pc /\ call' = [call EXCEPT ![c] = r]
  BY <1>1 DEF Move, Calls
<1> HIDE DEF r
<1>3. TypeOK' /\ (\A d \in Callers \ {c} : call'[d] = call[d]) /\ call'[c] = r
  BY <1>2, TypedStep DEF PatchInv, TypeOK
<1> QED
  BY <1>3, SameFiles DEF r

(* The steps of c, in the order of the code.                               *)
LEMMA PrepareStep == ASSUME PatchInv, NEW c \in Callers, Prepare(c) PROVE PatchInv'
<1>1. Alone(c)
  BY DEF Prepare, Alone
<1>2. lock = Nobody
  BY DEF Prepare, PatchInv, TypeOK, At
<1>3. /\ TypeOK' /\ FilesInv'
      /\ \A d \in Callers \ {c} : call'[d] = call[d]
      /\ call'[c] = [call[c] EXCEPT !.pc = "prepare"]
  BY <1>1, <1>2, MovedStep DEF Prepare, Pcs
<1>4. call[c].next = 1 /\ call[c] \in Calls
  BY DEF Prepare, PatchInv, CallInv, PointInv, At, TypeOK
<1>5. call'[c].next = 1 /\ call'[c].pc = "prepare"
  BY <1>3, <1>4 DEF Calls
<1>6. CallInv(c)'
  BY <1>5 DEF Prepare, CallInv, PointInv, ApplyInv, RollbackInv, EditInv, At, Applying,
              RollingBack, Restoring, Places
<1> QED
  BY <1>1, <1>3, <1>5, <1>6, StepOfOne DEF Prepare

LEMMA PrepareFileStep == ASSUME PatchInv, NEW c \in Callers, PrepareFile(c) PROVE PatchInv'
<1> DEFINE f == Current(c)
           k == call[c].next
           r == [call[c] EXCEPT !.next = @ + 1, !.orig[f] = Original(f),
                                !.prop[f] = Patched(Original(f))]
<1>1. Alone(c)
  BY ActiveIsAlone DEF PrepareFile, At
<1>2. CASE Return(c)
  BY <1>2, Returned, SameFiles DEF PrepareFile, At, PatchInv, TypeOK
<1>3. CASE call' = [call EXCEPT ![c].next = @ + 1, ![c].orig[f] = Original(f),
                                ![c].prop[f] = Patched(Original(f))] /\ UNCHANGED lock
  <2>1. call \in [Callers -> Calls] /\ call[c] \in Calls
    BY DEF PatchInv, TypeOK
  <2>2. k \in Places /\ f \in Changed /\ f = Files[k]
    BY <2>1, Place DEF PrepareFile, AllDone, Current, Calls, Places
  <2>3. Original(f) \in Originals(f) /\ Original(f) \in Contents /\ Patched(Original(f)) \in Contents
    BY <2>2, OriginalIsOne, ContentsOf DEF PatchInv, Contents
  <2>4. /\ r.pc = "prepare" /\ r.next = k + 1 /\ r.orig = [call[c].orig EXCEPT ![f] = Original(f)]
        /\ r.prop = [call[c].prop EXCEPT ![f] = Patched(Original(f))]
        /\ r.working = call[c].working
    BY <2>1 DEF Calls, PrepareFile, At
  <2>5. r \in Calls
    <3>1. k + 1 \in 1 .. Len(Files) + 1
      BY <2>2, Place DEF Places
    <3>2. [call[c].orig EXCEPT ![f] = Original(f)] \in Bytes
      BY <2>1, <2>3 DEF Calls, Bytes
    <3>3. [call[c].prop EXCEPT ![f] = Patched(Original(f))] \in Bytes
      BY <2>1, <2>3 DEF Calls, Bytes
    <3> QED
      BY <2>1, <3>1, <3>2, <3>3 DEF Calls
  <2>6. call' = [call EXCEPT ![c] = r]
    BY <1>3, <2>1 DEF Calls
  <2> HIDE DEF r, f, k
  <2>7. lock = Nobody
    BY <1>1, NobodyIsNoCaller DEF Alone, At, PatchInv, TypeOK, PrepareFile
  <2>8. TypeOK' /\ (\A d \in Callers \ {c} : call'[d] = call[d]) /\ call'[c] = r
    BY <1>1, <1>3, <2>4, <2>5, <2>6, <2>7, TypedStep DEF PatchInv, TypeOK, PrepareFile
  <2>9. ASSUME NEW i \in Places, i < k + 1 PROVE Seen(c, Files[i])'
    <3>1. CASE i = k
      BY <2>1, <2>2, <2>3, <2>4, <2>8, <3>1 DEF Seen, Calls, Bytes
    <3>2. CASE i # k
      <4>1. i < k /\ Files[i] # f /\ Files[i] \in Changed
        BY <3>2, <2>2, <2>9, Place DEF Places
      <4>2. Seen(c, Files[i])
        BY <4>1 DEF k, PatchInv, CallInv, ApplyInv, PrepareFile, At
      <4> QED
        BY <4>1, <4>2, <2>1, <2>4, <2>8 DEF Seen, Calls, Bytes
    <3> QED
      BY <3>1, <3>2
  <2>10. session.status = "NONE"
    BY DEF PatchInv, CallInv, PointInv, PrepareFile
  <2>11. CallInv(c)'
    BY <2>4, <2>8, <2>9, <2>10 DEF CallInv, PointInv, ApplyInv, RollbackInv, EditInv, At, Applying,
              RollingBack, Restoring, PrepareFile
  <2> QED
    BY <1>1, <2>4, <2>8, <2>11, StepOfOne, SameFiles DEF PrepareFile
<1> QED
  BY <1>2, <1>3 DEF PrepareFile

LEMMA PrepareEndsStep == ASSUME PatchInv, NEW c \in Callers, PrepareEnds(c) PROVE PatchInv'
<1>1. ~At(c, "idle") /\ workspace' \in Trees /\ session \in Sessions /\ call[c] \in Calls
  BY DEF PrepareEnds, At, PatchInv, TypeOK
<1>2. CASE EvidenceCurrent
  <2>1. session' = [status |-> "PREPARED", orig |-> call[c].orig, prop |-> call[c].prop]
    BY <1>2 DEF PrepareEnds
  <2>2. session' \in Sessions
    BY <1>1, <2>1 DEF Sessions, Calls
  <2>3. ASSUME NEW f \in Changed PROVE Seen(c, f)
    <3>1. PICK i \in Places : f = Files[i]
      BY Place
    <3>2. i < call[c].next
      BY <1>1, Place DEF PrepareEnds, AllDone, Places, Calls
    <3> QED
      BY <3>1, <3>2 DEF PrepareEnds, At, PatchInv, CallInv, ApplyInv
  <2>4. FilesInv'
    BY <2>1, <2>3 DEF FilesInv, RecordInv, AppliedAsPrepared, RolledBackIsOriginal, Seen
  <2> QED
    BY <1>1, <2>2, <2>4, Returned DEF PrepareEnds
<1>3. CASE ~EvidenceCurrent
  BY <1>1, <1>3, Returned, SameFiles DEF PrepareEnds
<1> QED
  BY <1>2, <1>3

LEMMA LockStep ==
  ASSUME PatchInv, NEW c \in Callers, NEW pc \in {"apply", "rollback"}, Lock(c, pc)
  PROVE  PatchInv'
<1>1. Alone(c)
  BY LockedIsAlone DEF Lock
<1>2. /\ TypeOK' /\ FilesInv'
      /\ \A d \in Callers \ {c} : call'[d] = call[d]
      /\ call'[c] = [call[c] EXCEPT !.pc = pc]
  BY ZenonT(40), <1>1, MovedStep DEF Lock, Pcs
<1>3. call[c].next = 1 /\ call[c] \in Calls
  BY DEF Lock, PatchInv, CallInv, PointInv, At, TypeOK
<1>4. call'[c].next = 1 /\ call'[c].pc = pc
  BY <1>2, <1>3 DEF Calls
<1>5. CallInv(c)'
  BY <1>4 DEF CallInv, PointInv, ApplyInv, RollbackInv, EditInv, At, Applying, RollingBack,
              Restoring
<1> QED
  BY <1>1, <1>2, <1>5, StepOfOne DEF Lock

(* Refusals, and the end of a process.                                     *)
LEMMA GivesUp ==
  ASSUME PatchInv, NEW c \in Callers, ~At(c, "idle"), Return(c),
         UNCHANGED <<source, session, workspace, backup, edited, edits>>
  PROVE  PatchInv'
BY Returned, SameFiles DEF PatchInv, TypeOK

LEMMA RefusedStep ==
  ASSUME PatchInv, NEW c \in Callers, ApplyRefused(c) \/ RollbackRefused(c) \/ Crash(c)
  PROVE  PatchInv'
BY GivesUp DEF ApplyRefused, RollbackRefused, Crash, At

(* A file of the workspace that somebody else changes, or that c writes.   *)
LEMMA WrittenTree ==
  ASSUME NEW t \in Trees, NEW f \in Changed, NEW b \in Contents
  PROVE  /\ [t EXCEPT !.file[f] = b] \in Trees
         /\ [t EXCEPT !.file[f] = b].file[f] = b
         /\ [t EXCEPT !.file[f] = b].made = t.made
         /\ \A g \in Changed : g # f => [t EXCEPT !.file[f] = b].file[g] = t.file[g]
BY DEF Trees

LEMMA NoTreeIsTree ==
  /\ NoTree \in Trees /\ [NoTree EXCEPT !.made = TRUE] \in Trees
  /\ \A f \in Changed : NoTree.file[f] = "absent"
BY DEF NoTree, Trees, Contents

LEMMA ApplyBeginsStep == ASSUME PatchInv, NEW c \in Callers, ApplyBegins(c) PROVE PatchInv'
<1>1. Alone(c) /\ call \in [Callers -> Calls] /\ session \in Sessions
  BY ActiveIsAlone DEF ApplyBegins, At, PatchInv, TypeOK
<1>2. lock' = c /\ call[c].next = 1
  BY DEF ApplyBegins, PatchInv, TypeOK, At, CallInv, PointInv
<1> DEFINE r == [call[c] EXCEPT !.pc = "copy"]
<1>3. r \in Calls /\ r.pc = "copy" /\ r.next = 1 /\ call' = [call EXCEPT ![c] = r]
  BY <1>1, <1>2 DEF ApplyBegins, Move, Calls, Pcs
<1> HIDE DEF r
<1>4. TypeOK' /\ (\A d \in Callers \ {c} : call'[d] = call[d]) /\ call'[c] = r
  <2>1. edited' \in [Changed -> {"no", "seen", "late"}] /\ workspace' \in Trees
    BY NoTreeIsTree DEF ApplyBegins
  <2> QED
    BY <1>1, <1>2, <1>3, <2>1, TypedStep DEF ApplyBegins, PatchInv, TypeOK
<1>5. FilesInv'
  BY DEF ApplyBegins, PatchInv, FilesInv, RecordInv, AppliedAsPrepared, RolledBackIsOriginal
<1>6. CallInv(c)'
  BY <1>3, <1>4 DEF CallInv, PointInv, ApplyInv, RollbackInv, EditInv, At, Applying,
              RollingBack, Restoring, Places, ApplyBegins
<1> QED
  BY <1>1, <1>4, <1>5, <1>6, StepOfOne DEF ApplyBegins

LEMMA CopyOriginalStep == ASSUME PatchInv, NEW c \in Callers, CopyOriginal(c) PROVE PatchInv'
<1> DEFINE f == Current(c)
           k == call[c].next
           r == [call[c] EXCEPT !.pc = "patch", !.orig[f] = Original(f)]
<1>1. Alone(c) /\ call \in [Callers -> Calls] /\ session \in Sessions /\ workspace \in Trees
  BY ActiveIsAlone DEF CopyOriginal, At, PatchInv, TypeOK
<1>2. k \in Places /\ f \in Changed /\ f = Files[k]
  BY <1>1, Place DEF CopyOriginal, AllDone, Current, Calls, Places
<1>3. Original(f) \in Originals(f) /\ Original(f) \in Contents
  BY <1>2, OriginalIsOne, ContentsOf DEF PatchInv
<1>4. /\ r.pc = "patch" /\ r.next = k /\ r.prop = call[c].prop
      /\ r.orig = [call[c].orig EXCEPT ![f] = Original(f)]
      /\ r.working = call[c].working
  BY <1>1 DEF Calls
<1>5. r \in Calls
  BY ZenonT(40), <1>1, <1>2, <1>3 DEF Calls, Bytes, Pcs
<1>6. call' = [call EXCEPT ![c] = r]
  BY <1>1 DEF Calls, CopyOriginal
<1>7. lock' = c /\ session.status = "PREPARED"
  BY DEF CopyOriginal, PatchInv, TypeOK, At, CallInv, PointInv, Applying
<1>8. workspace' \in Trees /\ \A g \in Changed : g # f => workspace'.file[g] = workspace.file[g]
  BY <1>1, <1>2, <1>3, WrittenTree DEF CopyOriginal
<1> HIDE DEF r, f, k
<1>9. TypeOK' /\ (\A d \in Callers \ {c} : call'[d] = call[d]) /\ call'[c] = r
  BY <1>1, <1>4, <1>5, <1>6, <1>7, <1>8, TypedStep DEF CopyOriginal, PatchInv, TypeOK
<1>10. FilesInv'
  BY <1>7 DEF CopyOriginal, PatchInv, FilesInv, RecordInv, AppliedAsPrepared, RolledBackIsOriginal
<1>11. ASSUME NEW i \in Places, i < k
       PROVE  /\ Seen(c, Files[i])'
              /\ workspace'.file[Files[i]] = call'[c].prop[Files[i]] \/ edited'[Files[i]] # "no"
  <2>1. Files[i] # f /\ Files[i] \in Changed
    BY <1>2, <1>11, Place DEF Places
  <2>2. /\ Seen(c, Files[i])
        /\ workspace.file[Files[i]] = call[c].prop[Files[i]] \/ edited[Files[i]] # "no"
    BY <1>11 DEF k, PatchInv, CallInv, ApplyInv, CopyOriginal, At
  <2> QED
    BY <2>1, <2>2, <1>1, <1>4, <1>8, <1>9 DEF Seen, Calls, Bytes, CopyOriginal
<1>12. call'[c].orig[f] \in Originals(f) /\ f = Current(c)'
  BY <1>1, <1>2, <1>3, <1>4, <1>9 DEF Calls, Bytes, Current
<1>13. CallInv(c)'
  BY <1>2, <1>4, <1>7, <1>9, <1>11, <1>12 DEF CallInv, PointInv, ApplyInv, RollbackInv, EditInv, At,
       Applying, RollingBack, Restoring, CopyOriginal
<1> QED
  BY <1>1, <1>7, <1>9, <1>10, <1>13, StepOfOne DEF CopyOriginal

LEMMA WriteProposedStep == ASSUME PatchInv, NEW c \in Callers, WriteProposed(c) PROVE PatchInv'
<1> DEFINE f == Current(c)
           k == call[c].next
           p == Patched(call[c].orig[f])
           r == [call[c] EXCEPT !.pc = "copy", !.next = @ + 1, !.prop[f] = p]
<1>1. Alone(c) /\ call \in [Callers -> Calls] /\ session \in Sessions /\ workspace \in Trees
  BY ActiveIsAlone DEF WriteProposed, At, PatchInv, TypeOK
<1>2. k \in Places /\ f \in Changed /\ f = Files[k]
  BY Place DEF WriteProposed, Current, At, PatchInv, CallInv, PointInv
<1>3. call[c].orig[f] \in Originals(f) /\ p \in Contents
  BY <1>2, ContentsOf DEF WriteProposed, PatchInv, CallInv, ApplyInv, Contents
<1>4. /\ r.pc = "copy" /\ r.next = k + 1 /\ r.orig = call[c].orig
      /\ r.prop = [call[c].prop EXCEPT ![f] = p]
      /\ r.working = call[c].working
  BY <1>1 DEF Calls
<1>5. r \in Calls
  <2>1. k + 1 \in 1 .. Len(Files) + 1
    BY <1>2, Place DEF Places
  <2>2. [call[c].prop EXCEPT ![f] = p] \in Bytes
    BY <1>1, <1>3 DEF Calls, Bytes
  <2> QED
    BY <1>1, <2>1, <2>2 DEF Calls, Pcs
<1>6. call' = [call EXCEPT ![c] = r]
  BY <1>1 DEF Calls, WriteProposed, NextFile
<1>7. lock' = c /\ session.status = "PREPARED"
  BY DEF WriteProposed, PatchInv, TypeOK, At, CallInv, PointInv, Applying
<1>8. /\ workspace' \in Trees /\ workspace'.file[f] = p /\ edited' = edited
      /\ \A g \in Changed : g # f => workspace'.file[g] = workspace.file[g]
  BY <1>1, <1>2, <1>3, WrittenTree DEF WriteProposed
<1> HIDE DEF r, f, k, p
<1>9. TypeOK' /\ (\A d \in Callers \ {c} : call'[d] = call[d]) /\ call'[c] = r
  BY <1>1, <1>4, <1>5, <1>6, <1>7, <1>8, TypedStep DEF WriteProposed, PatchInv, TypeOK
<1>10. FilesInv'
  BY <1>7 DEF WriteProposed, PatchInv, FilesInv, RecordInv, AppliedAsPrepared, RolledBackIsOriginal
<1>11. ASSUME NEW i \in Places, i < k + 1
       PROVE  /\ Seen(c, Files[i])'
              /\ workspace'.file[Files[i]] = call'[c].prop[Files[i]] \/ edited'[Files[i]] # "no"
  <2>1. CASE i = k
    BY <2>1, <1>1, <1>2, <1>3, <1>4, <1>8, <1>9 DEF Seen, Calls, Bytes, p
  <2>2. CASE i # k
    <3>1. i < k /\ Files[i] # f /\ Files[i] \in Changed
      BY <2>2, <1>2, <1>11, Place DEF Places
    <3>2. /\ Seen(c, Files[i])
          /\ workspace.file[Files[i]] = call[c].prop[Files[i]] \/ edited[Files[i]] # "no"
      BY <3>1 DEF k, PatchInv, CallInv, ApplyInv, WriteProposed, At
    <3> QED
      BY <3>1, <3>2, <1>1, <1>2, <1>4, <1>8, <1>9 DEF Seen, Calls, Bytes
  <2> QED
    BY <2>1, <2>2
<1>12. CallInv(c)'
  BY <1>4, <1>7, <1>9, <1>11 DEF CallInv, PointInv, ApplyInv, RollbackInv, EditInv, At,
       Applying, RollingBack, Restoring, WriteProposed
<1> QED
  BY <1>1, <1>7, <1>9, <1>10, <1>12, StepOfOne DEF WriteProposed

(* Once the proposals are compared, every file has its patch, made of what *)
(* this application read, which need not be what the preparation read.     *)
LEMMA IntegrityIsOfProposals ==
  ASSUME PatchInv, NEW c \in Callers, At(c, "copy"), AllDone(c), IntegrityHolds(c)
  PROVE  \A f \in Changed : Seen(c, f) /\ HasPatch(f)
<1> SUFFICES ASSUME NEW f \in Changed PROVE Seen(c, f) /\ HasPatch(f)
  OBVIOUS
<1>1. PICK i \in Places : f = Files[i]
  BY Place
<1>2. call[c] \in Calls
  BY DEF PatchInv, TypeOK
<1>3. i < call[c].next
  BY <1>2, Place DEF AllDone, Places, Calls
<1>4. Seen(c, f) /\ (workspace.file[f] = call[c].prop[f] \/ edited[f] # "no")
  BY <1>1, <1>3 DEF At, PatchInv, CallInv, ApplyInv
<1> QED
  BY <1>4 DEF IntegrityHolds, HasPatch

LEMMA BackUpStep == ASSUME PatchInv, NEW c \in Callers, BackUp(c) PROVE PatchInv'
<1> DEFINE r == [call[c] EXCEPT !.pc = "backup", !.next = 1]
<1>1. Alone(c) /\ call \in [Callers -> Calls] /\ session \in Sessions /\ workspace \in Trees
  BY ActiveIsAlone DEF BackUp, At, PatchInv, TypeOK
<1>2. call[c].prop = session.prop /\ \A f \in Changed : Seen(c, f) /\ HasPatch(f)
  BY IntegrityIsOfProposals DEF BackUp, IntegrityHolds
<1>3. /\ r.pc = "backup" /\ r.next = 1 /\ r.orig = call[c].orig /\ r.prop = call[c].prop
      /\ r \in Calls /\ call' = [call EXCEPT ![c] = r]
  <2>1. 1 \in 1 .. Len(Files) + 1
    BY Place
  <2>2. /\ r \in Calls /\ r.pc = "backup" /\ r.next = 1
        /\ r.orig = call[c].orig /\ r.prop = call[c].prop
    BY <1>1, <2>1 DEF Calls, Pcs
  <2>3. call' = [call EXCEPT ![c].pc = "backup", ![c].next = 1]
    BY DEF BackUp
  <2>4. call' = [call EXCEPT ![c] = r]
    BY <1>1, <2>3 DEF Calls
  <2> QED
    BY <2>2, <2>4
<1>4. lock' = c /\ session.status = "PREPARED"
  BY DEF BackUp, PatchInv, TypeOK, At, CallInv, PointInv, Applying
<1> HIDE DEF r
<1>5. TypeOK' /\ (\A d \in Callers \ {c} : call'[d] = call[d]) /\ call'[c] = r
  BY <1>1, <1>3, <1>4, NoTreeIsTree, TypedStep DEF BackUp, PatchInv, TypeOK
<1>6. FilesInv'
  BY <1>4 DEF BackUp, PatchInv, FilesInv, RecordInv, AppliedAsPrepared, RolledBackIsOriginal
<1>7. /\ \A f \in Changed : Seen(c, f)' /\ HasPatch(f)'
      /\ call'[c].prop = session'.prop /\ session'.status = "PREPARED"
  BY <1>2, <1>3, <1>4, <1>5 DEF BackUp, Seen, HasPatch
<1>8. CallInv(c)'
  BY <1>3, <1>5, <1>7 DEF CallInv, PointInv, ApplyInv, RollbackInv, EditInv, At,
       Applying, RollingBack, Restoring, Places
<1> QED
  BY <1>1, <1>4, <1>5, <1>6, <1>8, StepOfOne DEF BackUp

LEMMA BackUpFileStep == ASSUME PatchInv, NEW c \in Callers, BackUpFile(c) PROVE PatchInv'
<1> DEFINE f == Current(c)
           k == call[c].next
           r == [call[c] EXCEPT !.pc = "backup", !.next = @ + 1]
<1>1. Alone(c) /\ call \in [Callers -> Calls] /\ session \in Sessions /\ backup \in Trees
  BY ActiveIsAlone DEF BackUpFile, At, PatchInv, TypeOK
<1>2. k \in Places /\ f \in Changed /\ f = Files[k]
  BY <1>1, Place DEF BackUpFile, AllDone, Current, Calls, Places
<1>3. k + 1 \in 1 .. Len(Files) + 1
  BY <1>2, Place DEF Places
<1>4. /\ r.pc = "backup" /\ r.next = k + 1
      /\ r.orig = call[c].orig /\ r.prop = call[c].prop
      /\ r \in Calls /\ call' = [call EXCEPT ![c] = r]
  BY <1>1, <1>3 DEF Calls, Pcs, BackUpFile, NextFile
<1>5. /\ lock' = c /\ session.status = "PREPARED"
      /\ call[c].prop = session.prop /\ \A g \in Changed : Seen(c, g) /\ HasPatch(g)
  BY DEF BackUpFile, PatchInv, TypeOK, At, CallInv, PointInv, ApplyInv, Applying
<1>6. /\ call[c].orig[f] \in Contents /\ call[c].orig[f] # "absent"
      /\ Patched(call[c].orig[f]) = session.prop[f]
  BY <1>2, <1>5, ContentsOf DEF Seen
<1>7. /\ backup' \in Trees /\ backup'.file[f] = call[c].orig[f]
      /\ \A g \in Changed : g # f => backup'.file[g] = backup.file[g]
  BY <1>1, <1>2, <1>5, <1>6, WrittenTree DEF BackUpFile
<1> HIDE DEF r, f, k
<1>8. TypeOK' /\ (\A d \in Callers \ {c} : call'[d] = call[d]) /\ call'[c] = r
  BY <1>1, <1>4, <1>5, <1>7, TypedStep DEF BackUpFile, PatchInv, TypeOK
<1>9. FilesInv'
  BY <1>5 DEF BackUpFile, PatchInv, FilesInv, RecordInv, AppliedAsPrepared, RolledBackIsOriginal
<1>10. ASSUME NEW i \in Places, i < k + 1 PROVE Saved(Files[i])'
  <2>1. CASE i = k
    BY <2>1, <1>2, <1>6, <1>7 DEF Saved, BackUpFile
  <2>2. CASE i # k
    <3>1. i < k /\ Files[i] # f /\ Files[i] \in Changed
      BY <2>2, <1>2, <1>10, Place DEF Places
    <3>2. Saved(Files[i])
      BY <3>1 DEF k, PatchInv, CallInv, ApplyInv, BackUpFile
    <3> QED
      BY <3>1, <3>2, <1>7 DEF Saved, BackUpFile
  <2> QED
    BY <2>1, <2>2
<1>11. \A g \in Changed : Seen(c, g)' /\ HasPatch(g)'
  BY <1>4, <1>5, <1>8 DEF BackUpFile, Seen, HasPatch
<1>12. CallInv(c)'
  BY <1>4, <1>5, <1>8, <1>10, <1>11 DEF CallInv, PointInv, ApplyInv, RollbackInv, EditInv, At,
       Applying, RollingBack, Restoring, BackUpFile
<1> QED
  BY <1>1, <1>5, <1>8, <1>9, <1>12, StepOfOne DEF BackUpFile

LEMMA ApplyEndsStep == ASSUME PatchInv, NEW c \in Callers, ApplyEnds(c) PROVE PatchInv'
<1>1. session \in Sessions /\ call[c] \in Calls
  BY DEF PatchInv, TypeOK
<1>2. /\ session' \in Sessions /\ session'.status = "APPLIED"
      /\ session'.orig = session.orig /\ session'.prop = session.prop
  BY <1>1 DEF ApplyEnds, Sessions
<1>3. session.status = "PREPARED" /\ \A f \in Changed : HasPatch(f)
  BY DEF ApplyEnds, PatchInv, At, CallInv, PointInv, ApplyInv, Applying
<1>4. ASSUME NEW f \in Changed PROVE Saved(f)
  <2>1. PICK i \in Places : f = Files[i]
    BY Place
  <2>2. i < call[c].next
    BY <1>1, Place DEF ApplyEnds, AllDone, Places, Calls
  <2> QED
    BY <2>1, <2>2 DEF ApplyEnds, PatchInv, CallInv, ApplyInv
<1>5. FilesInv'
  BY <1>2, <1>3, <1>4
     DEF ApplyEnds, PatchInv, FilesInv, RecordInv, AppliedAsPrepared, RolledBackIsOriginal, HasPatch, Saved
<1> QED
  BY <1>2, <1>5, Returned DEF ApplyEnds, At, PatchInv, TypeOK

LEMMA ApplyFailsStep == ASSUME PatchInv, NEW c \in Callers, ApplyFails(c) PROVE PatchInv'
<1>1. session.status = "PREPARED" /\ ~At(c, "idle")
  BY DEF ApplyFails, PatchInv, CallInv, PointInv, At, Applying
<1>2. FilesInv'
  BY <1>1 DEF ApplyFails, PatchInv, FilesInv, RecordInv, AppliedAsPrepared, RolledBackIsOriginal
<1> QED
  BY <1>1, <1>2, NoTreeIsTree, Returned DEF ApplyFails, PatchInv, TypeOK

LEMMA RollbackBeginsStep == ASSUME PatchInv, NEW c \in Callers, RollbackBegins(c) PROVE PatchInv'
<1> DEFINE r == [call[c] EXCEPT !.pc = "snapshot", !.working = session.prop]
<1>1. Alone(c) /\ call \in [Callers -> Calls] /\ session \in Sessions
  BY ActiveIsAlone DEF RollbackBegins, At, PatchInv, TypeOK
<1>2. lock' = c /\ session.status = "APPLIED" /\ call[c].next = 1
  BY DEF RollbackBegins, PatchInv, TypeOK, At, CallInv, PointInv
<1>3. /\ r \in Calls /\ r.pc = "snapshot" /\ r.next = 1 /\ r.working = session.prop
      /\ call' = [call EXCEPT ![c] = r]
  BY <1>1, <1>2 DEF RollbackBegins, Calls, Pcs, Sessions
<1> HIDE DEF r
<1>4. TypeOK' /\ (\A d \in Callers \ {c} : call'[d] = call[d]) /\ call'[c] = r
  BY <1>1, <1>2, <1>3, TypedStep DEF RollbackBegins, PatchInv, TypeOK
<1>5. \A f \in Changed : session.prop[f] # "other"
  BY <1>2, ContentsOf DEF PatchInv, FilesInv, RecordInv
<1>6. \A i \in Places : call'[c].working[Files[i]] # "other"
  BY <1>3, <1>4, <1>5, Place
<1>7. CallInv(c)'
  <2>1. /\ call'[c].pc = "snapshot" /\ call'[c].next = 1 /\ session'.status = "APPLIED"
        /\ BackupIntact'
    BY <1>2, <1>3, <1>4 DEF RollbackBegins, BackupIntact
  <2>2. \A i \in Places : ~(i < 1)
    BY DEF Places
  <2> QED
    BY <1>6, <2>1, <2>2 DEF CallInv, PointInv, ApplyInv, RollbackInv, EditInv, At, Applying,
         RollingBack, Restoring
<1> QED
  BY <1>1, <1>2, <1>4, <1>7, StepOfOne, SameFiles DEF RollbackBegins

(* From one point of a rollback to the next.                               *)
LEMMA RollbackMoves ==
  ASSUME PatchInv, NEW c \in Callers, NEW pc \in RollingBack, call[c].pc \in RollingBack,
         Move(c, pc), UNCHANGED <<lock, source, session, workspace, backup, edited, edits>>
  PROVE  /\ Alone(c) /\ TypeOK' /\ FilesInv' /\ session.status = "APPLIED"
         /\ \A d \in Callers \ {c} : call'[d] = call[d]
         /\ call'[c] = [call[c] EXCEPT !.pc = pc]
         /\ call'[c].pc = pc /\ call'[c].next = call[c].next
         /\ call'[c].working = call[c].working /\ BackupIntact'
<1>1. Alone(c) /\ call[c] \in Calls
  BY ActiveIsAlone DEF At, PatchInv, TypeOK, RollingBack
<1>2. lock = c /\ session.status = "APPLIED"
  BY DEF PatchInv, TypeOK, CallInv, PointInv, RollingBack
<1>3. /\ TypeOK' /\ FilesInv'
      /\ \A d \in Callers \ {c} : call'[d] = call[d]
      /\ call'[c] = [call[c] EXCEPT !.pc = pc]
  BY <1>1, <1>2, MovedStep DEF RollingBack, Pcs
<1>4. BackupIntact'
  BY DEF PatchInv, CallInv, RollbackInv, BackupIntact
<1> QED
  BY <1>1, <1>2, <1>3, <1>4 DEF Calls

LEMMA SnapshotStep == ASSUME PatchInv, NEW c \in Callers, Snapshot(c) PROVE PatchInv'
<1>1. CASE workspace.file = call[c].working
  <2>1. /\ Alone(c) /\ TypeOK' /\ FilesInv' /\ session.status = "APPLIED"
        /\ \A d \in Callers \ {c} : call'[d] = call[d]
        /\ call'[c].pc = "compare" /\ call'[c].next = call[c].next
        /\ call'[c].working = call[c].working /\ BackupIntact'
    BY <1>1, RollbackMoves DEF Snapshot, At, RollingBack
  <2>2. call[c].next \in Places
    BY Place DEF Snapshot, AllDone, PatchInv, TypeOK, Calls, Places
  <2>3. /\ \A i \in Places : i < call[c].next => HasOriginal(Files[i])
        /\ \A i \in Places : i >= call[c].next /\ call[c].working[Files[i]] = "other" => Kept(Files[i])
    BY DEF Snapshot, At, PatchInv, CallInv, RollbackInv, EditInv, RollingBack
  <2>4. /\ (\A i \in Places : i < call[c].next => HasOriginal(Files[i]))'
        /\ (\A i \in Places : i >= call[c].next /\ call[c].working[Files[i]] = "other"
                                => Kept(Files[i]))'
        /\ (\A i \in Places : i > call[c].next /\ workspace.file[Files[i]] = "other"
                                => Kept(Files[i]))'
    BY <1>1, <2>1, <2>2, <2>3 DEF Snapshot, HasOriginal, Restored, Kept, Places
  <2>5. CallInv(c)'
    BY <2>1, <2>2, <2>4 DEF CallInv, PointInv, ApplyInv, RollbackInv, EditInv, At, Applying,
         RollingBack, Restoring, Snapshot
  <2> QED
    BY <2>1, <2>5, StepOfOne DEF Snapshot
<1>2. CASE workspace.file # call[c].working
  BY <1>2, GivesUp DEF Snapshot, At
<1> QED
  BY <1>1, <1>2

LEMMA CompareStep == ASSUME PatchInv, NEW c \in Callers, Compare(c) PROVE PatchInv'
<1>1. CASE Unchanged(c)
  <2>1. /\ Alone(c) /\ TypeOK' /\ FilesInv' /\ session.status = "APPLIED"
        /\ \A d \in Callers \ {c} : call'[d] = call[d]
        /\ call'[c].pc = "restore" /\ call'[c].next = call[c].next
        /\ call'[c].working = call[c].working /\ BackupIntact'
    BY <1>1, RollbackMoves DEF Compare, At, RollingBack
  <2>2. call[c].next \in Places
    BY DEF Compare, At, PatchInv, CallInv, PointInv
  <2>3. /\ \A i \in Places : i < call[c].next => HasOriginal(Files[i])
        /\ \A i \in Places : i >= call[c].next /\ call[c].working[Files[i]] = "other" => Kept(Files[i])
        /\ \A i \in Places : i > call[c].next /\ workspace.file[Files[i]] = "other" => Kept(Files[i])
    BY DEF Compare, At, PatchInv, CallInv, RollbackInv, EditInv, RollingBack, Restoring
  <2>4. workspace.file[Current(c)] = "other" => Kept(Current(c))
    <3>1. call[c].working[Files[call[c].next]] = "other" => Kept(Files[call[c].next])
      <4>1. call[c].next >= call[c].next
        BY <2>2 DEF Places
      <4> QED
        BY <4>1, <2>2, <2>3
    <3> QED
      BY <1>1, <3>1 DEF Unchanged, Current
  <2>5. /\ (\A i \in Places : i < call[c].next => HasOriginal(Files[i]))'
        /\ (\A i \in Places : i >= call[c].next /\ call[c].working[Files[i]] = "other"
                                => Kept(Files[i]))'
        /\ (\A i \in Places : i > call[c].next /\ workspace.file[Files[i]] = "other"
                                => Kept(Files[i]))'
        /\ (workspace.file[Current(c)] = "other" => Kept(Current(c)))'
    BY <2>1, <2>3, <2>4 DEF Compare, HasOriginal, Restored, Kept, Current
  <2>6. CallInv(c)'
    BY <2>1, <2>2, <2>5 DEF CallInv, PointInv, ApplyInv, RollbackInv, EditInv, At, Applying,
         RollingBack, Restoring, Compare
  <2> QED
    BY <2>1, <2>6, StepOfOne DEF Compare
<1>2. CASE ~Unchanged(c)
  BY <1>2, GivesUp DEF Compare, At
<1> QED
  BY <1>1, <1>2

LEMMA RestoreFileStep == ASSUME PatchInv, NEW c \in Callers, RestoreFile(c) PROVE PatchInv'
<1> DEFINE f == Current(c)
           k == call[c].next
           r == [call[c] EXCEPT !.pc = "note"]
<1>1. /\ Alone(c) /\ call \in [Callers -> Calls] /\ session \in Sessions
      /\ workspace \in Trees /\ backup \in Trees
  BY ActiveIsAlone DEF RestoreFile, At, PatchInv, TypeOK
<1>2. k \in Places /\ f \in Changed /\ f = Files[k]
  BY Place DEF RestoreFile, Current, At, PatchInv, CallInv, PointInv
<1>3. lock' = c /\ session.status = "APPLIED"
  BY DEF RestoreFile, PatchInv, TypeOK, At, CallInv, PointInv, RollingBack
<1>4. /\ RestoredTo(f) = Restored(f) /\ RestoredTo(f) \in Contents
      /\ BackupIntact /\ BackupIntact'
  <2>1. BackupIntact
    BY DEF RestoreFile, At, PatchInv, CallInv, RollbackInv, RollingBack
  <2> QED
    BY <1>1, <1>2, <2>1 DEF RestoredTo, Restored, BackupIntact, Trees, Contents, RestoreFile
<1>5. /\ workspace' \in Trees /\ workspace'.file[f] = Restored(f) /\ edited' = edited
      /\ \A g \in Changed : g # f => workspace'.file[g] = workspace.file[g]
  BY <1>1, <1>2, <1>4, WrittenTree DEF RestoreFile
<1>6. /\ r \in Calls /\ r.pc = "note" /\ r.next = k
      /\ call' = [call EXCEPT ![c] = r]
  BY <1>1 DEF Calls, Pcs, RestoreFile, Move
<1> HIDE DEF r, f, k
<1>7. TypeOK' /\ (\A d \in Callers \ {c} : call'[d] = call[d]) /\ call'[c] = r
  BY <1>1, <1>3, <1>5, <1>6, TypedStep DEF RestoreFile, PatchInv, TypeOK
<1>8. session' = session /\ backup' = backup /\ \A g \in Changed : Restored(g)' = Restored(g)
  BY DEF RestoreFile, Restored
<1>9. FilesInv'
  BY <1>3, <1>5, <1>8 DEF PatchInv, FilesInv, RecordInv, AppliedAsPrepared, RolledBackIsOriginal
<1>10. ASSUME NEW i \in Places PROVE (i < k \/ i = k) => HasOriginal(Files[i])'
  <2>1. CASE i = k
    BY <2>1, <1>2, <1>5, <1>8 DEF HasOriginal
  <2>2. CASE i # k /\ i < k
    <3>1. Files[i] # f /\ Files[i] \in Changed
      BY <2>2, <1>2, Place DEF Places
    <3>2. HasOriginal(Files[i])
      BY <2>2 DEF k, PatchInv, CallInv, RollbackInv, RestoreFile, At, RollingBack
    <3> QED
      BY <3>1, <3>2, <1>5, <1>8 DEF HasOriginal
  <2> QED
    BY <2>1, <2>2
<1>11. ASSUME NEW i \in Places, i > k, workspace'.file[Files[i]] = "other" PROVE Kept(Files[i])'
  <2>1. Files[i] # f /\ Files[i] \in Changed
    BY <1>11, <1>2, Place DEF Places
  <2>2. Kept(Files[i])
    BY <2>1, <1>5, <1>11 DEF k, PatchInv, CallInv, EditInv, RestoreFile, At, Restoring
  <2> QED
    BY <2>1, <2>2, <1>5 DEF Kept
<1>12. HasOriginal(Current(c))'
  BY <1>2, <1>6, <1>7, <1>10 DEF Current
<1>13. CallInv(c)'
  BY <1>2, <1>3, <1>4, <1>6, <1>7, <1>8, <1>10, <1>11, <1>12 DEF CallInv, PointInv, ApplyInv, RollbackInv,
       EditInv, At, Applying, RollingBack, Restoring
<1> QED
  BY <1>1, <1>3, <1>7, <1>8, <1>9, <1>13, StepOfOne DEF RestoreFile

LEMMA NoteFilesStep == ASSUME PatchInv, NEW c \in Callers, NoteFiles(c) PROVE PatchInv'
<1> DEFINE k == call[c].next
           r == [call[c] EXCEPT !.pc = "snapshot", !.next = @ + 1, !.working = workspace.file]
<1>1. /\ Alone(c) /\ call \in [Callers -> Calls] /\ workspace \in Trees
  BY ActiveIsAlone DEF NoteFiles, At, PatchInv, TypeOK
<1>2. k \in Places /\ k + 1 \in 1 .. Len(Files) + 1
  BY Place DEF NoteFiles, At, PatchInv, CallInv, PointInv, Places
<1>3. lock' = c /\ session.status = "APPLIED" /\ BackupIntact'
  BY DEF NoteFiles, PatchInv, TypeOK, At, CallInv, PointInv, RollbackInv, RollingBack, BackupIntact
<1>4. workspace.file \in Bytes
  BY <1>1 DEF Trees, Bytes
<1>5. /\ r \in Calls /\ r.pc = "snapshot" /\ r.next = k + 1 /\ r.working = workspace.file
  BY <1>1, <1>2, <1>4 DEF Calls, Pcs
<1>6. call' = [call EXCEPT ![c] = r]
  BY <1>1 DEF Calls, NoteFiles, NextFile
<1> HIDE DEF r, k
<1>7. TypeOK' /\ (\A d \in Callers \ {c} : call'[d] = call[d]) /\ call'[c] = r
  BY <1>1, <1>3, <1>5, <1>6, TypedStep DEF NoteFiles, PatchInv, TypeOK
<1>8. ASSUME NEW i \in Places, i < k + 1 PROVE HasOriginal(Files[i])'
  <2>1. i = k \/ i < k
    BY <1>2, <1>8 DEF Places
  <2>2. HasOriginal(Files[i])
    BY <2>1 DEF k, PatchInv, CallInv, RollbackInv, NoteFiles, At, RollingBack, Current
  <2> QED
    BY <2>2 DEF NoteFiles, HasOriginal, Restored
<1>9. ASSUME NEW i \in Places, i >= k + 1, workspace.file[Files[i]] = "other" PROVE Kept(Files[i])'
  <2>1. i > k
    BY <1>2, <1>9 DEF Places
  <2>2. Kept(Files[i])
    BY <2>1, <1>9 DEF k, PatchInv, CallInv, EditInv, NoteFiles, At, Restoring
  <2> QED
    BY <2>2 DEF Kept, NoteFiles
<1>10. CallInv(c)'
  BY <1>3, <1>5, <1>7, <1>8, <1>9 DEF CallInv, PointInv, ApplyInv, RollbackInv, EditInv, At,
       Applying, RollingBack, Restoring, NoteFiles
<1> QED
  BY <1>1, <1>3, <1>7, <1>10, StepOfOne, SameFiles DEF NoteFiles

LEMMA RollbackConfirmedStep ==
  ASSUME PatchInv, NEW c \in Callers, RollbackConfirmed(c) PROVE PatchInv'
<1>1. CASE workspace.file = call[c].working
  <2>1. /\ Alone(c) /\ TypeOK' /\ FilesInv' /\ session.status = "APPLIED"
        /\ \A d \in Callers \ {c} : call'[d] = call[d]
        /\ call'[c].pc = "commit" /\ call'[c].next = call[c].next /\ BackupIntact'
    BY <1>1, RollbackMoves DEF RollbackConfirmed, At, RollingBack
  <2>2. ASSUME NEW i \in Places PROVE i < call[c].next /\ HasOriginal(Files[i])'
    <3>1. i < call[c].next
      BY Place DEF RollbackConfirmed, AllDone, PatchInv, TypeOK, Calls, Places
    <3>2. HasOriginal(Files[i])
      BY <3>1 DEF RollbackConfirmed, At, PatchInv, CallInv, RollbackInv, RollingBack
    <3> QED
      BY <3>1, <3>2 DEF HasOriginal, Restored, RollbackConfirmed
  <2>3. \A f \in Changed : HasOriginal(f)'
    BY <2>2, Place
  <2>4. CallInv(c)'
    BY <2>1, <2>2, <2>3 DEF CallInv, PointInv, ApplyInv, RollbackInv, EditInv, At, Applying,
         RollingBack, Restoring, RollbackConfirmed
  <2> QED
    BY <2>1, <2>4, StepOfOne DEF RollbackConfirmed
<1>2. CASE workspace.file # call[c].working
  BY <1>2, GivesUp DEF RollbackConfirmed, At
<1> QED
  BY <1>1, <1>2

LEMMA RollbackEndsStep == ASSUME PatchInv, NEW c \in Callers, RollbackEnds(c) PROVE PatchInv'
<1>1. session \in Sessions
  BY DEF PatchInv, TypeOK
<1>2. /\ session' \in Sessions /\ session'.status = "ROLLED_BACK"
      /\ session'.orig = session.orig /\ session'.prop = session.prop
  BY <1>1 DEF RollbackEnds, Sessions
<1>3. session.status = "APPLIED" /\ \A f \in Changed : HasOriginal(f)
  BY DEF RollbackEnds, PatchInv, At, CallInv, PointInv, RollbackInv, RollingBack
<1>4. \A f \in Changed : Restored(f)' = Restored(f)
  BY <1>2 DEF Restored
<1>5. FilesInv'
  BY <1>2, <1>3, <1>4
     DEF RollbackEnds, PatchInv, FilesInv, RecordInv, AppliedAsPrepared, RolledBackIsOriginal, HasOriginal
<1> QED
  BY <1>2, <1>5, Returned DEF RollbackEnds, At, PatchInv, TypeOK

-----------------------------------------------------------------------------
(* Other people *)

LEMMA EditSourceStep == ASSUME PatchInv, NEW f \in Changed, EditSource(f) PROVE PatchInv'
<1>1. source' \in Bytes /\ \A g \in Changed : source'[g] \in Sources(g)
  <2>1. source \in [Changed -> Contents]
    BY DEF PatchInv, TypeOK, Bytes
  <2>2. PICK b \in Sources(f) : source' = [source EXCEPT ![f] = b]
    BY DEF EditSource
  <2> QED
    BY <2>1, <2>2, ContentsOf DEF PatchInv, PhaseInv, Bytes
<1>2. TypeOK'
  BY <1>1, SomeEdits DEF PatchInv, TypeOK, EditSource
<1>3. PhaseInv'
  BY <1>1 DEF PatchInv, PhaseInv, EditSource, At
<1>4. ASSUME NEW c \in Callers PROVE CallInv(c)'
  BY DEF EditSource, PatchInv, CallInv, PointInv, ApplyInv, RollbackInv, EditInv, At, Seen, HasPatch,
         HasOriginal, Restored, Saved, Kept, Restoring, Current, BackupIntact
<1> QED
  BY <1>2, <1>3, <1>4, SameFiles DEF EditSource, PatchInv

(* Only f changes, and it is marked; what was written late stays where it  *)
(* is, for f did not hold anybody's edit.                                  *)
LEMMA EditWorkspaceStep == ASSUME PatchInv, NEW f \in Changed, EditWorkspace(f) PROVE PatchInv'
<1>1. /\ workspace' \in Trees /\ workspace'.file[f] = "other"
      /\ \A g \in Changed : g # f => workspace'.file[g] = workspace.file[g]
  <2>1. workspace \in Trees /\ "other" \in Contents
    BY DEF PatchInv, TypeOK, Contents
  <2>2. workspace' = [workspace EXCEPT !.file[f] = "other"]
    BY DEF EditWorkspace
  <2> QED
    BY <2>1, <2>2, WrittenTree
<1>2. /\ edited' \in [Changed -> {"no", "seen", "late"}] /\ edited'[f] # "no"
      /\ \A g \in Changed : g # f => edited'[g] = edited[g]
      /\ InWindow(f) => edited'[f] = "late"
  BY DEF EditWorkspace, PatchInv, TypeOK
<1>3. UNCHANGED <<source, session, backup, lock, call>> /\ workspace.file[f] # "other"
  BY DEF EditWorkspace
<1>4. TypeOK'
  BY <1>1, <1>2, <1>3, SomeEdits DEF PatchInv, TypeOK, EditWorkspace
<1>5. PhaseInv'
  BY <1>3 DEF PatchInv, PhaseInv, At
<1>6. FilesInv'
  BY <1>1, <1>2, <1>3 DEF PatchInv, FilesInv, RecordInv, AppliedAsPrepared, RolledBackIsOriginal, Restored
<1>7. ASSUME NEW c \in Callers PROVE CallInv(c)'
  <2>1. PointInv(c)'
    BY <1>3 DEF PatchInv, CallInv, PointInv, At
  <2>2. ApplyInv(c)'
    <3>1. ASSUME NEW g \in Changed
          PROVE  /\ Seen(c, g) => Seen(c, g)'
                 /\ HasPatch(g) => HasPatch(g)'
                 /\ Saved(g) => Saved(g)'
                 /\ workspace.file[g] = call[c].prop[g] \/ edited[g] # "no" =>
                      workspace'.file[g] = call'[c].prop[g] \/ edited'[g] # "no"
      BY <1>1, <1>2, <1>3 DEF Seen, HasPatch, Saved
    <3> QED
      BY <3>1, <1>3, Place DEF PatchInv, CallInv, ApplyInv, At, Current
  <2>3. RollbackInv(c)'
    <3>1. ASSUME NEW g \in Changed PROVE HasOriginal(g) => HasOriginal(g)'
      BY <1>1, <1>2, <1>3 DEF HasOriginal, Restored
    <3>2. At(c, "note") => Current(c) \in Changed
      BY Place DEF Current, At, PatchInv, CallInv, PointInv
    <3> QED
      BY <3>1, <3>2, <1>3, Place DEF PatchInv, CallInv, RollbackInv, At, Current, BackupIntact
  <2>4. EditInv(c)'
    <3>1. ASSUME NEW g \in Changed PROVE Kept(g) => Kept(g)'
      BY <1>1, <1>2, <1>3 DEF Kept
    <3>2. call[c].pc \in {"snapshot", "compare", "restore"} =>
            \A i \in Places : i >= call[c].next /\ call[c].working[Files[i]] = "other" => Kept(Files[i])'
      BY <3>1, Place DEF PatchInv, CallInv, EditInv
    <3>3. ASSUME Restoring(c), NEW i \in Places, i > call[c].next, workspace'.file[Files[i]] = "other"
          PROVE  Kept(Files[i])'
      <4>1. CASE Files[i] = f
        <5>1. call[c].next \in Places /\ i # call[c].next
          BY <3>3 DEF PatchInv, CallInv, PointInv, Restoring, Places
        <5>2. Current(c) # f
          BY <5>1, <4>1, Place DEF Current
        <5> QED
          BY <5>2, <4>1, <3>3, <1>2 DEF InWindow, Kept
      <4>2. CASE Files[i] # f
        BY <4>2, <3>1, <3>3, <1>1, Place DEF PatchInv, CallInv, EditInv
      <4> QED
        BY <4>1, <4>2
    <3>4. ASSUME At(c, "restore"), workspace'.file[Current(c)] = "other" PROVE Kept(Current(c))'
      <4>1. Current(c) \in Changed /\ Current(c)' = Current(c)
        BY <3>4, <1>3, Place DEF PatchInv, CallInv, PointInv, Current, At
      <4>2. CASE Current(c) = f
        BY <4>1, <4>2, <3>4, <1>2 DEF InWindow, Restoring, At, Kept
      <4>3. CASE Current(c) # f
        <5>1. Kept(Current(c))
          BY <4>1, <4>3, <3>4, <1>1 DEF PatchInv, CallInv, EditInv
        <5> QED
          BY <5>1, <4>1, <3>1 DEF Kept
      <4> QED
        BY <4>2, <4>3
    <3> QED
      BY <3>2, <3>3, <3>4, <1>3 DEF EditInv, Restoring, At, Current
  <2> QED
    BY <2>1, <2>2, <2>3, <2>4 DEF CallInv
<1> QED
  BY <1>4, <1>5, <1>6, <1>7 DEF PatchInv

-----------------------------------------------------------------------------
(* The invariant *)

LEMMA InitInv == Init => PatchInv
<1> SUFFICES ASSUME Init PROVE PatchInv
  OBVIOUS
<1>1. \A f \in Changed : Pinned[f] \in Contents
  BY ContentsOf
<1>2. TypeOK
  <2>1. NoTree.file \in Bytes /\ Pinned \in Bytes
    BY <1>1 DEF NoTree, Pinned, Bytes, Contents
  <2>2. session \in Sessions
    BY <2>1 DEF Init, Sessions
  <2> QED
    BY <2>1, <2>2, NoTreeIsTree, IdleIsCall, SomeEdits, NobodyIsNoCaller DEF Init, TypeOK
<1>3. PhaseInv
  BY IdleIsCall DEF Init, PhaseInv, At, Sources
<1>4. FilesInv
  BY DEF Init, FilesInv, RecordInv, AppliedAsPrepared, RolledBackIsOriginal
<1>5. ASSUME NEW c \in Callers PROVE CallInv(c)
  BY IdleIsCall, IdleCall DEF Init, At
<1> QED
  BY <1>2, <1>3, <1>4, <1>5 DEF PatchInv

LEMMA StutterInv == PatchInv /\ UNCHANGED vars => PatchInv'
<1> SUFFICES ASSUME PatchInv, UNCHANGED vars PROVE PatchInv'
  OBVIOUS
<1>1. TypeOK' /\ PhaseInv' /\ FilesInv'
  BY SameFiles DEF vars, PatchInv, TypeOK, PhaseInv, At
<1>2. ASSUME NEW c \in Callers PROVE CallInv(c)'
  BY DEF vars, PatchInv, CallInv, PointInv, ApplyInv, RollbackInv, EditInv, At, Seen, HasPatch,
         HasOriginal, Restored, Saved, Kept, Restoring, Current, BackupIntact
<1> QED
  BY <1>1, <1>2 DEF PatchInv

LEMMA NextInv == PatchInv /\ [Next]_vars => PatchInv'
<1> SUFFICES ASSUME PatchInv, [Next]_vars PROVE PatchInv'
  OBVIOUS
<1>1. ASSUME NEW c \in Callers, Prepare(c) \/ PrepareFile(c) \/ PrepareEnds(c) \/ Crash(c) PROVE PatchInv'
  BY <1>1, PrepareStep, PrepareFileStep, PrepareEndsStep, RefusedStep
<1>2. ASSUME NEW c \in Callers, ApplySteps(c) PROVE PatchInv'
  BY <1>2, LockStep, RefusedStep, ApplyBeginsStep, CopyOriginalStep, WriteProposedStep, BackUpStep,
     BackUpFileStep, ApplyEndsStep, ApplyFailsStep DEF ApplySteps, Apply
<1>3. ASSUME NEW c \in Callers, RollbackSteps(c) PROVE PatchInv'
  BY <1>3, LockStep, RefusedStep, RollbackBeginsStep, SnapshotStep, CompareStep, RestoreFileStep,
     NoteFilesStep, RollbackConfirmedStep, RollbackEndsStep DEF RollbackSteps, Rollback
<1>4. ASSUME NEW f \in Changed, EditSource(f) \/ EditWorkspace(f) PROVE PatchInv'
  BY <1>4, EditSourceStep, EditWorkspaceStep
<1> QED
  BY <1>1, <1>2, <1>3, <1>4, StutterInv DEF Next

LEMMA PatchInvHolds == Spec => []PatchInv
BY InitInv, NextInv, PTL DEF Spec

(* Who works on a session holds its lock, and all variables are typed.     *)
THEOREM PatchTypeCorrect == Spec => []TypeOK
<1>1. PatchInv => TypeOK
  BY DEF PatchInv
<1> QED
  BY <1>1, PatchInvHolds, PTL

(* APPLIED in the metadata means that the backup has an original of every  *)
(* file of which the diff makes the prepared proposal, and that every file *)
(* nobody else edited is as prepared, or restored already.                 *)
THEOREM AppliedIsAsPrepared == Spec => []AppliedAsPrepared
<1>1. PatchInv => AppliedAsPrepared
  BY DEF PatchInv, FilesInv
<1> QED
  BY <1>1, PatchInvHolds, PTL

(* ROLLED_BACK means that no file nobody else edited still has the patch.  *)
THEOREM RollbackRestores == Spec => []RolledBackIsOriginal
<1>1. PatchInv => RolledBackIsOriginal
  BY DEF PatchInv, FilesInv
<1> QED
  BY <1>1, PatchInvHolds, PTL

(* The body of EditsSurvive.                                               *)
Survives ==
  \A f \in Changed : workspace.file[f] = "other" /\ session.status = "APPLIED"
                       => workspace'.file[f] = "other" \/ edited[f] = "late"

LEMMA SurvivesHere == PatchInv /\ [Next]_vars => Survives
<1> SUFFICES ASSUME PatchInv, [Next]_vars, NEW f \in Changed, workspace.file[f] = "other",
                    session.status = "APPLIED"
             PROVE  workspace'.file[f] = "other" \/ edited[f] = "late"
  BY DEF Survives
<1>1. ASSUME NEW c \in Callers, RestoreFile(c) PROVE workspace'.file[f] = "other" \/ edited[f] = "late"
  <2>1. CASE Current(c) = f
    BY <1>1, <2>1 DEF RestoreFile, PatchInv, CallInv, EditInv, Kept
  <2>2. CASE Current(c) # f
    BY <1>1, <2>2, WrittenTree DEF RestoreFile, PatchInv, TypeOK, Trees
  <2> QED
    BY <2>1, <2>2
<1>2. ASSUME NEW g \in Changed, EditWorkspace(g) PROVE workspace'.file[f] = "other"
  BY <1>2, WrittenTree DEF EditWorkspace, PatchInv, TypeOK, Contents
<1>3. ASSUME NEW c \in Callers,
             ApplyBegins(c) \/ CopyOriginal(c) \/ WriteProposed(c) \/ ApplyFails(c)
      PROVE  FALSE
  BY <1>3 DEF ApplyBegins, CopyOriginal, WriteProposed, ApplyFails, At, PatchInv, CallInv, PointInv,
              Applying
<1>4. CASE UNCHANGED workspace
  BY <1>4
<1> QED
  BY <1>1, <1>2, <1>3, <1>4
     DEF Next, vars, ApplySteps, RollbackSteps, Apply, Rollback, Lock, Prepare, PrepareFile, PrepareEnds,
         ApplyRefused, BackUp, BackUpFile, ApplyEnds, RollbackRefused, RollbackBegins, Snapshot,
         Compare, NoteFiles, RollbackConfirmed, RollbackEnds, Crash, EditSource

(* A rollback overwrites what somebody else wrote only if it was written   *)
(* between the comparison and the replacement of the file, or while        *)
(* another file was being restored.                                        *)
THEOREM EditsAreKept == Spec => EditsSurvive
<1>1. PatchInv /\ [Next]_vars => [Survives]_vars
  BY SurvivesHere
<1> QED
  BY <1>1, PatchInvHolds, PTL DEF Spec, EditsSurvive, Survives
=============================================================================
