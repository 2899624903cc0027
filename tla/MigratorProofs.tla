--------------------------- MODULE MigratorProofs ---------------------------
(***************************************************************************)
(* Proofs about Migrator, for any number of operations, target directories *)
(* and files: every variable keeps its type, and a user who runs one       *)
(* operation at a time loses no file of the original cache but those that  *)
(* the iterator of a copy left out.                                        *)
(***************************************************************************)
EXTENDS Migrator, TLAPS

(* What the types alone do not say: a run that was started has a target, a  *)
(* target is never a junction, and it exists from its creation on.          *)

HasTarget    == \A r \in Runs : pc[r] # "idle" => tgt[r] \in Targets
PlainTargets == \A t \in Targets : fs[t].kind # "link"
TargetMade   == \A r \in Runs : pc[r] \in {"open", "copy", "verify", "swap"}
                                  => fs[tgt[r]].kind = "dir"

TypeInv == TypeOK /\ HasTarget /\ PlainTargets /\ TargetMade

(* The argument for CacheSurvives.  One run at most is active, so a source  *)
(* that was not a junction in preflight is none until the swap, and the     *)
(* backup is a plain directory.  The copy lists what no iterator left out,  *)
(* or some target holds it already; what was copied is in the target.       *)

Solo == \A r, q \in Runs : Active(r) /\ Active(q) => r = q

BackupPlain == fs[Backup].kind # "link"

SourcePlain ==
  \A r \in Runs : pc[r] \in {"execute", "check", "open", "copy", "verify", "swap"}
                    => fs[Source].kind # "link"

SeenStored ==
  \A r \in Runs :
    /\ pc[r] \in {"idle", "preflight", "execute", "check", "open"} => seen[r] = {}
    /\ pc[r] \in {"copy", "verify", "swap"} => seen[r] \subseteq fs[tgt[r]].files

InTarget == \E t \in Targets : Whole(t)

CopyCovers == \A r \in Runs : pc[r] = "copy" => Kept \subseteq todo[r] \/ InTarget

SwapSafe == \A r \in Runs : pc[r] \in {"verify", "swap"} => InTarget

SafeInv ==
  /\ TypeInv /\ Solo /\ BackupPlain /\ SourcePlain
  /\ SeenStored /\ CopyCovers /\ SwapSafe /\ CacheSurvives
------------------------------------------------------------------------------
(* Nodes of the file system                                                *)

\* What the kind of a node says of the rest of it.
LEMMA NodeShape ==
  ASSUME NEW n \in Nodes
  PROVE  /\ n.kind \in {"absent", "dir", "link"}
         /\ n.kind = "absent" => n = Absent
         /\ n.kind = "dir" => n = Dir(n.files)
         /\ n.kind = "link" => n = Link(n.to) /\ n.to \in Targets
         /\ n.files \subseteq Files \cup Writes
         /\ n.kind # "dir" => n.files = {}
  BY DEF Nodes, Absent, Dir, Link

\* Replacing the files of a directory gives a directory.
LEMMA SetFiles ==
  ASSUME NEW n \in Nodes, n.kind = "dir", NEW F \in SUBSET (Files \cup Writes)
  PROVE  [n EXCEPT !.files = F] = Dir(F) /\ Dir(F) \in Nodes
  BY NodeShape DEF Nodes, Dir

\* The constructors give nodes of their kind.
LEMMA NewNodes ==
  /\ Absent \in Nodes /\ Absent.kind = "absent"
  /\ \A F \in SUBSET (Files \cup Writes) :
       Dir(F) \in Nodes /\ Dir(F).kind = "dir" /\ Dir(F).files = F
  /\ \A t \in Targets : Link(t) \in Nodes /\ Link(t).kind = "link"
  BY DEF Nodes, Absent, Dir, Link

\* The paths are pairwise different.
LEMMA PathsDiffer ==
  /\ Source \in Paths /\ Backup \in Paths /\ Targets \subseteq Paths
  /\ Source # Backup /\ Source \notin Targets /\ Backup \notin Targets
  /\ None \notin Targets
  BY MigratorAssumption DEF Source, Backup, None, Paths

\* Every path resolves to a path.
LEMMA ResolvePath ==
  ASSUME TypeOK, NEW p \in Paths
  PROVE  /\ Resolve(p) \in Paths
         /\ fs[p].kind = "link" => Resolve(p) \in Targets
         /\ fs[p].kind # "link" => Resolve(p) = p
  <1>1. fs[p] \in Nodes
    BY DEF TypeOK
  <1> QED
    BY <1>1, NodeShape, PathsDiffer DEF Resolve
------------------------------------------------------------------------------
(* Types                                                                   *)

\* A step that leaves the targets as they are, or makes directories of absent
\* ones, or changes the files of a directory, keeps the file system's type.
TreeTyped ==
  /\ fs \in [Paths -> Nodes]
  /\ PlainTargets

\* No step removes a target directory.
TargetsStay == \A t \in Targets : fs[t].kind = "dir" => fs'[t].kind = "dir"

\* A scan shows a target or none.
LEMMA ScannedTyped ==
  ASSUME fs \in [Paths -> Nodes]
  PROVE  Scanned \in Targets \cup {None}
  BY NodeShape, PathsDiffer DEF Scanned

LEMMA TypeInit == Init => TypeInv
  <1> SUFFICES ASSUME Init PROVE TypeInv
    OBVIOUS
  <1>1. TreeTyped
    <2>1. Fresh \in [Paths -> Nodes] /\ \A t \in Targets : Fresh[t] = Absent
      BY NewNodes, PathsDiffer DEF Fresh
    <2>2. ASSUME NEW t \in Targets
          PROVE  /\ Moved(t) \in [Paths -> Nodes]
                 /\ \A u \in Targets : Moved(t)[u] \in {Absent, Dir(Files)}
      BY NewNodes, PathsDiffer DEF Moved
    <2> QED
      BY <2>1, <2>2, NewNodes DEF Init, TreeTyped, PlainTargets
  <1>2. pc \in [Runs -> Labels] /\ result \in [Runs -> Outcomes \cup {None}]
    BY DEF Init, Labels
  <1>3. report \in Targets \cup {None}
    BY <1>1, ScannedTyped DEF Init, TreeTyped
  <1> QED
    BY <1>1, <1>2, <1>3
    DEF Init, TypeInv, TypeOK, TreeTyped, HasTarget, PlainTargets, TargetMade

\* The copy of one file: it fails, or adds the file to the target's directory.
LEMMA CopyEffect ==
  ASSUME TypeInv, NEW r \in Runs, NEW f \in Files \cup Writes, CopyFile(r, f)
  PROVE  \/ UNCHANGED <<fs, seen>> /\ pc'[r] # "copy"
         \/ /\ tgt[r] \in Targets /\ fs[tgt[r]].kind = "dir"
            /\ fs[tgt[r]].files \cup {f} \in SUBSET (Files \cup Writes)
            /\ fs' = [fs EXCEPT ![tgt[r]] = Dir(fs[tgt[r]].files \cup {f})]
            /\ seen' = [seen EXCEPT ![r] = seen[r] \cup {f}]
            /\ pc' = pc
  <1> USE DEF TypeInv
  <1>1. CASE Finish(r, "copy_failed") /\ UNCHANGED <<fs, seen>>
    BY <1>1 DEF Finish, TypeOK
  <1>2. CASE /\ fs' = [fs EXCEPT ![tgt[r]].files = @ \cup {f}]
             /\ seen' = [seen EXCEPT ![r] = @ \cup {f}]
             /\ Goto(r, "copy")
    <2>1. /\ tgt[r] \in Targets /\ tgt[r] \in Paths
          /\ fs[tgt[r]] \in Nodes /\ fs[tgt[r]].kind = "dir"
      BY PathsDiffer DEF CopyFile, TypeOK, HasTarget, TargetMade
    <2>2. fs[tgt[r]].files \cup {f} \in SUBSET (Files \cup Writes)
      BY <2>1, NodeShape
    <2>3. fs' = [fs EXCEPT ![tgt[r]] = Dir(fs[tgt[r]].files \cup {f})]
      BY <1>2, <2>1, <2>2, SetFiles DEF TypeOK
    <2>4. pc' = pc
      BY <1>2 DEF CopyFile, Goto, TypeOK
    <2> QED
      BY <1>2, <2>1, <2>2, <2>3, <2>4
  <1> QED
    BY <1>1, <1>2 DEF CopyFile

LEMMA CopyTree ==
  ASSUME TypeInv, NEW r \in Runs, NEW f \in Files \cup Writes, CopyFile(r, f)
  PROVE  TreeTyped' /\ TargetsStay
  <1> DEFINE t == tgt[r]  F == fs[t].files \cup {f}
  <1>1. CASE UNCHANGED fs
    BY <1>1 DEF TypeInv, TypeOK, TreeTyped, TargetsStay, PlainTargets
  <1>2. CASE /\ t \in Targets /\ F \in SUBSET (Files \cup Writes)
             /\ fs' = [fs EXCEPT ![t] = Dir(F)]
    <2> HIDE DEF t, F
    <2> QED
      BY <1>2, NewNodes, PathsDiffer
      DEF TypeInv, TypeOK, TreeTyped, TargetsStay, PlainTargets
  <1> QED
    BY <1>1, <1>2, CopyEffect

\* The files of the directory a path resolves to are replaced.
LEMMA ResolvedTree ==
  ASSUME TypeInv, NEW p \in {Source, Backup}, fs[Resolve(p)].kind = "dir",
         NEW F \in SUBSET (Files \cup Writes),
         fs' = [fs EXCEPT ![Resolve(p)].files = F]
  PROVE  TreeTyped' /\ TargetsStay
  <1> DEFINE d == Resolve(p)
  <1>1. d \in Paths /\ fs[d] \in Nodes
    BY ResolvePath, PathsDiffer DEF TypeInv, TypeOK
  <1>2. fs' = [fs EXCEPT ![d] = Dir(F)]
    BY <1>1, SetFiles DEF TypeInv, TypeOK
  <1> HIDE DEF d
  <1>3. Dir(F) \in Nodes /\ Dir(F).kind = "dir"
    BY NewNodes
  <1>4. fs' \in [Paths -> Nodes]
    BY <1>1, <1>2, <1>3 DEF TypeInv, TypeOK
  <1>5. \A t \in Targets : fs'[t] = fs[t] \/ fs'[t].kind = "dir"
    BY <1>1, <1>2, <1>3, PathsDiffer DEF TypeInv, TypeOK
  <1> QED
    BY <1>4, <1>5 DEF TypeInv, TreeTyped, TargetsStay, PlainTargets

\* Creating a target directory that is missing.
Made(t) == IF fs[t] = Absent THEN [fs EXCEPT ![t] = Dir({})] ELSE fs

LEMMA MadeTree ==
  ASSUME TypeInv, NEW t \in Targets
  PROVE  /\ Made(t) \in [Paths -> Nodes]
         /\ Made(t)[t].kind = "dir"
         /\ \A p \in Paths : p # t => Made(t)[p] = fs[p]
         /\ fs[t].kind = "dir" => Made(t) = fs
  <1>1. fs[t] \in Nodes /\ t \in Paths /\ fs[t].kind # "link"
    BY PathsDiffer DEF TypeInv, TypeOK, PlainTargets
  <1>2. {} \in SUBSET (Files \cup Writes)
    OBVIOUS
  <1> QED
    BY <1>1, <1>2, NodeShape, NewNodes DEF Made, TypeInv, TypeOK

\* One path other than a target is given a new node.
LEMMA PathTree ==
  ASSUME TypeInv, NEW p \in {Source, Backup}, NEW n \in Nodes,
         fs' = [fs EXCEPT ![p] = n]
  PROVE  TreeTyped' /\ TargetsStay
  BY PathsDiffer DEF TypeInv, TypeOK, TreeTyped, TargetsStay, PlainTargets

\* The steps of a run, on the file system.
LEMMA RunTree ==
  ASSUME TypeInv, NEW r \in Runs, RunStep(r)
  PROVE  TreeTyped' /\ TargetsStay
  <1> USE DEF TypeInv
  <1>0. CASE UNCHANGED fs
    BY <1>0 DEF TypeOK, TreeTyped, TargetsStay, PlainTargets
  <1>1. CASE ExecuteCheck(r)
    <2>1. CASE UNCHANGED fs
      BY <1>0, <2>1
    <2>2. CASE fs' = Made(tgt[r])
      <3>1. tgt[r] \in Targets
        BY <1>1 DEF ExecuteCheck, HasTarget
      <3> QED
        BY <2>2, <3>1, MadeTree, PathsDiffer DEF TreeTyped, TargetsStay, PlainTargets
    <2> QED
      BY <1>1, <2>1, <2>2 DEF ExecuteCheck, Made
  <1>2. CASE \E f \in Files \cup Writes : CopyFile(r, f)
    BY <1>2, CopyTree
  <1>3. CASE Swap(r)
    <2>1. fs[Source] \in Nodes /\ fs[Backup] \in Nodes
      BY PathsDiffer DEF TypeOK
    <2> QED
      BY <1>0, <1>3, <2>1, NewNodes, PathsDiffer
      DEF Swap, TypeOK, TreeTyped, TargetsStay, PlainTargets
  <1>4. CASE Restore(r)
    <2>1. fs[Source] \in Nodes /\ fs[Backup] \in Nodes
      BY PathsDiffer DEF TypeOK
    <2> QED
      BY <1>0, <1>4, <2>1, NewNodes, PathsDiffer
      DEF Restore, TypeOK, TreeTyped, TargetsStay, PlainTargets
  <1>5. CASE ProbeJunction(r)
    BY <1>0, <1>5, PathTree, NewNodes DEF ProbeJunction
  <1>6. CASE \E f \in Files \cup Writes : CleanupFile(r, f)
    <2> PICK f \in Files \cup Writes : CleanupFile(r, f)
      BY <1>6
    <2>1. fs[Resolve(Backup)] \in Nodes
      BY ResolvePath, PathsDiffer DEF TypeOK
    <2>2. fs[Resolve(Backup)].kind = "dir"
      BY <2>1, NodeShape DEF CleanupFile, FilesAt
    <2>3. fs[Resolve(Backup)].files \ {f} \in SUBSET (Files \cup Writes)
      BY <2>1, NodeShape
    <2>4. fs' = [fs EXCEPT ![Resolve(Backup)].files = fs[Resolve(Backup)].files \ {f}]
      BY DEF CleanupFile
    <2> QED
      BY <2>2, <2>3, <2>4, ResolvedTree
  <1>7. CASE CleanupDone(r)
    BY <1>0, <1>7, PathTree, NewNodes DEF CleanupDone
  <1>8. CASE JunctionMkdir(r)
    BY <1>0, <1>8, PathTree, NewNodes DEF JunctionMkdir
  <1>9. CASE JunctionWrite(r)
    <2>1. tgt[r] \in Targets
      BY <1>9 DEF JunctionWrite, HasTarget
    <2> QED
      BY <1>0, <1>9, <2>1, PathTree, NewNodes DEF JunctionWrite
  <1>10. CASE RepairUnlink(r)
    <2>1. tgt[r] \in Targets
      BY <1>10 DEF RepairUnlink, HasTarget
    <2>2. fs' \in {Made(tgt[r]), [Made(tgt[r]) EXCEPT ![Source] = Absent]}
      BY <1>10 DEF RepairUnlink, Made
    <2> QED
      BY <2>1, <2>2, MadeTree, NewNodes, PathsDiffer
      DEF TreeTyped, TargetsStay, PlainTargets
  <1> QED
    BY <1>0, <1>1, <1>2, <1>3, <1>4, <1>5, <1>6, <1>7, <1>8, <1>9, <1>10
    DEF RunStep, Preflight, ExecutePreflight, OpenSource, CopyDone, Verify, JunctionOpen

\* Every step, on the file system.
LEMMA NextTree ==
  ASSUME TypeInv, [Next]_vars
  PROVE  TreeTyped' /\ TargetsStay
  <1> USE DEF TypeInv
  <1>0. CASE UNCHANGED fs
    BY <1>0 DEF TypeOK, TreeTyped, TargetsStay, PlainTargets
  <1>1. CASE \E f \in Writes : VRChatWrite(f)
    <2> PICK f \in Writes : VRChatWrite(f)
      BY <1>1
    <2>1. CASE fs[Source] = Absent
      <3>1. {f} \in SUBSET (Files \cup Writes)
        OBVIOUS
      <3> QED
        BY <2>1, <3>1, PathTree, NewNodes DEF VRChatWrite
    <2>2. CASE fs[Source] # Absent
      <3> DEFINE d == Resolve(Source)
      <3>1. fs[d] \in Nodes /\ fs[d].kind \notin {"absent", "link"}
        BY <2>2, ResolvePath, PathsDiffer
        DEF VRChatWrite, Exists, TypeOK, PlainTargets
      <3>2. fs[d].kind = "dir" /\ fs[d].files \cup {f} \in SUBSET (Files \cup Writes)
        BY <3>1, NodeShape
      <3>3. fs' = [fs EXCEPT ![Resolve(Source)].files = fs[d].files \cup {f}]
        BY <2>2 DEF VRChatWrite
      <3> QED
        BY <3>2, <3>3, ResolvedTree
    <2> QED
      BY <2>1, <2>2
  <1>2. CASE UserDeletesBackup
    BY <1>2, PathTree, NewNodes DEF UserDeletesBackup
  <1>3. CASE \E r \in Runs : RunStep(r)
    BY <1>3, RunTree
  <1>4. CASE \E r \in Runs : Start(r)
    BY <1>0, <1>4 DEF Start, MigrateOneClick, RepairJunction
  <1> QED
    BY <1>0, <1>1, <1>2, <1>3, <1>4
    DEF Next, Environment, ToggleVRChat, Crash, Remount, Rescan, vars

\* What a run does to its own place and outcome, and to the page's flag.
ControlTyped ==
  /\ pc \in [Runs -> Labels] /\ busy \in BOOLEAN
  /\ result \in [Runs -> Outcomes \cup {None}]

LEMMA GotoTyped ==
  ASSUME TypeInv, NEW r \in Runs, NEW label \in Labels, Goto(r, label)
  PROVE  ControlTyped' /\ pc' = [pc EXCEPT ![r] = label]
  BY DEF TypeInv, TypeOK, Goto, ControlTyped

LEMMA FinishTyped ==
  ASSUME TypeInv, NEW r \in Runs, NEW code \in Outcomes, Finish(r, code)
  PROVE  ControlTyped' /\ pc' = [pc EXCEPT ![r] = "ended"]
  BY DEF TypeInv, TypeOK, Finish, ControlTyped, Labels

\* A step of a run is a step of an active run, and keeps the run's parameters.
LEMMA RunControl ==
  ASSUME TypeInv, NEW r \in Runs, RunStep(r)
  PROVE  /\ ControlTyped'
         /\ pc[r] \notin {"idle", "ended"}
         /\ \E label \in Labels \ {"idle"} : pc' = [pc EXCEPT ![r] = label]
         /\ UNCHANGED <<vrc, tgt, repair>>
  <1> DEFINE Goal == /\ ControlTyped'
                     /\ pc[r] \notin {"idle", "ended"}
                     /\ \E label \in Labels \ {"idle"} : pc' = [pc EXCEPT ![r] = label]
                     /\ UNCHANGED <<vrc, tgt, repair>>
  <1> USE DEF Labels, Outcomes, Quiet
  <1>1. CASE Preflight(r)
    BY <1>1, GotoTyped, FinishTyped DEF Preflight
  <1>2. CASE ExecutePreflight(r)
    BY <1>2, GotoTyped, FinishTyped DEF ExecutePreflight
  <1>3. CASE ExecuteCheck(r)
    BY <1>3, GotoTyped, FinishTyped DEF ExecuteCheck
  <1>4. CASE OpenSource(r)
    BY <1>4, GotoTyped DEF OpenSource
  <1>5. CASE \E f \in Files \cup Writes : CopyFile(r, f)
    BY <1>5, GotoTyped, FinishTyped DEF CopyFile
  <1>6. CASE CopyDone(r)
    BY <1>6, GotoTyped DEF CopyDone
  <1>7. CASE Verify(r)
    BY <1>7, GotoTyped, FinishTyped DEF Verify
  <1>8. CASE Swap(r)
    BY <1>8, GotoTyped, FinishTyped DEF Swap
  <1>9. CASE Restore(r)
    BY <1>9, FinishTyped DEF Restore
  <1>10. CASE ProbeJunction(r)
    BY <1>10, GotoTyped DEF ProbeJunction
  <1>11. CASE \E f \in Files \cup Writes : CleanupFile(r, f)
    BY <1>11, GotoTyped DEF CleanupFile
  <1>12. CASE CleanupDone(r)
    BY <1>12, FinishTyped DEF CleanupDone
  <1>13. CASE JunctionMkdir(r)
    BY <1>13, GotoTyped, FinishTyped DEF JunctionMkdir, JunctionFailed
  <1>14. CASE JunctionOpen(r)
    BY <1>14, GotoTyped, FinishTyped DEF JunctionOpen, JunctionFailed
  <1>15. CASE JunctionWrite(r)
    BY <1>15, GotoTyped, FinishTyped DEF JunctionWrite, JunctionFailed
  <1>16. CASE RepairUnlink(r)
    BY <1>16, GotoTyped, FinishTyped DEF RepairUnlink
  <1> QED
    BY <1>1, <1>2, <1>3, <1>4, <1>5, <1>6, <1>7, <1>8, <1>9, <1>10, <1>11,
       <1>12, <1>13, <1>14, <1>15, <1>16 DEF RunStep

\* The lists of a copy, and the page's report.
ListsTyped ==
  /\ report \in Targets \cup {None}
  /\ todo \in [Runs -> SUBSET (Files \cup Writes)]
  /\ skipped \in [Runs -> SUBSET (Files \cup Writes)]
  /\ seen \in [Runs -> SUBSET (Files \cup Writes)]

LEMMA RunLists ==
  ASSUME TypeInv, NEW r \in Runs, RunStep(r)
  PROVE  ListsTyped'
  <1> USE DEF TypeInv
  <1>1. CASE OpenSource(r)
    <2>1. fs[Resolve(Source)] \in Nodes
      BY ResolvePath, PathsDiffer DEF TypeOK
    <2>2. FilesAt(Source) \in SUBSET (Files \cup Writes)
      BY <2>1, NodeShape DEF FilesAt
    <2>3. Listings(Source) \subseteq SUBSET FilesAt(Source)
      BY DEF Listings
    <2> HIDE DEF TypeInv
    <2> QED
      BY <1>1, <2>2, <2>3 DEF OpenSource, TypeInv, TypeOK, ListsTyped
  <1>2. CASE \E f \in Files \cup Writes : CopyFile(r, f)
    BY <1>2 DEF CopyFile, TypeOK, ListsTyped
  <1>3. CASE UNCHANGED <<report, todo, skipped, seen>>
    BY <1>3 DEF TypeOK, ListsTyped
  <1> QED
    BY <1>1, <1>2, <1>3
    DEF RunStep, Preflight, ExecutePreflight, ExecuteCheck, CopyDone, Verify,
        Swap, Restore, ProbeJunction, CleanupFile, CleanupDone, JunctionMkdir,
        JunctionOpen, JunctionWrite, RepairUnlink, Quiet

\* A target is a directory when a run begins to copy.
LEMMA RunTarget ==
  ASSUME TypeInv, NEW r \in Runs, RunStep(r)
  PROVE  TargetMade'
  <1> USE DEF TypeInv
  <1>1. TargetsStay /\ tgt' = tgt
    BY RunTree, RunControl
  <1>2. \A q \in Runs : q # r => pc'[q] = pc[q]
    BY RunControl DEF TypeOK
  <1>3. pc'[r] \in {"open", "copy", "verify", "swap"} => fs'[tgt[r]].kind = "dir"
    <2>1. CASE ExecuteCheck(r)
      <3>1. tgt[r] \in Targets
        BY <2>1 DEF ExecuteCheck, HasTarget
      <3>2. CASE fs' = Made(tgt[r])
        BY <3>1, <3>2, MadeTree
      <3>3. CASE ~(fs' = Made(tgt[r]))
        BY <2>1, <3>3 DEF ExecuteCheck, Made, Finish, TypeOK
      <3> QED
        BY <3>2, <3>3
    <2>2. CASE pc[r] \in {"open", "copy", "verify", "swap"}
      BY <1>1, <2>2 DEF TargetMade, TargetsStay, HasTarget
    <2>3. CASE pc'[r] \notin {"open", "copy", "verify", "swap"}
      BY <2>3
    <2> QED
      BY <2>1, <2>2, <2>3
      DEF RunStep, Preflight, ExecutePreflight, OpenSource, CopyFile, CopyDone,
          Verify, Swap, Restore, ProbeJunction, CleanupFile, CleanupDone,
          JunctionMkdir, JunctionOpen, JunctionWrite, RepairUnlink, Goto, Finish,
          JunctionFailed, TypeOK
  <1> QED
    BY <1>1, <1>2, <1>3 DEF TargetMade, TargetsStay, HasTarget

LEMMA TypeStep == TypeInv /\ [Next]_vars => TypeInv'
  <1> SUFFICES ASSUME TypeInv, [Next]_vars PROVE TypeInv'
    OBVIOUS
  <1> USE DEF TypeInv
  <1>1. TreeTyped' /\ TargetsStay
    BY NextTree
  <1>2. CASE \E r \in Runs : RunStep(r)
    <2> PICK r \in Runs : RunStep(r)
      BY <1>2
    <2>1. ControlTyped' /\ ListsTyped' /\ TargetMade' /\ UNCHANGED <<vrc, tgt, repair>>
      BY RunControl, RunLists, RunTarget
    <2>2. HasTarget'
      BY RunControl DEF HasTarget, TypeOK
    <2> QED
      BY <1>1, <2>1, <2>2 DEF TypeOK, TreeTyped, ControlTyped, ListsTyped
  <1>3. CASE \E r \in Runs : Start(r)
    <2> PICK r \in Runs, t \in Targets : MigrateOneClick(r, t) \/ RepairJunction(r, t)
      BY <1>3 DEF Start
    <2>1. CASE MigrateOneClick(r, t)
      BY <1>1, <2>1
      DEF MigrateOneClick, TypeOK, TreeTyped, Labels, HasTarget, TargetMade
    <2>2. CASE RepairJunction(r, t)
      BY <1>1, <2>2
      DEF RepairJunction, TypeOK, TreeTyped, Labels, Outcomes, HasTarget, TargetMade
    <2> QED
      BY <2>1, <2>2
  <1>4. CASE Environment
    <2>1. CASE Crash
      BY <1>1, <2>1 DEF Crash, TypeOK, TreeTyped, Labels, Outcomes, HasTarget,
                        TargetMade, Active
    <2>2. CASE ToggleVRChat \/ UserDeletesBackup \/ Remount \/ Rescan
               \/ \E f \in Writes : VRChatWrite(f)
      <3>1. UNCHANGED <<pc, tgt, repair, todo, skipped, seen, result>>
        BY <2>2 DEF ToggleVRChat, UserDeletesBackup, Remount, Rescan, VRChatWrite
      <3>2. vrc' \in BOOLEAN /\ busy' \in BOOLEAN /\ report' \in Targets \cup {None}
        BY <2>2, ScannedTyped
        DEF ToggleVRChat, UserDeletesBackup, Remount, Rescan, VRChatWrite, TypeOK
      <3> QED
        BY <1>1, <3>1, <3>2
        DEF TypeOK, TreeTyped, HasTarget, TargetMade, TargetsStay
    <2> QED
      BY <1>4, <2>1, <2>2 DEF Environment
  <1>5. CASE UNCHANGED vars
    BY <1>1, <1>5 DEF vars, TypeOK, TreeTyped, HasTarget, TargetMade
  <1> QED
    BY <1>2, <1>3, <1>4, <1>5 DEF Next

\* Every variable of a migration keeps its type, whatever interleaves: for the
\* execute and Repair handlers, a run that copies has a target directory.
THEOREM TypeCorrect == Spec => []TypeOK
  <1>1. TypeInv => TypeOK
    BY DEF TypeInv
  <1> QED
    BY <1>1, TypeInit, TypeStep, PTL DEF Spec
------------------------------------------------------------------------------
(* One operation at a time                                                 *)

\* No target loses a file: the cleanup works on the backup, a plain directory.
TargetsGrow == \A t \in Targets : fs[t].files \subseteq fs'[t].files

LEMMA Grow ==
  ASSUME TypeInv, BackupPlain, [Next]_vars
  PROVE  TargetsGrow
  <1> USE DEF TypeInv
  <1>0. CASE \A t \in Targets : fs'[t] = fs[t]
    BY <1>0 DEF TargetsGrow
  <1>1. ASSUME NEW r \in Runs, RunStep(r)
        PROVE  TargetsGrow
    <2>1. CASE ExecuteCheck(r) \/ RepairUnlink(r)
      <3>1. tgt[r] \in Targets
        BY <2>1 DEF ExecuteCheck, RepairUnlink, HasTarget
      <3>2. fs' \in {fs, Made(tgt[r]), [Made(tgt[r]) EXCEPT ![Source] = Absent]}
        BY <2>1 DEF ExecuteCheck, RepairUnlink, Made
      <3>3. \A t \in Targets : fs[t].files \subseteq Made(tgt[r])[t].files
        BY <3>1, PathsDiffer DEF Made, Absent, TypeOK
      <3> QED
        BY <3>2, <3>3, <3>1, MadeTree, PathsDiffer DEF TargetsGrow
    <2>2. CASE \E f \in Files \cup Writes : CopyFile(r, f)
      <3> PICK f \in Files \cup Writes : CopyFile(r, f)
        BY <2>2
      <3> DEFINE t == tgt[r]  F == fs[t].files \cup {f}
      <3>1. CASE UNCHANGED fs
        BY <1>0, <3>1
      <3>2. CASE /\ t \in Targets /\ F \in SUBSET (Files \cup Writes)
                 /\ fs' = [fs EXCEPT ![t] = Dir(F)]
        <4>1. Dir(F).files = F /\ fs[t].files \subseteq F
          BY NewNodes, <3>2
        <4> HIDE DEF t, F
        <4> QED
          BY <3>2, <4>1, PathsDiffer DEF TypeOK, TargetsGrow
      <3> QED
        BY <3>1, <3>2, CopyEffect
    <2>3. CASE \E f \in Files \cup Writes : CleanupFile(r, f)
      <3>1. Resolve(Backup) = Backup
        BY ResolvePath, PathsDiffer DEF BackupPlain
      <3> QED
        BY <1>0, <2>3, <3>1, PathsDiffer DEF CleanupFile, TypeOK
    <2> QED
      BY <1>0, <1>1, <2>1, <2>2, <2>3, PathsDiffer
      DEF RunStep, Preflight, ExecutePreflight, OpenSource, CopyDone, Verify,
          Swap, Restore, ProbeJunction, CleanupDone, JunctionMkdir, JunctionOpen,
          JunctionWrite, TypeOK
  <1>2. ASSUME NEW f \in Writes, VRChatWrite(f)
        PROVE  TargetsGrow
    <2>1. Resolve(Source) \in Paths
      BY ResolvePath, PathsDiffer
    <2> QED
      BY <1>0, <1>2, <2>1, PathsDiffer DEF VRChatWrite, TypeOK, TargetsGrow
  <1> QED
    BY <1>0, <1>1, <1>2, PathsDiffer
    DEF Next, Environment, Start, MigrateOneClick, RepairJunction, ToggleVRChat,
        UserDeletesBackup, Crash, Remount, Rescan, vars, TypeOK

\* What an iterator left out stays left out.
LEMMA KeptShrinks ==
  ASSUME TypeInv, [Next]_vars
  PROVE  Kept' \subseteq Kept
  <1>1. \A q \in Runs : skipped[q] \subseteq skipped'[q]
    <2>1. ASSUME NEW r \in Runs, OpenSource(r)
          PROVE  \A q \in Runs : skipped[q] \subseteq skipped'[q]
      BY <2>1 DEF OpenSource, TypeInv, TypeOK
    <2>2. CASE skipped' = skipped
      BY <2>2
    <2> QED
      BY <2>1, <2>2
      DEF Next, Environment, Start, MigrateOneClick, RepairJunction, ToggleVRChat,
          UserDeletesBackup, Crash, Remount, Rescan, VRChatWrite, vars, RunStep,
          Preflight, ExecutePreflight, ExecuteCheck, CopyFile, CopyDone, Verify, Swap,
          Restore, ProbeJunction, CleanupFile, CleanupDone, JunctionMkdir, JunctionOpen,
          JunctionWrite, RepairUnlink, Quiet
  <1> QED
    BY <1>1 DEF Kept

\* A target that holds the whole cache goes on holding it.
LEMMA InTargetStays ==
  ASSUME TypeInv, BackupPlain, [Next]_vars, InTarget
  PROVE  InTarget'
  BY Grow, KeptShrinks DEF InTarget, Whole, TargetsGrow

\* The user's operations exclude each other.
LEMMA SoloStep ==
  ASSUME OneAtATime, TypeInv, Solo, [Next]_vars
  PROVE  Solo'
  <1> USE DEF TypeInv, Solo, Active
  <1>1. CASE \E r \in Runs : RunStep(r)
    BY <1>1, RunControl DEF TypeOK
  <1>2. CASE \E r \in Runs : Start(r)
    BY <1>2 DEF Start, MigrateOneClick, RepairJunction, MayStart, AllQuiet, TypeOK
  <1>3. CASE Environment \/ UNCHANGED vars
    BY <1>3 DEF Environment, ToggleVRChat, UserDeletesBackup, Crash, Remount, Rescan,
                VRChatWrite, vars
  <1> QED
    BY <1>1, <1>2, <1>3 DEF Next

\* While one run is active the others stand still.
LEMMA OthersQuiet ==
  ASSUME TypeInv, Solo, NEW r \in Runs, RunStep(r), NEW q \in Runs, q # r
  PROVE  pc'[q] = pc[q] /\ pc[q] \in {"idle", "ended"}
  BY RunControl DEF TypeInv, TypeOK, Solo, Active

BeforeSwap == {"execute", "check", "open", "copy", "verify", "swap"}

\* The source is no junction until the swap, and so the backup is none after it.
LEMMA PlainStep ==
  ASSUME OneAtATime, TypeInv, Solo, BackupPlain, SourcePlain, [Next]_vars
  PROVE  BackupPlain' /\ SourcePlain'
  <1> USE DEF TypeInv, BackupPlain, SourcePlain
  <1>0. fs[Source] \in Nodes /\ fs[Backup] \in Nodes
    BY PathsDiffer DEF TypeOK
  <1>1. CASE \E r \in Runs : RunStep(r)
    <2> PICK r \in Runs : RunStep(r)
      BY <1>1
    <2>1. pc'[r] \in BeforeSwap =>
            /\ fs[Source].kind # "link"
            /\ fs'[Source] = fs[Source] \/ fs'[Source].kind # "link"
      <3>1. ASSUME NEW f \in Files \cup Writes, CopyFile(r, f)
            PROVE  fs'[Source] = fs[Source]
        BY <3>1, PathsDiffer DEF CopyFile, HasTarget, TypeOK
      <3>2. CASE ExecuteCheck(r)
        BY <3>2, PathsDiffer
        DEF ExecuteCheck, HasTarget, TypeOK, Goto, Finish, BeforeSwap
      <3> QED
        BY <3>1, <3>2
        DEF BeforeSwap, RunStep, Preflight, ExecutePreflight, OpenSource, CopyFile,
            CopyDone, Verify, Swap, Restore, ProbeJunction, CleanupFile,
            CleanupDone, JunctionMkdir, JunctionOpen, JunctionWrite, RepairUnlink,
            Goto, Finish, JunctionFailed, TypeOK
    <2>2. SourcePlain'
      BY <2>1, OthersQuiet DEF BeforeSwap
    <2>3. BackupPlain'
      <3>1. CASE Swap(r)
        BY <3>1, <1>0, PathsDiffer DEF Swap, TypeOK
      <3>2. CASE Restore(r) \/ CleanupDone(r)
        BY <3>2, PathsDiffer, NewNodes DEF Restore, CleanupDone, TypeOK
      <3>3. ASSUME NEW f \in Files \cup Writes, CleanupFile(r, f)
            PROVE  BackupPlain'
        <4>1. Resolve(Backup) = Backup
          BY ResolvePath, PathsDiffer
        <4>2. fs'[Backup].kind = fs[Backup].kind
          BY <3>3, <4>1, <1>0, NodeShape, PathsDiffer
          DEF CleanupFile, TypeOK, Dir, Absent
        <4> QED
          BY <4>2
      <3>4. ASSUME NEW f \in Files \cup Writes, CopyFile(r, f)
            PROVE  fs'[Backup] = fs[Backup]
        BY <3>4, PathsDiffer DEF CopyFile, HasTarget, TypeOK
      <3>5. CASE ExecuteCheck(r)
        BY <3>5, PathsDiffer DEF ExecuteCheck, HasTarget, TypeOK
      <3>6. CASE RepairUnlink(r)
        BY <3>6, PathsDiffer DEF RepairUnlink, HasTarget, TypeOK
      <3> QED
        BY <3>1, <3>2, <3>3, <3>4, <3>5, <3>6, PathsDiffer
        DEF RunStep, Preflight, ExecutePreflight, OpenSource, CopyDone, Verify,
            ProbeJunction, JunctionMkdir, JunctionOpen, JunctionWrite, TypeOK
    <2> QED
      BY <2>2, <2>3
  <1>2. CASE \E f \in Writes : VRChatWrite(f)
    <2> PICK f \in Writes : VRChatWrite(f)
      BY <1>2
    <2>1. fs[Source].kind # "link" => fs'[Source].kind # "link"
      <3>1. CASE fs[Source].kind # "link"
        <4>1. Resolve(Source) = Source
          BY <3>1, ResolvePath, PathsDiffer
        <4> QED
          BY <3>1, <4>1, <1>0, NodeShape, PathsDiffer
          DEF VRChatWrite, TypeOK, Dir, Absent
      <3> QED
        BY <3>1
    <2>2. fs'[Backup] = fs[Backup]
      <3>1. Resolve(Source) # Backup
        BY ResolvePath, PathsDiffer
      <3> QED
        BY <3>1, PathsDiffer DEF VRChatWrite, TypeOK
    <2>3. pc' = pc
      BY DEF VRChatWrite
    <2> QED
      BY <2>1, <2>2, <2>3
  <1>3. CASE \E r \in Runs : Start(r)
    BY <1>3 DEF Start, MigrateOneClick, RepairJunction, TypeOK
  <1>4. CASE UserDeletesBackup
    BY <1>4, PathsDiffer, NewNodes DEF UserDeletesBackup, TypeOK
  <1>5. CASE ToggleVRChat \/ Crash \/ Remount \/ Rescan \/ UNCHANGED vars
    BY <1>5 DEF ToggleVRChat, Crash, Remount, Rescan, vars, Active
  <1> QED
    BY <1>1, <1>2, <1>3, <1>4, <1>5 DEF Next, Environment

\* What a run has copied is in its target, and stays there.
LEMMA SeenStep ==
  ASSUME OneAtATime, SafeInv, [Next]_vars
  PROVE  SeenStored'
  <1> USE DEF SafeInv, TypeInv
  <1>0. TargetsGrow
    BY Grow
  <1>1. CASE \E r \in Runs : RunStep(r)
    <2> PICK r \in Runs : RunStep(r)
      BY <1>1
    <2>1. tgt' = tgt /\ \A q \in Runs : q # r => pc'[q] = pc[q] /\ pc[q] \in {"idle", "ended"}
      BY RunControl, OthersQuiet
    <2>2. \A q \in Runs : q # r => seen'[q] = seen[q]
      BY DEF RunStep, Preflight, ExecutePreflight, ExecuteCheck, OpenSource, CopyFile,
             CopyDone, Verify, Swap, Restore, ProbeJunction, CleanupFile, CleanupDone,
             JunctionMkdir, JunctionOpen, JunctionWrite, RepairUnlink, Quiet, TypeOK
    <2>3. /\ pc'[r] \in {"idle", "preflight", "execute", "check", "open"} => seen'[r] = {}
          /\ pc'[r] \in {"copy", "verify", "swap"} => seen'[r] \subseteq fs'[tgt[r]].files
      <3>1. CASE \E f \in Files \cup Writes : CopyFile(r, f)
        <4> PICK f \in Files \cup Writes : CopyFile(r, f)
          BY <3>1
        <4>1. CASE UNCHANGED <<fs, seen>> /\ pc'[r] # "copy"
          BY <4>1 DEF CopyFile, Finish, Goto, TypeOK
        <4>2. CASE /\ tgt[r] \in Targets
                   /\ fs[tgt[r]].files \cup {f} \in SUBSET (Files \cup Writes)
                   /\ fs' = [fs EXCEPT ![tgt[r]] = Dir(fs[tgt[r]].files \cup {f})]
                   /\ seen' = [seen EXCEPT ![r] = seen[r] \cup {f}]
                   /\ pc' = pc
          <5>1. fs'[tgt[r]].files = fs[tgt[r]].files \cup {f}
            BY <4>2, NewNodes, PathsDiffer DEF TypeOK
          <5>2. seen[r] \subseteq fs[tgt[r]].files /\ pc[r] = "copy"
            BY DEF CopyFile, SeenStored
          <5>3. seen'[r] = seen[r] \cup {f}
            BY <4>2 DEF TypeOK
          <5> QED
            BY <4>2, <5>1, <5>2, <5>3
        <4> QED
          BY <4>1, <4>2, CopyEffect
      <3>2. CASE ~ \E f \in Files \cup Writes : CopyFile(r, f)
        <4>1. seen' = seen
          BY <3>2 DEF RunStep, Preflight, ExecutePreflight, ExecuteCheck, OpenSource,
             CopyDone, Verify, Swap, Restore, ProbeJunction, CleanupFile, CleanupDone,
             JunctionMkdir, JunctionOpen, JunctionWrite, RepairUnlink, Quiet
        <4>2. pc'[r] \in {"idle", "preflight", "execute", "check", "open"}
                => pc[r] \in {"preflight", "execute", "check"}
          BY <3>2
          DEF RunStep, Preflight, ExecutePreflight, ExecuteCheck, OpenSource,
             CopyDone, Verify, Swap, Restore, ProbeJunction, CleanupFile, CleanupDone,
             JunctionMkdir, JunctionOpen, JunctionWrite, RepairUnlink, Goto, Finish,
             JunctionFailed, TypeOK
        <4>3. pc'[r] \in {"copy", "verify", "swap"} => pc[r] \in {"open", "copy", "verify"}
          BY <3>2
          DEF RunStep, Preflight, ExecutePreflight, ExecuteCheck, OpenSource,
             CopyDone, Verify, Swap, Restore, ProbeJunction, CleanupFile, CleanupDone,
             JunctionMkdir, JunctionOpen, JunctionWrite, RepairUnlink, Goto, Finish,
             JunctionFailed, TypeOK
        <4>4. tgt[r] \in Targets
          BY RunControl DEF HasTarget
        <4> QED
          BY <1>0, <4>1, <4>2, <4>3, <4>4 DEF SeenStored, TargetsGrow
      <3> QED
        BY <3>1, <3>2
    <2> QED
      BY <2>1, <2>2, <2>3 DEF SeenStored
  <1>2. CASE \E r \in Runs : Start(r)
    BY <1>2 DEF Start, MigrateOneClick, RepairJunction, SeenStored, TypeOK, Solo,
                MayStart, AllQuiet, Active
  <1>3. CASE Crash
    BY <1>3 DEF Crash, Active, SeenStored, TypeOK
  <1>4. CASE UNCHANGED <<pc, tgt, seen>>
    BY <1>0, <1>4 DEF SeenStored, TargetsGrow, HasTarget
  <1> QED
    BY <1>1, <1>2, <1>3, <1>4
    DEF Next, Environment, ToggleVRChat, UserDeletesBackup, Remount, Rescan, VRChatWrite, vars

\* The listing the copy works on covers the cache, or a target holds it already.
LEMMA CoverStep ==
  ASSUME OneAtATime, SafeInv, [Next]_vars
  PROVE  CopyCovers' /\ SwapSafe'
  <1> USE DEF SafeInv, TypeInv
  <1>0. (InTarget => InTarget') /\ Kept' \subseteq Kept
    BY InTargetStays, KeptShrinks
  <1>1. CASE \E r \in Runs : RunStep(r)
    <2> PICK r \in Runs : RunStep(r)
      BY <1>1
    <2>1. \A q \in Runs : q # r => pc'[q] = pc[q] /\ pc[q] \in {"idle", "ended"}
      BY OthersQuiet
    <2>2. pc'[r] = "copy" => Kept' \subseteq todo'[r] \/ InTarget'
      <3>1. CASE OpenSource(r)
        <4>1. fs[Source] \in Nodes /\ fs[Source].kind # "link" /\ Resolve(Source) = Source
          BY <3>1, ResolvePath, PathsDiffer DEF OpenSource, SourcePlain, TypeOK
        <4>2. FilesAt(Source) \ todo'[r] \subseteq skipped'[r]
          BY <3>1 DEF OpenSource, TypeOK
        <4>3. CASE Whole(Source)
          <5>1. Kept \subseteq FilesAt(Source)
            BY <4>1, <4>3 DEF Whole, FilesAt
          <5>2. Kept' \cap skipped'[r] = {}
            BY DEF Kept
          <5> QED
            BY <1>0, <4>2, <5>1, <5>2
        <4>4. CASE ~Whole(Source)
          BY <1>0, <4>4 DEF CacheSurvives, InTarget
        <4> QED
          BY <4>3, <4>4
      <3>2. CASE ~OpenSource(r)
        <4>1. pc'[r] = "copy" => pc[r] = "copy" /\ todo' = todo
          BY <3>2
          DEF RunStep, Preflight, ExecutePreflight, ExecuteCheck, CopyFile,
             CopyDone, Verify, Swap, Restore, ProbeJunction, CleanupFile, CleanupDone,
             JunctionMkdir, JunctionOpen, JunctionWrite, RepairUnlink, Goto, Finish,
             JunctionFailed, Quiet, TypeOK
        <4> QED
          BY <1>0, <4>1 DEF CopyCovers
      <3> QED
        BY <3>1, <3>2
    <2>3. pc'[r] \in {"verify", "swap"} => InTarget'
      <3>1. CASE CopyDone(r)
        <4>1. pc[r] = "copy" /\ todo[r] \subseteq seen[r] /\ fs' = fs
          BY <3>1 DEF CopyDone
        <4>2. CASE Kept \subseteq todo[r]
          <5>1. tgt[r] \in Targets
            BY <4>1 DEF HasTarget
          <5>2. Kept \subseteq fs[tgt[r]].files
            BY <4>1, <4>2 DEF SeenStored
          <5> QED
            BY <1>0, <5>1, <5>2 DEF InTarget, Whole
        <4> QED
          BY <1>0, <4>1, <4>2 DEF CopyCovers
      <3>2. CASE ~CopyDone(r)
        <4>1. pc'[r] \in {"verify", "swap"} => pc[r] \in {"verify", "swap"}
          BY <3>2
          DEF RunStep, Preflight, ExecutePreflight, ExecuteCheck, OpenSource, CopyFile,
             Verify, Swap, Restore, ProbeJunction, CleanupFile, CleanupDone,
             JunctionMkdir, JunctionOpen, JunctionWrite, RepairUnlink, Goto, Finish,
             JunctionFailed, TypeOK
        <4> QED
          BY <1>0, <4>1 DEF SwapSafe
      <3> QED
        BY <3>1, <3>2
    <2> QED
      BY <1>0, <2>1, <2>2, <2>3 DEF CopyCovers, SwapSafe
  <1>2. CASE \E r \in Runs : Start(r)
    BY <1>0, <1>2 DEF Start, MigrateOneClick, RepairJunction, CopyCovers, SwapSafe, TypeOK
  <1>3. CASE Crash
    BY <1>0, <1>3 DEF Crash, Active, CopyCovers, SwapSafe, TypeOK
  <1>4. CASE UNCHANGED <<pc, todo>>
    BY <1>0, <1>4 DEF CopyCovers, SwapSafe
  <1> QED
    BY <1>1, <1>2, <1>3, <1>4
    DEF Next, Environment, ToggleVRChat, UserDeletesBackup, Remount, Rescan, VRChatWrite, vars

\* A source that can be removed, or that is not there, holds no file.
LEMMA RemovableNotWhole ==
  ASSUME TypeOK, Kept # {}, Whole(Source)
  PROVE  fs[Source].kind = "dir" /\ fs[Source] # Absent /\ ~Removable(Source)
  <1>1. fs[Source] \in Nodes /\ fs[Source].files # {}
    BY PathsDiffer DEF Whole, TypeOK
  <1> QED
    BY <1>1, NodeShape DEF Removable, Absent, Dir

\* A step that changes the source leaves the cache there or in a target.
LEMMA SurviveStep ==
  ASSUME OneAtATime, SafeInv, [Next]_vars
  PROVE  CacheSurvives'
  <1> USE DEF SafeInv, TypeInv
  <1>0. CASE InTarget
    BY <1>0, InTargetStays DEF InTarget, CacheSurvives
  <1>K. Kept' \subseteq Kept
    BY KeptShrinks
  <1>2. CASE Kept = {}
    BY <1>K, <1>2 DEF CacheSurvives, Whole
  <1>1. CASE ~InTarget /\ Kept # {}
    <2>0. Whole(Source) /\ fs[Source].kind = "dir" /\ fs[Source] # Absent /\ ~Removable(Source)
      BY <1>1, RemovableNotWhole DEF CacheSurvives, InTarget
    <2>1. CASE fs'[Source] = fs[Source]
      BY <1>K, <2>0, <2>1 DEF Whole, CacheSurvives
    <2>2. ASSUME NEW r \in Runs, RunStep(r)
          PROVE  fs'[Source] = fs[Source]
      <3>1. ASSUME NEW f \in Files \cup Writes, CopyFile(r, f)
            PROVE  fs'[Source] = fs[Source]
        BY <3>1, CopyEffect, PathsDiffer DEF TypeOK
      <3>2. ASSUME NEW f \in Files \cup Writes, CleanupFile(r, f)
            PROVE  fs'[Source] = fs[Source]
        <4>1. Resolve(Backup) = Backup
          BY ResolvePath, PathsDiffer DEF BackupPlain
        <4> QED
          BY <3>2, <4>1, PathsDiffer DEF CleanupFile, TypeOK
      <3>3. CASE ExecuteCheck(r)
        BY <3>3, PathsDiffer DEF ExecuteCheck, HasTarget, TypeOK
      <3>4. CASE Swap(r)
        BY <1>1, <3>4 DEF Swap, SwapSafe
      <3>5. CASE RepairUnlink(r)
        BY <2>0, <3>5, PathsDiffer DEF RepairUnlink, HasTarget, TypeOK
      <3>6. CASE CleanupDone(r)
        BY <3>6, PathsDiffer DEF CleanupDone, TypeOK
      <3> QED
        BY <2>0, <2>2, <3>1, <3>2, <3>3, <3>4, <3>5, <3>6
        DEF RunStep, Preflight, ExecutePreflight, OpenSource, CopyDone, Verify,
            Restore, ProbeJunction, JunctionMkdir, JunctionOpen, JunctionWrite
    <2>3. ASSUME NEW f \in Writes, VRChatWrite(f)
          PROVE  Whole(Source)'
      <3>1. Resolve(Source) = Source /\ fs[Source] \in Nodes
        BY <2>0, ResolvePath, PathsDiffer DEF TypeOK
      <3>2. fs[Source].files \cup {f} \in SUBSET (Files \cup Writes)
        BY <3>1, NodeShape
      <3>3. fs' = [fs EXCEPT ![Source].files = fs[Source].files \cup {f}]
        BY <2>0, <2>3, <3>1 DEF VRChatWrite
      <3>4. fs'[Source] = Dir(fs[Source].files \cup {f})
        BY <2>0, <3>1, <3>2, <3>3, SetFiles, PathsDiffer DEF TypeOK
      <3> QED
        BY <1>K, <2>0, <3>2, <3>4, NewNodes DEF Whole
    <2> QED
      BY <2>1, <2>2, <2>3, PathsDiffer
      DEF CacheSurvives, Next, Environment, Start, MigrateOneClick, RepairJunction,
          ToggleVRChat, UserDeletesBackup, Crash, Remount, Rescan, vars, TypeOK
  <1> QED
    BY <1>0, <1>1, <1>2

LEMMA SafeInit == Init => SafeInv
  <1> SUFFICES ASSUME Init PROVE SafeInv
    OBVIOUS
  <1>1. TypeInv
    BY TypeInit
  <1>2. BackupPlain /\ CacheSurvives
    <2>1. CASE fs = Fresh
      BY <2>1, PathsDiffer DEF Fresh, BackupPlain, CacheSurvives, Whole, Kept, Absent, Dir
    <2>2. ASSUME NEW t \in Targets, fs = Moved(t)
          PROVE  BackupPlain /\ CacheSurvives
      BY <2>2, PathsDiffer DEF Moved, BackupPlain, CacheSurvives, Whole, Kept, Absent, Dir
    <2> QED
      BY <2>1, <2>2 DEF Init
  <1>3. Solo /\ SourcePlain /\ SeenStored /\ CopyCovers /\ SwapSafe
    BY DEF Init, Solo, Active, SourcePlain, SeenStored, CopyCovers, SwapSafe
  <1> QED
    BY <1>1, <1>2, <1>3 DEF SafeInv

LEMMA SafeStep == OneAtATime /\ SafeInv /\ [Next]_vars => SafeInv'
  BY TypeStep, SoloStep, PlainStep, SeenStep, CoverStep, SurviveStep DEF SafeInv

\* A user who runs one operation at a time loses only what the copy's iterator
\* left out: whatever step of execute, createJunction or Repair fails, whenever
\* VRCSM dies and whatever VRChat writes, the source or one target holds every
\* other file of the original cache.
THEOREM CacheIsSafe == OneAtATime => (Spec => []CacheSurvives)
  <1> SUFFICES ASSUME OneAtATime PROVE Spec => []CacheSurvives
    OBVIOUS
  <1>1. SafeInv /\ [Next]_vars => SafeInv'
    BY SafeStep
  <1>2. SafeInv => CacheSurvives
    BY DEF SafeInv
  <1> QED
    BY <1>1, <1>2, SafeInit, PTL DEF Spec

\* Under the same discipline the cleanup of execute and the unlinking of Repair
\* never delete a file in a target directory.
THEOREM TargetsAreSafe == OneAtATime => (Spec => TargetsNeverShrink)
  <1> SUFFICES ASSUME OneAtATime PROVE Spec => TargetsNeverShrink
    OBVIOUS
  <1>1. SafeInv /\ [Next]_vars => SafeInv'
    BY SafeStep
  <1>2. SafeInv /\ [Next]_vars => [\A t \in Targets : fs[t].files \subseteq fs'[t].files]_fs
    BY Grow DEF SafeInv, TargetsGrow
  <1> QED
    BY <1>1, <1>2, SafeInit, PTL DEF Spec, TargetsNeverShrink
------------------------------------------------------------------------------
(* The leftover backup                                                     *)

(* A migration owns the backup from its swap to its last step; a result is  *)
(* final, so an explanation stays one; a repair never comes to a step that  *)
(* renames or deletes the backup.                                           *)

Holding(r) == /\ ~repair[r]
              /\ pc[r] \in {"junction", "junction_open", "junction_write",
                            "restore", "probe", "cleanup"}

Explained(r) == result[r] \in {"killed", "restore_failed", "done_backup_left"}

BackupHeld == fs[Backup] # Absent => \E r \in Runs : Holding(r) \/ Explained(r)

ResultsFinal == \A r \in Runs : result[r] # None => pc[r] = "ended"

RepairSteps ==
  \A r \in Runs : repair[r] =>
    pc[r] \in {"unlink", "junction", "junction_open", "junction_write", "ended"}

LeftoverInv == BackupHeld /\ ResultsFinal /\ RepairSteps

\* A step of a run leaves the other runs alone.
LEMMA OthersAlone ==
  ASSUME TypeInv, NEW r \in Runs, RunStep(r)
  PROVE  \A q \in Runs : q # r => pc'[q] = pc[q] /\ result'[q] = result[q]
  BY DEF TypeInv, TypeOK, RunStep, Preflight, ExecutePreflight, ExecuteCheck, OpenSource,
         CopyFile, CopyDone, Verify, Swap, Restore, ProbeJunction, CleanupFile,
         CleanupDone, JunctionMkdir, JunctionOpen, JunctionWrite, RepairUnlink,
         JunctionFailed, Goto, Finish

\* Only a swap makes a backup.
LEMMA BackupMade ==
  ASSUME TypeInv, NEW r \in Runs, RunStep(r), ~Swap(r), fs[Backup] = Absent
  PROVE  fs'[Backup] = Absent
  <1> USE DEF TypeInv
  <1>1. ASSUME NEW f \in Files \cup Writes, CopyFile(r, f) PROVE fs'[Backup] = fs[Backup]
    BY <1>1, CopyEffect, PathsDiffer DEF TypeOK
  <1>2. ASSUME NEW f \in Files \cup Writes PROVE ~CleanupFile(r, f)
    BY DEF CleanupFile, FilesAt, Resolve, Absent
  <1>3. CASE ExecuteCheck(r) \/ RepairUnlink(r)
    BY <1>3, PathsDiffer DEF ExecuteCheck, RepairUnlink, HasTarget, TypeOK
  <1>4. CASE Restore(r) \/ CleanupDone(r)
    BY <1>4, PathsDiffer DEF Restore, CleanupDone, TypeOK
  <1>5. CASE ProbeJunction(r) \/ JunctionMkdir(r) \/ JunctionWrite(r)
    BY <1>5, PathsDiffer DEF ProbeJunction, JunctionMkdir, JunctionWrite, TypeOK
  <1> QED
    BY <1>1, <1>2, <1>3, <1>4, <1>5
    DEF RunStep, Preflight, ExecutePreflight, OpenSource, CopyDone, Verify, JunctionOpen

\* A migration that owns the backup keeps it in hand, gets rid of it, or ends
\* with an outcome that tells of it.
LEMMA HoldingStep ==
  ASSUME TypeInv, NEW r \in Runs, RunStep(r), Holding(r)
  PROVE  Holding(r)' \/ Explained(r)' \/ fs'[Backup] = Absent
  <1> USE DEF TypeInv, TypeOK, Holding, Explained, Goto, Finish, Quiet
  <1>1. CASE Restore(r)
    BY <1>1, PathsDiffer DEF Restore
  <1>2. CASE CleanupDone(r)
    BY <1>2, PathsDiffer DEF CleanupDone
  <1>3. CASE ProbeJunction(r)
    BY <1>3 DEF ProbeJunction
  <1>4. ASSUME NEW f \in Files \cup Writes, CleanupFile(r, f) PROVE Holding(r)'
    BY <1>4 DEF CleanupFile
  <1>5. CASE JunctionMkdir(r) \/ JunctionOpen(r) \/ JunctionWrite(r)
    BY <1>5 DEF JunctionMkdir, JunctionOpen, JunctionWrite, JunctionFailed
  <1> QED
    BY <1>1, <1>2, <1>3, <1>4, <1>5
    DEF RunStep, Preflight, ExecutePreflight, ExecuteCheck, OpenSource, CopyFile,
        CopyDone, Verify, Swap, RepairUnlink

\* A run that made a backup owns it.
LEMMA SwapHolds ==
  ASSUME TypeInv, RepairSteps, NEW r \in Runs, Swap(r)
  PROVE  fs'[Backup] = fs[Backup] \/ Holding(r)'
  BY DEF TypeInv, TypeOK, RepairSteps, Swap, Holding, Goto, Quiet

LEMMA LeftoverInit == Init => LeftoverInv
  BY PathsDiffer
  DEF Init, Fresh, Moved, LeftoverInv, BackupHeld, ResultsFinal, RepairSteps

LEMMA LeftoverStep == TypeInv /\ LeftoverInv /\ [Next]_vars => LeftoverInv'
  <1> SUFFICES ASSUME TypeInv, LeftoverInv, [Next]_vars PROVE LeftoverInv'
    OBVIOUS
  <1> USE DEF LeftoverInv
  <1>1. ASSUME NEW r \in Runs, RunStep(r) PROVE LeftoverInv'
    <2>1. \A q \in Runs : q # r => pc'[q] = pc[q] /\ result'[q] = result[q]
      BY <1>1, OthersAlone
    <2>2. repair' = repair /\ pc[r] \notin {"idle", "ended"} /\ result[r] = None
      BY <1>1, RunControl DEF ResultsFinal
    <2>3. result'[r] # None => pc'[r] = "ended"
      BY <1>1, <2>2
      DEF TypeInv, TypeOK, RunStep, Preflight, ExecutePreflight, ExecuteCheck, OpenSource,
          CopyFile, CopyDone, Verify, Swap, Restore, ProbeJunction, CleanupFile,
          CleanupDone, JunctionMkdir, JunctionOpen, JunctionWrite, RepairUnlink,
          JunctionFailed, Goto, Finish
    <2>4. repair[r] =>
            pc'[r] \in {"unlink", "junction", "junction_open", "junction_write", "ended"}
      BY <1>1, <2>2
      DEF RepairSteps, TypeInv, TypeOK, RunStep, Preflight, ExecutePreflight, ExecuteCheck,
          OpenSource, CopyFile, CopyDone, Verify, Swap, Restore, ProbeJunction,
          CleanupFile, CleanupDone, JunctionMkdir, JunctionOpen, JunctionWrite,
          RepairUnlink, JunctionFailed, Goto, Finish
    <2>5. ResultsFinal' /\ RepairSteps'
      BY <2>1, <2>2, <2>3, <2>4 DEF ResultsFinal, RepairSteps
    <2>6. ASSUME fs'[Backup] # Absent PROVE \E q \in Runs : Holding(q)' \/ Explained(q)'
      <3>1. CASE fs[Backup] = Absent
        <4>1. Swap(r)
          BY <1>1, <2>6, <3>1, BackupMade
        <4> QED
          BY <2>6, <3>1, <4>1, SwapHolds
      <3>2. CASE fs[Backup] # Absent
        <4>1. PICK q \in Runs : Holding(q) \/ Explained(q)
          BY <3>2 DEF BackupHeld
        <4>2. CASE q = r
          <5>1. Holding(r)
            BY <2>2, <4>1, <4>2 DEF Explained, None
          <5> QED
            BY <1>1, <2>6, <5>1, HoldingStep
        <4>3. CASE q # r
          BY <2>1, <2>2, <4>1, <4>3 DEF Holding, Explained
        <4> QED
          BY <4>2, <4>3
      <3> QED
        BY <3>1, <3>2
    <2> QED
      BY <2>5, <2>6 DEF BackupHeld
  <1>2. ASSUME NEW r \in Runs, Start(r) PROVE LeftoverInv'
    <2>1. /\ pc[r] = "idle" /\ fs' = fs
          /\ \A q \in Runs : q # r => /\ pc'[q] = pc[q] /\ result'[q] = result[q]
                                    /\ repair'[q] = repair[q]
      BY <1>2 DEF Start, MigrateOneClick, RepairJunction, TypeInv, TypeOK
    <2>2. result[r] = None /\ ~repair[r]
      BY <2>1 DEF ResultsFinal, RepairSteps
    <2>3. result'[r] # None => pc'[r] = "ended"
      BY <1>2, <2>2 DEF Start, MigrateOneClick, RepairJunction, TypeInv, TypeOK
    <2>4. repair'[r] => pc'[r] \in {"unlink", "ended"}
      BY <1>2, <2>2 DEF Start, MigrateOneClick, RepairJunction, TypeInv, TypeOK
    <2>5. \A q \in Runs : Holding(q) => Holding(q)'
      BY <2>1 DEF Holding
    <2>6. \A q \in Runs : Explained(q) => Explained(q)'
      BY <2>1, <2>2 DEF Explained, None
    <2> QED
      BY <2>1, <2>3, <2>4, <2>5, <2>6 DEF BackupHeld, ResultsFinal, RepairSteps
  <1>3. CASE Crash
    <2>1. \A r \in Runs : /\ pc'[r] = IF Active(r) THEN "ended" ELSE pc[r]
                          /\ result'[r] = IF Active(r) THEN "killed" ELSE result[r]
      BY <1>3 DEF Crash
    <2>2. \A r \in Runs : Holding(r) \/ Explained(r) => Explained(r)'
      BY <2>1 DEF Holding, Explained, Active
    <2>3. fs' = fs /\ repair' = repair
      BY <1>3 DEF Crash
    <2> QED
      BY <2>1, <2>2, <2>3 DEF BackupHeld, ResultsFinal, RepairSteps, Active
  <1>4. ASSUME NEW f \in Writes, VRChatWrite(f) PROVE LeftoverInv'
    <2>1. Resolve(Source) # Backup /\ Source # Backup
      BY ResolvePath, PathsDiffer DEF TypeInv
    <2>2. fs'[Backup] = fs[Backup]
      BY <1>4, <2>1, PathsDiffer DEF VRChatWrite, TypeInv, TypeOK
    <2> QED
      BY <1>4, <2>2
      DEF VRChatWrite, BackupHeld, ResultsFinal, RepairSteps, Holding, Explained
  <1>5. CASE UserDeletesBackup
    BY <1>5, PathsDiffer
    DEF UserDeletesBackup, TypeInv, TypeOK, BackupHeld, ResultsFinal, RepairSteps
  <1>6. CASE ToggleVRChat \/ Remount \/ Rescan \/ UNCHANGED vars
    BY <1>6
    DEF ToggleVRChat, Remount, Rescan, vars, BackupHeld, ResultsFinal, RepairSteps, Holding,
        Explained
  <1> QED
    BY <1>1, <1>2, <1>3, <1>4, <1>5, <1>6 DEF Next, Environment

\* Nothing leaves a .vrcsm-bak directory behind in silence, however many
\* operations overlap: when none runs any more, a backup that is still there was
\* reported as restore_failed or done_backup_left, or VRCSM was killed
\* (Migrator.cpp execute).
THEOREM BackupAlwaysExplained == Spec => []BackupExplained
  <1>1. LeftoverInv => BackupExplained
    BY DEF LeftoverInv, BackupHeld, BackupExplained, AllQuiet, Active, Holding, Explained
  <1> QED
    BY <1>1, LeftoverInit, LeftoverStep, TypeInit, TypeStep, PTL DEF Spec
------------------------------------------------------------------------------
(* The outcome of a migration                                              *)

(* What a run copied stays in its target for good, and the junction it has  *)
(* made stays in place until the run ends: nobody else is at work, and      *)
(* VRChat writes through the junction.                                      *)

SeenKept == \A r \in Runs : pc[r] # "idle" => seen[r] \subseteq fs[tgt[r]].files

Linked == \A r \in Runs : pc[r] \in {"probe", "cleanup"} => fs[Source] = Link(tgt[r])

LEMMA SeenKeptStep ==
  ASSUME SafeInv, SeenKept, [Next]_vars
  PROVE  SeenKept'
  <1> USE DEF SafeInv, TypeInv
  <1>1. TargetsGrow
    BY Grow
  <1>2. ASSUME NEW r \in Runs, RunStep(r) PROVE SeenKept'
    <2>1. /\ tgt' = tgt /\ \A q \in Runs : pc'[q] # "idle" => pc[q] # "idle"
          /\ pc[r] # "idle" /\ \A q \in Runs : q # r => pc'[q] = pc[q]
      BY <1>2, RunControl DEF TypeOK, Labels
    <2>2. \A q \in Runs : pc[q] # "idle" => seen[q] \subseteq fs'[tgt[q]].files
      BY <1>1 DEF SeenKept, TargetsGrow, HasTarget
    <2>3. CASE seen' = seen
      BY <2>1, <2>2, <2>3 DEF SeenKept
    <2>4. ASSUME NEW f \in Files \cup Writes, CopyFile(r, f), seen' # seen
          PROVE  SeenKept'
      <3>1. /\ tgt[r] \in Targets
            /\ fs[tgt[r]].files \cup {f} \in SUBSET (Files \cup Writes)
            /\ fs' = [fs EXCEPT ![tgt[r]] = Dir(fs[tgt[r]].files \cup {f})]
            /\ seen' = [seen EXCEPT ![r] = seen[r] \cup {f}]
        BY <2>4, CopyEffect
      <3>2. f \in fs'[tgt[r]].files
        BY <3>1, NewNodes, PathsDiffer DEF TypeOK
      <3>3. /\ seen'[r] = seen[r] \cup {f}
            /\ \A q \in Runs : q # r => seen'[q] = seen[q]
        BY <3>1 DEF TypeOK
      <3> QED
        BY <2>1, <2>2, <3>2, <3>3 DEF SeenKept
    <2> QED
      BY <1>2, <2>3, <2>4
      DEF RunStep, Preflight, ExecutePreflight, ExecuteCheck, OpenSource, CopyDone, Verify,
          Swap, Restore, ProbeJunction, CleanupFile, CleanupDone, JunctionMkdir,
          JunctionOpen, JunctionWrite, RepairUnlink, Quiet
  <1>3. ASSUME NEW r \in Runs, Start(r) PROVE SeenKept'
    <2>1. /\ seen' = seen /\ seen[r] = {}
          /\ \A q \in Runs : q # r => pc'[q] = pc[q] /\ tgt'[q] = tgt[q]
      BY <1>3 DEF Start, MigrateOneClick, RepairJunction, SeenStored, TypeOK
    <2>2. \A q \in Runs : pc[q] # "idle" => seen[q] \subseteq fs'[tgt[q]].files
      BY <1>1 DEF SeenKept, TargetsGrow, HasTarget
    <2> QED
      BY <2>1, <2>2 DEF SeenKept
  <1>4. CASE Environment \/ UNCHANGED vars
    <2>1. /\ seen' = seen /\ tgt' = tgt
          /\ \A q \in Runs : pc'[q] # "idle" => pc[q] # "idle"
      BY <1>4
      DEF Environment, ToggleVRChat, UserDeletesBackup, Crash, Remount, Rescan, VRChatWrite, vars,
          Active
    <2> QED
      BY <1>1, <2>1 DEF SeenKept, TargetsGrow, HasTarget
  <1> QED
    BY <1>2, <1>3, <1>4 DEF Next

LEMMA LinkedStep ==
  ASSUME OneAtATime, SafeInv, Linked, [Next]_vars
  PROVE  Linked'
  <1> USE DEF SafeInv, TypeInv
  <1>1. ASSUME NEW r \in Runs, RunStep(r) PROVE Linked'
    <2>1. tgt' = tgt /\ \A q \in Runs : q # r => pc'[q] \in {"idle", "ended"}
      BY <1>1, RunControl, OthersQuiet
    <2>2. pc'[r] \in {"probe", "cleanup"} => fs'[Source] = Link(tgt[r])
      <3>1. CASE JunctionWrite(r)
        BY <3>1, PathsDiffer
        DEF JunctionWrite, JunctionFailed, Goto, Finish, TypeOK
      <3>2. CASE ProbeJunction(r)
        BY <3>2 DEF ProbeJunction, Linked, Goto, TypeOK
      <3>3. ASSUME NEW f \in Files \cup Writes, CleanupFile(r, f)
            PROVE  fs'[Source] = Link(tgt[r])
        <4>1. Resolve(Backup) = Backup
          BY ResolvePath, PathsDiffer DEF BackupPlain
        <4> QED
          BY <3>3, <4>1, PathsDiffer DEF CleanupFile, Linked, TypeOK
      <3> QED
        BY <1>1, <3>1, <3>2, <3>3
        DEF RunStep, Preflight, ExecutePreflight, ExecuteCheck, OpenSource, CopyFile,
            CopyDone, Verify, Swap, Restore, CleanupDone, JunctionMkdir, JunctionOpen,
            RepairUnlink, JunctionFailed, Goto, Finish, TypeOK
    <2> QED
      BY <2>1, <2>2 DEF Linked
  <1>2. ASSUME NEW r \in Runs, Start(r) PROVE Linked'
    BY <1>2
    DEF Start, MigrateOneClick, RepairJunction, MayStart, AllQuiet, Active, Linked, TypeOK
  <1>3. ASSUME NEW f \in Writes, VRChatWrite(f) PROVE Linked'
    <2>1. fs[Source].kind = "link" => fs'[Source] = fs[Source]
      <3>1. fs[Source].kind = "link" => Resolve(Source) # Source /\ fs[Source] # Absent
        BY ResolvePath, PathsDiffer, NewNodes
      <3> QED
        BY <1>3, <3>1, PathsDiffer DEF VRChatWrite, TypeOK
    <2>2. \A t \in Targets : Link(t).kind = "link"
      BY NewNodes
    <2>3. pc' = pc /\ tgt' = tgt
      BY <1>3 DEF VRChatWrite
    <2> QED
      BY <2>1, <2>2, <2>3 DEF Linked, HasTarget
  <1>4. CASE UserDeletesBackup
    BY <1>4, PathsDiffer DEF UserDeletesBackup, Linked, TypeOK
  <1>5. CASE ToggleVRChat \/ Crash \/ Remount \/ Rescan \/ UNCHANGED vars
    BY <1>5 DEF ToggleVRChat, Crash, Remount, Rescan, vars, Active, Linked
  <1> QED
    BY <1>1, <1>2, <1>3, <1>4, <1>5 DEF Next, Environment

\* Only the end of the cleanup is reported as a success.
LEMMA DoneStep ==
  ASSUME SafeInv, SeenKept, Linked, ResultsFinal, [Next]_vars,
         NEW r \in Runs, pc[r] # "ended", pc'[r] = "ended",
         result'[r] \in {"done", "done_backup_left"}
  PROVE  fs'[Source] = Link(tgt[r]) /\ seen[r] \subseteq fs'[tgt[r]].files
  <1> USE DEF SafeInv, TypeInv
  <1>1. result[r] = None
    BY DEF ResultsFinal
  <1>2. CASE \E q \in Runs : RunStep(q)
    <2>1. PICK q \in Runs : RunStep(q)
      BY <1>2
    <2>2. q = r
      BY <2>1, OthersAlone
    <2>3. CleanupDone(r)
      BY <1>1, <2>1, <2>2
      DEF RunStep, Preflight, ExecutePreflight, ExecuteCheck, OpenSource, CopyFile,
          CopyDone, Verify, Swap, Restore, ProbeJunction, CleanupFile, JunctionMkdir,
          JunctionOpen, JunctionWrite, RepairUnlink, JunctionFailed, Goto, Finish, TypeOK,
          None
    <2>4. fs'[Source] = fs[Source] /\ fs[Source] = Link(tgt[r]) /\ tgt[r] \in Targets
      BY <2>3, PathsDiffer DEF CleanupDone, Linked, HasTarget, TypeOK
    <2>5. TargetsGrow
      BY Grow
    <2> QED
      BY <2>3, <2>4, <2>5 DEF CleanupDone, SeenKept, TargetsGrow
  <1>3. CASE \E q \in Runs : Start(q)
    BY <1>1, <1>3 DEF Start, MigrateOneClick, RepairJunction, None, TypeOK
  <1>4. CASE Environment \/ UNCHANGED vars
    BY <1>1, <1>4
    DEF Environment, ToggleVRChat, UserDeletesBackup, Crash, Remount, Rescan, VRChatWrite, vars,
        None
  <1> QED
    BY <1>2, <1>3, <1>4 DEF Next

\* With one operation at a time a migration that reports success has left a
\* junction to its target at the cache's path, and every file it read there,
\* whatever VRChat wrote meanwhile (Migrator.cpp execute).
THEOREM DoneAlwaysServed == OneAtATime => (Spec => DoneMeansServed)
  <1> SUFFICES ASSUME OneAtATime PROVE Spec => DoneMeansServed
    OBVIOUS
  <1> DEFINE Inv == SafeInv /\ LeftoverInv /\ SeenKept /\ Linked
             Served == \A r \in Runs :
                         /\ pc[r] # "ended"
                         /\ pc'[r] = "ended" /\ result'[r] \in {"done", "done_backup_left"}
                         => fs'[Source] = Link(tgt[r]) /\ seen[r] \subseteq fs'[tgt[r]].files
  <1>1. Init => Inv
    BY SafeInit, LeftoverInit DEF Init, SeenKept, Linked
  <1>2. Inv /\ [Next]_vars => Inv'
    BY SafeStep, LeftoverStep, SeenKeptStep, LinkedStep DEF SafeInv
  <1>3. Inv /\ [Next]_vars => [Served]_vars
    BY DoneStep DEF LeftoverInv
  <1> QED
    BY <1>1, <1>2, <1>3, PTL DEF Spec, DoneMeansServed
=============================================================================
