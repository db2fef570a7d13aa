--------------------------- MODULE BackupRestore ---------------------------
(***************************************************************************)
(* restore_encrypted_backup of backup_migration.py, in the panel whose     *)
(* state it replaces: the artifacts of a backup are staged, swapped in one *)
(* by one behind a snapshot, and put back when a swap fails; the panel     *)
(* goes on saving its own database (PanelState) until it ends itself, two  *)
(* seconds later, to start from the restored one.                          *)
(***************************************************************************)
EXTENDS PanelState

CONSTANTS
  Files,      (* Artifacts that are files, the database apart.             *)
  Dirs        (* Artifacts that are directories.                           *)

Database == "database"
Others == Files \union Dirs
Artifacts == Others \union {Database}
ASSUME ArtifactsAssumption == Files \intersect Dirs = {} /\ Database \notin Others

VARIABLES
  restore,    (* The request: where it is, the artifact at hand and those  *)
              (* to come, moved_dirs and copied_files, the descriptor it   *)
              (* writes to; "had": what was there before; "lost": a        *)
              (* rollback failed.                                          *)
  disk,       (* What is in the configuration directory: "odd" is an       *)
              (* original of another kind than the artifact, or a link.    *)
  back        (* What is in the rollback directory, the database apart.    *)

restoreVars == <<restore, disk, back>>

NotStarted == [pc |-> "idle", at |-> None, todo |-> {}, moved |-> {}, copied |-> {},
               fd |-> 0, text |-> Empty, db |-> Empty, had |-> {}, lost |-> FALSE]
Restored == [admin |-> "restored", updates |-> {}]

RestoreInit ==
  /\ Init
  /\ restore = NotStarted
  /\ disk \in [Others -> {"old", "none", "odd"}]
  /\ back = [a \in Others |-> "none"]

-----------------------------------------------------------------------------
(* The backup was decrypted, its JSON files were parsed and everything was *)
(* copied to the staging directory; what fails before changes nothing.     *)
StartRestore ==
  /\ up /\ restore.pc = "idle"
  /\ restore' = [restore EXCEPT !.pc = "swap", !.todo = Artifacts,
       !.had = {a \in Others : disk[a] = "old"}]
  /\ UNCHANGED <<vars, disk, back>>

Holding(a) == [restore EXCEPT !.pc = "replace", !.at = a]

(* Mutant: a directory counts as moved only once its successor is there.   *)
SnapshotDirUnnoted(d) ==
  /\ restore.pc = "swap" /\ d \in restore.todo
  /\ back' = [back EXCEPT ![d] = disk[d]]
  /\ disk' = [disk EXCEPT ![d] = "none"]
  /\ restore' = Holding(d)
  /\ UNCHANGED vars

(* os.replace moves a directory to the rollback directory; what is no      *)
(* directory is removed, without a copy.                                   *)
SnapshotDir(d) ==
  /\ restore.pc = "swap" /\ d \in restore.todo
  /\ disk' = [disk EXCEPT ![d] = "none"]
  /\ IF disk[d] = "old"
     THEN /\ back' = [back EXCEPT ![d] = "old"]
          /\ restore' = [Holding(d) EXCEPT !.moved = @ \union {d}]
     ELSE restore' = Holding(d) /\ UNCHANGED back
  /\ UNCHANGED vars

(* Mutant: a file is removed instead of copied. *)
SnapshotFileRemoved(f) ==
  /\ restore.pc = "swap" /\ f \in restore.todo
  /\ disk' = [disk EXCEPT ![f] = "none"]
  /\ restore' = Holding(f)
  /\ UNCHANGED <<vars, back>>

(* A file is copied; what is no file, or a link to one, is removed. *)
SnapshotFile(f) ==
  /\ restore.pc = "swap" /\ f \in restore.todo
  /\ IF disk[f] = "old"
     THEN /\ back' = [back EXCEPT ![f] = "old"]
          /\ restore' = [Holding(f) EXCEPT !.copied = @ \union {f}]
          /\ UNCHANGED disk
     ELSE /\ disk' = [disk EXCEPT ![f] = "none"]
          /\ restore' = Holding(f) /\ UNCHANGED back
  /\ UNCHANGED vars

SnapshotDatabase ==
  /\ restore.pc = "swap" /\ Database \in restore.todo
  /\ restore' = [Holding(Database) EXCEPT !.copied = @ \union {Database},
                                          !.db = inode[file]]
  /\ UNCHANGED <<vars, disk, back>>

Swapped(a) ==
  restore' = [restore EXCEPT !.at = None, !.todo = @ \ {a},
                !.pc = IF restore.todo = {a} THEN "rewrite" ELSE "swap"]

SwapIn(a) ==
  /\ restore.pc = "replace" /\ restore.at = a
  /\ disk' = [disk EXCEPT ![a] = "new"]
  /\ Swapped(a)
  /\ UNCHANGED <<vars, back>>

(* The staged database takes the name of the one the panel saves to. *)
SwapInDatabase ==
  /\ restore.pc = "replace" /\ restore.at = Database
  /\ file' = NewInode
  /\ inode' = [inode EXCEPT ![NewInode] = Restored]
  /\ saved' = {}
  /\ Swapped(Database)
  /\ UNCHANGED <<panelVars, tmp, ext, crashes, disk, back>>

OneFault == crashes < MaxCrashes /\ crashes' = crashes + 1

SwapFails ==
  /\ restore.pc \in {"swap", "replace"} /\ OneFault
  /\ restore' = [restore EXCEPT !.pc = "undo", !.at = None]
  /\ UNCHANGED <<panelVars, diskVars, ext, saved, disk, back>>

-----------------------------------------------------------------------------
(* The directories go back first: what is in place is removed, ...         *)
UndoRemove(d) ==
  /\ restore.pc = "undo" /\ d \in restore.moved /\ disk[d] /= "none"
  /\ disk' = [disk EXCEPT ![d] = "none"]
  /\ UNCHANGED <<vars, restore, back>>

(* ... and the original moved there.                                       *)
UndoMove(d) ==
  /\ restore.pc = "undo" /\ d \in restore.moved /\ disk[d] = "none"
  /\ disk' = [disk EXCEPT ![d] = back[d]]
  /\ back' = [back EXCEPT ![d] = "none"]
  /\ restore' = [restore EXCEPT !.moved = @ \ {d}]
  /\ UNCHANGED vars

(* A file is written over in place, from its copy. *)
UndoCopy(f) ==
  /\ restore.pc = "undo" /\ restore.moved = {} /\ f \in restore.copied
  /\ \/ /\ disk[f] /= "partial"
        /\ disk' = [disk EXCEPT ![f] = "partial"]
        /\ UNCHANGED restore
     \/ /\ disk[f] = "partial"
        /\ disk' = [disk EXCEPT ![f] = back[f]]
        /\ restore' = [restore EXCEPT !.copied = @ \ {f}]
  /\ UNCHANGED <<vars, back>>

(* The database likewise: the first step empties the inode that has the    *)
(* name then, the second writes to it whatever has the name meanwhile.     *)
UndoTruncate ==
  /\ restore.pc = "undo" /\ restore.moved = {} /\ Database \in restore.copied
  /\ inode' = [inode EXCEPT ![file] = Empty]
  /\ restore' = [restore EXCEPT !.pc = "undo_write", !.fd = file, !.text = restore.db]
  /\ saved' = {}
  /\ UNCHANGED <<panelVars, file, tmp, ext, crashes, disk, back>>

WriteOver == IF restore.fd = 0 THEN UNCHANGED inode
             ELSE inode' = [inode EXCEPT ![restore.fd] = restore.text]

UndoWrite ==
  /\ restore.pc = "undo_write"
  /\ WriteOver
  /\ restore' = [restore EXCEPT !.pc = "undo", !.fd = 0, !.copied = @ \ {Database}]
  /\ UNCHANGED <<panelVars, file, tmp, ext, saved, crashes, disk, back>>

(* An error of one rollback is passed over. *)
UndoFails(a) ==
  /\ restore.pc = "undo" /\ a \in restore.moved \union restore.copied /\ OneFault
  /\ restore' = [restore EXCEPT !.moved = @ \ {a}, !.copied = @ \ {a}, !.lost = TRUE]
  /\ UNCHANGED <<panelVars, diskVars, ext, saved, disk, back>>

Raise ==
  /\ restore.pc = "undo" /\ restore.moved \union restore.copied = {}
  /\ restore' = [restore EXCEPT !.pc = "raised"]
  /\ UNCHANGED <<vars, disk, back>>

-----------------------------------------------------------------------------
(* With a new address of the panel the database is read and written over,  *)
(* then a certificate may be made, which may fail.                         *)
RewriteTruncate ==
  /\ restore.pc = "rewrite"
  /\ inode' = [inode EXCEPT ![file] = Empty]
  /\ restore' = [restore EXCEPT !.pc = "rewrite_write", !.fd = file, !.text = inode[file]]
  /\ saved' = {}
  /\ UNCHANGED <<panelVars, file, tmp, ext, crashes, disk, back>>

RewriteWrite ==
  /\ restore.pc = "rewrite_write"
  /\ WriteOver
  /\ restore' = [restore EXCEPT !.pc = "certificate", !.fd = 0]
  /\ UNCHANGED <<panelVars, file, tmp, ext, saved, crashes, disk, back>>

CertificateFails ==
  /\ restore.pc = "certificate" /\ OneFault
  /\ restore' = [restore EXCEPT !.pc = "raised_late"]
  /\ UNCHANGED <<panelVars, diskVars, ext, saved, disk, back>>

Succeed ==
  /\ restore.pc \in {"rewrite", "certificate"}
  /\ restore' = [restore EXCEPT !.pc = "answered"]
  /\ UNCHANGED <<vars, disk, back>>

(* send_restore_result: the process ends after two seconds. *)
Exit ==
  /\ restore.pc = "answered" /\ up
  /\ Down
  /\ restore' = [restore EXCEPT !.pc = "restarted"]
  /\ UNCHANGED <<diskVars, ext, saved, crashes, disk, back>>

-----------------------------------------------------------------------------
Over == {"idle", "raised", "raised_late", "restarted", "killed"}

(* The panel goes on; when it is killed, so is the request.                *)
PanelStep ==
  /\ Next
  /\ restore' = [restore EXCEPT
       !.pc = IF up /\ ~up' /\ @ \notin Over THEN "killed" ELSE @,
       !.fd = IF file' = file THEN @ ELSE 0]
  /\ UNCHANGED <<disk, back>>

Swapping ==
  \/ \E d \in Dirs : SnapshotDir(d)
  \/ \E f \in Files : SnapshotFile(f)
  \/ \E a \in Others : SwapIn(a)
  \/ SnapshotDatabase \/ SwapInDatabase \/ SwapFails

Undoing ==
  \/ \E d \in Dirs : UndoRemove(d) \/ UndoMove(d)
  \/ \E f \in Files : UndoCopy(f)
  \/ \E a \in Artifacts : UndoFails(a)
  \/ UndoTruncate \/ UndoWrite \/ Raise

RestoreNext ==
  \/ PanelStep \/ StartRestore \/ Swapping \/ Undoing
  \/ RewriteTruncate \/ RewriteWrite \/ CertificateFails \/ Succeed \/ Exit

RestoreSpec == RestoreInit /\ [][RestoreNext]_<<vars, restoreVars>>

-----------------------------------------------------------------------------
(* "put every original back from the rollback snapshot before surfacing    *)
(* the error": when a swap failed and every rollback worked, every file    *)
(* and directory that was copied is there again, whatever the panel has    *)
(* saved in between.  Links and originals of another kind have no copy.    *)
OriginalsReturn ==
  restore.pc = "raised" /\ ~restore.lost =>
    /\ \A a \in restore.had : disk[a] = "old"
    /\ Whole(file) /\ inode[file].admin = "set"

(* "The current state is snapshotted before any replacement": wherever the *)
(* panel is killed or a step fails, every original of the artifact's kind  *)
(* is in its place or in the rollback directory.                           *)
OriginalsSurvive == restore.pc /= "idle" =>
  /\ \A a \in restore.had : "old" \in {disk[a], back[a]}
  /\ \/ restore.db.admin = "set"
     \/ file /= 0 /\ inode[file].admin = "set"
=============================================================================
