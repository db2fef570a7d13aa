----------------------------- MODULE PanelState -----------------------------
(***************************************************************************)
(* The panel's database: P00RIJADB of database.py, the process that holds  *)
(* it in memory and is started again whenever it ends, and the writers     *)
(* outside the process that rewrite the file from a copy they have read:   *)
(* the host agent (atomic_json, save_panel_state) and reset_panel_admin of *)
(* p00rija-control.sh.                                                     *)
(*                                                                         *)
(* Files are inodes: opening the temporary name truncates the inode that   *)
(* is there, os.replace gives it the name of the database.                 *)
(***************************************************************************)
EXTENDS Naturals, FiniteSets

CONSTANTS
  Threads,     (* Threads of the panel.                                    *)
  Updates,     (* What they add to the database, each once.                *)
  External,    (* The writer outside: "agent", "reset" or "none".          *)
  MaxCrashes,  (* Bound: how often the panel is killed, or a save fails.   *)
  Corrupted    (* The file may become unreadable.                          *)

ASSUME ExternalAssumption == External \in {"agent", "reset", "none"}
ASSUME CrashAssumption == MaxCrashes \in Nat /\ Corrupted \in BOOLEAN

VARIABLES
  memory,    (* data: the administrator and the updates.                   *)
  up,        (* The process runs.                                          *)
  lock,      (* Holder of the lock.                                        *)
  thread,    (* Per thread: where it is, its update, what it serialized.   *)
  file,      (* Inode of the database, 0 without.                          *)
  tmp,       (* Inode of its temporary name, 0 without.                    *)
  inode,     (* Content per inode.                                         *)
  ext,       (* The writer outside.                                        *)
  saved,     (* History: updates whose save has returned, since another    *)
             (* hand last wrote to the file.                               *)
  crashes

panelVars == <<memory, up, lock, thread>>
diskVars == <<file, tmp, inode>>
vars == <<panelVars, diskVars, ext, saved, crashes>>

Inodes == 1 .. 4
None == "none"
ASSUME NoneAssumption == None \notin Threads \union Updates

Content == [admin : {"default", "set", "reset", "restored"},
            updates : SUBSET Updates]
Defaults == [admin |-> "default", updates |-> {}]
Empty == [admin |-> "empty", updates |-> {}]
Mixed == [admin |-> "mixed", updates |-> {}]

Whole(i) == inode[i] \in Content

Idle == [pc |-> "idle", update |-> None, text |-> Empty, fd |-> 0]

Init ==
  /\ memory = [admin |-> "set", updates |-> {}]
  /\ up = TRUE /\ lock = None
  /\ thread = [t \in Threads |-> Idle]
  /\ file = 1 /\ tmp = 0
  /\ inode = [i \in Inodes |->
       IF i = 1 THEN [admin |-> "set", updates |-> {}] ELSE Empty]
  /\ ext = Idle /\ saved = {} /\ crashes = 0

-----------------------------------------------------------------------------
(* Files. *)
Held == {file, tmp, ext.fd} \union {thread[t].fd : t \in Threads}

NewInode == CHOOSE i \in Inodes : i \notin Held

(* os.open with O_CREAT | O_TRUNC of the temporary name. *)
Open(name, i) ==
  /\ i = IF name = 0 THEN NewInode ELSE name
  /\ inode' = [inode EXCEPT ![i] = Empty]

(* Both writers of an inode write from its start: what is left is the last *)
(* text, or a mixture when the other one is longer.                        *)
Write(i, text) ==
  \E c \in IF inode[i] = Empty THEN {text} ELSE {text, Mixed} :
    inode' = [inode EXCEPT ![i] = c]

-----------------------------------------------------------------------------
(* update mutates the data under the lock; other handlers change it        *)
(* without and then call save as well.                                     *)
Mutate(t, u) ==
  /\ up /\ thread[t] = Idle /\ lock = None
  /\ u \notin memory.updates \union saved
  /\ memory' = [memory EXCEPT !.updates = @ \union {u}]
  /\ thread' = [thread EXCEPT ![t] = [Idle EXCEPT !.pc = "save", !.update = u]]
  /\ UNCHANGED <<up, lock, diskVars, ext, saved, crashes>>

(* Mutant: what is saved was serialized without the lock. *)
SerializeUnlocked(t) ==
  /\ thread[t].pc = "save"
  /\ lock' = lock
  /\ thread' = [thread EXCEPT ![t] =
       [@ EXCEPT !.pc = IF lock = None THEN "open" ELSE "save", !.text = memory]]
  /\ UNCHANGED <<memory, up, diskVars, ext, saved, crashes>>

(* save takes the lock for good and serializes the data. *)
Serialize(t) ==
  /\ thread[t].pc = "save" /\ lock = None
  /\ lock' = t
  /\ thread' = [thread EXCEPT ![t] = [@ EXCEPT !.pc = "open", !.text = memory]]
  /\ UNCHANGED <<memory, up, diskVars, ext, saved, crashes>>

OpenTemporary(t) ==
  /\ thread[t].pc = "open"
  /\ \E i \in Inodes :
       /\ Open(tmp, i)
       /\ tmp' = i
       /\ thread' = [thread EXCEPT ![t] = [@ EXCEPT !.pc = "write", !.fd = i]]
  /\ UNCHANGED <<memory, up, lock, file, ext, saved, crashes>>

WriteTemporary(t) ==
  /\ thread[t].pc = "write"
  /\ Write(thread[t].fd, thread[t].text)
  /\ thread' = [thread EXCEPT ![t] = [@ EXCEPT !.pc = "replace", !.fd = 0]]
  /\ UNCHANGED <<memory, up, lock, file, tmp, ext, saved, crashes>>

(* os.replace: it fails when another writer has moved the name away.       *)
Replace(t) ==
  /\ thread[t].pc = "replace"
  /\ IF tmp = 0 THEN UNCHANGED <<file, saved>>
     ELSE file' = tmp /\ saved' = saved \union {thread[t].update}
  /\ tmp' = 0
  /\ lock' = None
  /\ thread' = [thread EXCEPT ![t] = Idle]
  /\ UNCHANGED <<memory, up, inode, ext, crashes>>

(* The data kept changing while it was copied, or the disk is full.        *)
SaveFails(t) ==
  /\ thread[t].pc = "open" /\ crashes < MaxCrashes
  /\ crashes' = crashes + 1
  /\ thread' = [thread EXCEPT ![t] = Idle]
  /\ lock' = None
  /\ UNCHANGED <<memory, up, diskVars, ext, saved>>

-----------------------------------------------------------------------------
(* The process ends, its temporary file stays. *)
Down ==
  /\ up' = FALSE /\ lock' = None /\ memory' = Defaults
  /\ thread' = [t \in Threads |-> Idle]

Crash ==
  /\ up /\ crashes < MaxCrashes
  /\ crashes' = crashes + 1
  /\ Down
  /\ UNCHANGED <<diskVars, ext, saved>>

(* Mutant: the file is not read. *)
LoadDefaults ==
  /\ ~up
  /\ up' = TRUE /\ memory' = Defaults
  /\ UNCHANGED <<lock, thread, diskVars, ext, saved, crashes>>

(* load: defaults without a file, an error that moves an unreadable file   *)
(* away and ends the process, which is then started again.                 *)
Load ==
  /\ ~up
  /\ IF file = 0 THEN up' = TRUE /\ memory' = Defaults /\ file' = file
     ELSE IF Whole(file) THEN up' = TRUE /\ memory' = inode[file] /\ file' = file
     ELSE file' = 0 /\ UNCHANGED <<up, memory>>
  /\ UNCHANGED <<lock, thread, tmp, inode, ext, saved, crashes>>

(* A power failure, a full disk or an editor leave an unreadable file.     *)
Corrupt ==
  /\ Corrupted /\ file /= 0 /\ crashes < MaxCrashes
  /\ crashes' = crashes + 1
  /\ inode' = [inode EXCEPT ![file] = Mixed]
  /\ saved' = {}
  /\ Down
  /\ UNCHANGED <<file, tmp, ext>>

-----------------------------------------------------------------------------
(* load_panel_state and json.load of reset_panel_admin. *)
ExtReads ==
  /\ External /= "none" /\ ext = Idle
  /\ file /= 0 /\ Whole(file)
  /\ ext' = [pc |-> "open", update |-> None, fd |-> 0, text |->
       [inode[file] EXCEPT !.admin = IF External = "reset" THEN "reset" ELSE @]]
  /\ UNCHANGED <<panelVars, diskVars, saved, crashes>>

(* The agent uses the temporary name the panel uses, reset_panel_admin one *)
(* of its own.                                                             *)
ExtOpens ==
  /\ ext.pc = "open"
  /\ \E i \in Inodes :
       /\ Open(IF External = "agent" THEN tmp ELSE 0, i)
       /\ tmp' = IF External = "agent" THEN i ELSE tmp
       /\ ext' = [ext EXCEPT !.pc = "write", !.fd = i]
  /\ UNCHANGED <<panelVars, file, saved, crashes>>

ExtWrites ==
  /\ ext.pc = "write"
  /\ Write(ext.fd, ext.text)
  /\ ext' = [ext EXCEPT !.pc = "replace"]
  /\ UNCHANGED <<panelVars, file, tmp, saved, crashes>>

ExtReplaces ==
  /\ ext.pc = "replace"
  /\ IF External = "reset" THEN file' = ext.fd /\ tmp' = tmp
     ELSE file' = (IF tmp = 0 THEN file ELSE tmp) /\ tmp' = 0
  /\ ext' = [ext EXCEPT !.pc = "restart", !.fd = 0]
  /\ UNCHANGED <<panelVars, inode, saved, crashes>>

(* recreate_panel, restart_target: the panel is killed and started again.  *)
ExtRestarts ==
  /\ ext.pc = "restart"
  /\ Down
  /\ ext' = [ext EXCEPT !.pc = "done"]
  /\ saved' = {}
  /\ UNCHANGED <<diskVars, crashes>>

-----------------------------------------------------------------------------
Save(t) ==
  \/ Serialize(t) \/ OpenTemporary(t) \/ WriteTemporary(t) \/ Replace(t)

Next ==
  \/ \E t \in Threads :
       Save(t) \/ SaveFails(t) \/ \E u \in Updates : Mutate(t, u)
  \/ Crash \/ Load \/ Corrupt
  \/ ExtReads \/ ExtOpens \/ ExtWrites \/ ExtReplaces \/ ExtRestarts

Spec == Init /\ [][Next]_vars

-----------------------------------------------------------------------------

(* Whenever the process is killed, the next one finds a whole database:    *)
(* it is replaced, never written in place.                                 *)
FileIsWhole == file /= 0 /\ Whole(file)

(* The updates that the next process finds. *)
OnDisk == IF file /= 0 /\ Whole(file) THEN inode[file].updates ELSE {}

(* "Atomically apply a mutation ..., then persist": an update that has     *)
(* returned is in the file, and the next process has it, whatever other    *)
(* threads save, and wherever saves fail and processes end.  (What a file  *)
(* that becomes unreadable held, and what a writer outside replaces by an  *)
(* older copy, is beyond what the panel can keep.)                         *)
SavedStays == ext.pc \in {"idle", "open", "done"} => saved \subseteq OnDisk

(* What the process holds is never behind the file it saves to, after a    *)
(* crash, a failed save or an unreadable file.                             *)
MemoryIsAhead == up => OnDisk \subseteq memory.updates

(* "Defaults are only valid when no database file exists yet; a corrupt    *)
(* file must fail closed instead of silently resetting to the default      *)
(* admin credentials."                                                     *)
FailsClosed == up => memory.admin /= "default"
=============================================================================
