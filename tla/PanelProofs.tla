---------------------------- MODULE PanelProofs ----------------------------
(* Proofs about the panel and its host: the database (PanelState), the     *)
(* restoration of a backup beside it (BackupRestore), the ports that the   *)
(* host agent gives the panel (HostControl), and the ports of the links    *)
(* (LinkTable).                                                            *)
EXTENDS BackupRestore, HostControl, LinkTable, TLAPS

(* The database (PanelState).                                              *)

Saving == {"open", "write", "replace"}
ThreadState == [pc : {"idle", "save"} \union Saving, update : Updates \union {None},
                text : Content \union {Empty}, fd : Inodes \union {0}]
ExtState == [pc : {"idle", "open", "write", "replace", "restart", "done"}, update : {None},
             text : Content \union {Empty}, fd : Inodes \union {0}]

(* The agent has opened the temporary file that the panel uses as well,    *)
(* and until it has restarted the panel either may hold what the other one *)
(* replaced.                                                               *)
Shared == External = "agent" /\ ext.pc \in {"write", "replace", "restart"}

(* Nobody outside is about to write, or has done it under a panel that     *)
(* still runs.                                                             *)
Quiet == ext.pc \in {"idle", "open", "done"}

(* The file is only ever replaced by whole ones of others.                 *)
Private == External /= "agent" /\ ~Corrupted

Types ==
  /\ memory \in Content /\ up \in BOOLEAN
  /\ lock \in Threads \union {None}
  /\ thread \in [Threads -> ThreadState]
  /\ file \in Inodes \union {0} /\ tmp \in Inodes \union {0} /\ (tmp = file => tmp = 0)
  /\ inode \in [Inodes -> Content \union {Empty, Mixed}]

(* The writer outside has a descriptor while it writes, reset_panel_admin  *)
(* one of its own.                                                         *)
Outside ==
  /\ ext \in ExtState
  /\ ext.pc /= "idle" => External /= "none" /\ ext.text \in Content
  /\ ext.fd /= 0 <=> ext.pc \in {"write", "replace"}
  /\ External = "reset" /\ ext.fd /= 0 => ext.fd \notin {file, tmp}

(* One thread saves at a time, with the only descriptor there is.          *)
OneSaves ==
  \A t \in Threads :
    /\ thread[t].pc \in Saving => lock = t /\ up
    /\ thread[t].pc = "save" => up
    /\ thread[t].fd /= 0 <=> thread[t].pc = "write"

(* What a thread serialized has its own update and nothing that the        *)
(* process does not have.  Unless the agent shares it, the temporary file  *)
(* is empty until it is that text.                                         *)
Texts ==
  \A t \in Threads :
    /\ thread[t].pc = "save" => thread[t].update \in memory.updates
    /\ thread[t].pc \in Saving =>
         /\ thread[t].text \in Content
         /\ thread[t].update \in thread[t].text.updates
         /\ thread[t].text.updates \subseteq memory.updates
    /\ ~Shared =>
         /\ thread[t].pc = "write" => thread[t].fd = tmp /\ inode[tmp] = Empty
         /\ thread[t].pc = "replace" => tmp /= 0 /\ inode[tmp] = thread[t].text

Sound == Types /\ Outside /\ OneSaves /\ Texts

(* The process, and whatever it is about to save, has all of the file.     *)
Covers ==
  /\ up => OnDisk \subseteq memory.updates
  /\ \A t \in Threads : thread[t].pc \in Saving => OnDisk \subseteq thread[t].text.updates

(* What reset_panel_admin has read is never ahead of the file either, and  *)
(* is what its temporary file holds.                                       *)
ResetBehind ==
  /\ FileIsWhole
  /\ ext.pc \in {"open", "write", "replace"} => ext.text.updates \subseteq OnDisk
  /\ ext.pc = "write" => inode[ext.fd] = Empty
  /\ ext.pc = "replace" => inode[ext.fd] = ext.text

Ahead ==
  /\ Quiet => saved \subseteq OnDisk
  /\ Quiet \/ Private => Covers
  /\ Private => ResetBehind

DInv == Sound /\ Ahead

(* The administrator is one of A, in the process and in the file. *)
MindIn(A) ==
  /\ up => memory.admin \in A
  /\ \A t \in Threads : thread[t].pc \in Saving => thread[t].text.admin \in A
FileIn(A) == FileIsWhole /\ inode[file].admin \in A

(* What a step of the panel keeps while nobody shares its temporary file,  *)
(* whatever others do to the file.                                         *)
Alone ==
  /\ Covers => /\ Covers' /\ OnDisk \subseteq OnDisk'
               /\ saved \subseteq OnDisk => saved' \subseteq OnDisk'
  /\ FileIsWhole => FileIsWhole'
  /\ file /= 0 /\ up => file' /= 0
  /\ file' = file => saved' = saved
  /\ External = "reset" /\ ext.fd /= 0 => inode'[ext.fd] = inode[ext.fd]
  /\ \A A : /\ MindIn(A) /\ FileIn(A) => MindIn(A)' /\ FileIn(A)'
            /\ MindIn(A) /\ up => MindIn(A)' /\ (file' /= file => FileIn(A)')
Kept == Sound' /\ ext' = ext /\ (~Shared => Alone)

-----------------------------------------------------------------------------
LEMMA ContentFields ==
  /\ Content \subseteq [admin : {"default", "set", "reset", "restored"}, updates : SUBSET Updates]
  /\ Defaults \in Content /\ Empty \notin Content /\ Mixed \notin Content
  /\ Defaults.updates = {} /\ Empty.updates = {} /\ Mixed.updates = {}
BY DEF Content, Defaults, Empty, Mixed

LEMMA IdleFields ==
  /\ Idle \in ThreadState /\ Idle.pc = "idle" /\ Idle.fd = 0
  /\ "idle" \notin Saving \union {"save"}
BY DEF Idle, ThreadState, Saving

(* The panel starts with a database that has no update. *)
LEMMA InitOK == Init => DInv /\ MindIn({"set"}) /\ FileIn({"set"})
<1> SUFFICES ASSUME Init PROVE DInv /\ MindIn({"set"}) /\ FileIn({"set"})
  OBVIOUS
<1>1. Types
  BY DEF Init, Types, ThreadState, Inodes, Content, Empty, Idle
<1>2. ext.pc = "idle" /\ ext.fd = 0 /\ ext \in ExtState
  BY DEF Init, Idle, ExtState, Content, Empty, Inodes
<1>3. \A t \in Threads : thread[t].pc = "idle" /\ thread[t].fd = 0
  BY DEF Init, Idle
<1>4. Sound
  BY <1>1, <1>2, <1>3 DEF Sound, Outside, OneSaves, Texts, Saving
<1>5. /\ inode[file] = [admin |-> "set", updates |-> {}] /\ file = 1
      /\ memory = [admin |-> "set", updates |-> {}] /\ saved = {}
  BY DEF Init, Inodes
<1>6. FileIn({"set"}) /\ MindIn({"set"}) /\ OnDisk = {}
  BY <1>3, <1>5 DEF FileIn, FileIsWhole, Whole, MindIn, Content, OnDisk, Saving
<1>7. Ahead
  BY <1>2, <1>5, <1>6 DEF Ahead, Covers, ResetBehind, FileIn
<1> QED
  BY <1>4, <1>6, <1>7 DEF DInv

LEMMA SameDisk ==
  ASSUME file' = file, file = 0 \/ inode'[file] = inode[file]
  PROVE  /\ OnDisk' = OnDisk /\ (FileIsWhole' <=> FileIsWhole)
         /\ \A A : FileIn(A)' <=> FileIn(A)
BY DEF OnDisk, FileIsWhole, Whole, FileIn

(* Most steps leave the file alone. *)
LEMMA AloneFrom ==
  ASSUME file' = file, file = 0 \/ inode'[file] = inode[file], saved' = saved,
         Covers => Covers', \A A : MindIn(A) => MindIn(A)',
         External = "reset" /\ ext.fd /= 0 => inode'[ext.fd] = inode[ext.fd]
  PROVE  Alone
BY SameDisk DEF Alone

LEMMA MutateOK ==
  ASSUME Sound, NEW t \in Threads, NEW u \in Updates, Mutate(t, u) PROVE Kept
<1> DEFINE moved == [Idle EXCEPT !.pc = "save", !.update = u]
<1>1. /\ moved \in ThreadState /\ moved.pc = "save"
      /\ moved.update = u /\ moved.fd = 0
  BY IdleFields DEF ThreadState, Idle, Saving
<1>2. thread' = [thread EXCEPT ![t] = moved] /\ thread[t] = Idle /\ up
  BY DEF Mutate
<1>3. /\ memory' \in Content /\ memory'.updates = memory.updates \union {u}
      /\ memory'.admin = memory.admin
  BY DEF Sound, Types, Content, Mutate
<1>4. UNCHANGED <<up, lock, file, tmp, inode, ext, saved>>
  BY DEF Mutate, diskVars
<1> HIDE DEF moved
<1>5. thread'[t] = moved /\ \A s \in Threads \ {t} : thread'[s] = thread[s]
  BY <1>2 DEF Sound, Types
<1>6. Types' /\ Outside'
  BY <1>1, <1>2, <1>3, <1>4 DEF Sound, Types, Outside
<1>7. OneSaves'
  BY <1>1, <1>2, <1>4, <1>5 DEF Sound, OneSaves, Saving
<1>8. Texts'
  BY <1>1, <1>3, <1>4, <1>5 DEF Sound, Texts, Shared, Saving
<1>9. Covers => Covers'
  BY <1>1, <1>3, <1>4, <1>5, SameDisk DEF Covers, Saving
<1>10. \A A : MindIn(A) => MindIn(A)'
  BY <1>1, <1>3, <1>4, <1>5 DEF MindIn, Saving
<1> QED
  BY <1>4, <1>6, <1>7, <1>8, <1>9, <1>10, AloneFrom DEF Kept, Sound

LEMMA SerializeOK ==
  ASSUME Sound, NEW t \in Threads, Serialize(t) PROVE Kept
<1> DEFINE moved == [thread[t] EXCEPT !.pc = "open", !.text = memory]
<1>1. /\ thread[t] \in ThreadState /\ thread[t].pc = "save"
      /\ thread[t].fd = 0 /\ up /\ thread[t].update \in memory.updates
  BY DEF Sound, Types, OneSaves, Texts, Serialize, Saving
<1>2. /\ moved \in ThreadState /\ moved.pc = "open" /\ moved.text = memory
      /\ moved.update = thread[t].update /\ moved.fd = 0
  BY <1>1 DEF ThreadState, Saving, Sound, Types
<1>3. thread' = [thread EXCEPT ![t] = moved] /\ lock = None /\ lock' = t
  BY DEF Serialize
<1>4. UNCHANGED <<memory, up, file, tmp, inode, ext, saved>>
  BY DEF Serialize, diskVars
<1> HIDE DEF moved
<1>5. thread'[t] = moved /\ \A s \in Threads \ {t} : thread'[s] = thread[s]
  BY <1>3 DEF Sound, Types
<1>6. \A s \in Threads : thread[s].pc \notin Saving
  BY <1>3, NoneAssumption DEF Sound, OneSaves
<1>7. Types' /\ Outside'
  BY <1>2, <1>3, <1>4 DEF Sound, Types, Outside
<1>8. OneSaves'
  BY <1>1, <1>2, <1>3, <1>4, <1>5, <1>6 DEF Sound, OneSaves, Saving
<1>9. Texts'
  BY <1>1, <1>2, <1>4, <1>5, <1>6 DEF Sound, Texts, Types, Shared, Saving
<1>10. Covers => Covers'
  BY <1>1, <1>2, <1>4, <1>5, <1>6, SameDisk DEF Covers, Saving
<1>11. \A A : MindIn(A) => MindIn(A)'
  BY <1>1, <1>2, <1>4, <1>5 DEF MindIn, Saving
<1> QED
  BY <1>4, <1>7, <1>8, <1>9, <1>10, <1>11, AloneFrom DEF Kept, Sound

(* At most three inodes are held when one is looked for. *)
LEMMA FreeInode ==
  ASSUME Types, Outside, \A s \in Threads : thread[s].fd \in {0, tmp, ext.fd},
         tmp = 0 \/ ext.fd = 0
  PROVE  NewInode \in Inodes \ {file, tmp, ext.fd, 0}
<1>1. Held \subseteq {file, tmp, ext.fd, 0}
  BY DEF Held
<1>2. \E j \in Inodes : j \notin Held
  <2>1. \E j \in Inodes : j \notin {file, tmp, 0}
    BY DEF Inodes
  <2>2. \E j \in Inodes : j \notin {file, ext.fd, 0}
    BY DEF Inodes
  <2> QED
    BY <1>1, <2>1, <2>2
<1>3. NewInode \in Inodes /\ NewInode \notin Held
  BY <1>2 DEF NewInode
<1>4. {file, tmp, ext.fd} \subseteq Held /\ 0 \notin Inodes
  BY DEF Held, Inodes
<1> QED
  BY <1>3, <1>4

LEMMA OpenTemporaryOK ==
  ASSUME Sound, NEW t \in Threads, OpenTemporary(t) PROVE Kept
<1>1. PICK i \in Inodes :
        /\ Open(tmp, i) /\ tmp' = i
        /\ thread' = [thread EXCEPT ![t] = [@ EXCEPT !.pc = "write", !.fd = i]]
  BY DEF OpenTemporary
<1> DEFINE moved == [thread[t] EXCEPT !.pc = "write", !.fd = i]
<1>2. /\ thread[t] \in ThreadState /\ thread[t].pc = "open"
      /\ lock = t /\ up
  BY DEF Sound, Types, OneSaves, OpenTemporary, Saving
<1>3. /\ moved \in ThreadState /\ moved.pc = "write" /\ moved.fd = i
      /\ moved.text = thread[t].text /\ moved.update = thread[t].update
  BY <1>2 DEF ThreadState, Saving
<1>4. thread' = [thread EXCEPT ![t] = moved]
  BY <1>1
<1>5. UNCHANGED <<memory, up, lock, file, ext, saved>>
  BY DEF OpenTemporary
<1> HIDE DEF moved
<1>6. thread'[t] = moved /\ \A s \in Threads \ {t} : thread'[s] = thread[s]
  BY <1>4 DEF Sound, Types
<1>7. /\ \A s \in Threads \ {t} : thread[s].pc \notin Saving
      /\ \A s \in Threads : thread[s].fd = 0
  BY <1>2 DEF Sound, OneSaves, Saving
<1>8. i /= file /\ i /= 0 /\ (External = "reset" => i /= ext.fd)
  <2>1. CASE tmp = 0
    BY <1>1, <1>7, <2>1, FreeInode DEF Open, Sound
  <2>2. CASE tmp /= 0
    BY <1>1, <2>2 DEF Open, Sound, Types, Outside
  <2> QED
    BY <2>1, <2>2
<1>9. inode' = [inode EXCEPT ![i] = Empty]
  BY <1>1 DEF Open
<1>10. /\ inode'[i] = Empty /\ (file = 0 \/ inode'[file] = inode[file])
       /\ (External = "reset" /\ ext.fd /= 0 => inode'[ext.fd] = inode[ext.fd])
  BY <1>8, <1>9 DEF Sound, Types, Outside, ExtState
<1>11. Types'
  <2>1. inode' \in [Inodes -> Content \union {Empty, Mixed}]
    BY <1>9 DEF Sound, Types
  <2> QED
    BY <2>1, <1>1, <1>3, <1>4, <1>5, <1>8 DEF Sound, Types
<1>12. Outside'
  BY <1>1, <1>5, <1>8 DEF Sound, Outside
<1>13. OneSaves'
  BY <1>2, <1>3, <1>5, <1>6, <1>7, <1>8 DEF Sound, OneSaves, Saving
<1>14. Texts'
  BY <1>1, <1>2, <1>3, <1>5, <1>6, <1>7, <1>10 DEF Sound, Texts, Shared, Saving
<1>15. Covers => Covers'
  BY <1>2, <1>3, <1>5, <1>6, <1>7, <1>10, SameDisk DEF Covers, Saving
<1>16. \A A : MindIn(A) => MindIn(A)'
  BY <1>2, <1>3, <1>5, <1>6 DEF MindIn, Saving
<1> QED
  BY <1>5, <1>10, <1>11, <1>12, <1>13, <1>14, <1>15, <1>16, AloneFrom DEF Kept, Sound

LEMMA WriteTemporaryOK ==
  ASSUME Sound, NEW t \in Threads, WriteTemporary(t) PROVE Kept
<1> DEFINE moved == [thread[t] EXCEPT !.pc = "replace", !.fd = 0]
<1>1. /\ thread[t] \in ThreadState /\ thread[t].pc = "write"
      /\ lock = t /\ up /\ thread[t].fd \in Inodes /\ thread[t].text \in Content
      /\ ~Shared => thread[t].fd = tmp /\ inode[tmp] = Empty /\ tmp /= 0 /\ tmp /= file
  BY DEF Sound, Types, OneSaves, Texts, WriteTemporary, Saving, ThreadState, Inodes
<1>2. /\ moved \in ThreadState /\ moved.pc = "replace" /\ moved.fd = 0
      /\ moved.text = thread[t].text /\ moved.update = thread[t].update
  BY <1>1 DEF ThreadState, Saving
<1>3. thread' = [thread EXCEPT ![t] = moved]
  BY DEF WriteTemporary
<1>4. UNCHANGED <<memory, up, lock, file, tmp, ext, saved>>
  BY DEF WriteTemporary
<1>5. PICK c \in {thread[t].text, Mixed} :
        /\ inode' = [inode EXCEPT ![thread[t].fd] = c]
        /\ ~Shared => c = thread[t].text
  BY <1>1 DEF WriteTemporary, Write
<1> HIDE DEF moved
<1>6. thread'[t] = moved /\ \A s \in Threads \ {t} : thread'[s] = thread[s]
  BY <1>3 DEF Sound, Types
<1>7. \A s \in Threads \ {t} : thread[s].pc \notin Saving
  BY <1>1 DEF Sound, OneSaves
<1>8. ~Shared =>
        /\ inode'[tmp] = thread[t].text /\ (file = 0 \/ inode'[file] = inode[file])
        /\ External = "reset" /\ ext.fd /= 0 => inode'[ext.fd] = inode[ext.fd]
  BY <1>1, <1>5 DEF Sound, Types, Outside, ExtState
<1>9. Types' /\ Outside'
  <2>1. inode' \in [Inodes -> Content \union {Empty, Mixed}]
    BY <1>1, <1>5 DEF Sound, Types
  <2> QED
    BY <2>1, <1>2, <1>3, <1>4 DEF Sound, Types, Outside
<1>10. OneSaves'
  BY <1>1, <1>2, <1>4, <1>6 DEF Sound, OneSaves, Saving
<1>11. Texts'
  BY <1>1, <1>2, <1>4, <1>6, <1>7, <1>8 DEF Sound, Texts, Shared, Saving
<1>12. ~Shared /\ Covers => Covers'
  BY <1>1, <1>2, <1>4, <1>6, <1>7, <1>8, SameDisk DEF Covers, Saving
<1>13. \A A : MindIn(A) => MindIn(A)'
  BY <1>1, <1>2, <1>4, <1>6 DEF MindIn, Saving
<1> QED
  BY <1>4, <1>8, <1>9, <1>10, <1>11, <1>12, <1>13, AloneFrom DEF Kept, Sound

(* The file becomes what the thread serialized. *)
LEMMA ReplaceOK ==
  ASSUME Sound, NEW t \in Threads, Replace(t) PROVE Kept
<1>1. /\ thread[t].pc = "replace" /\ lock = t /\ up
      /\ thread[t].text \in Content
      /\ ~Shared => tmp /= 0 /\ inode[tmp] = thread[t].text
  BY DEF Sound, OneSaves, Texts, Replace, Saving
<1>2. /\ file' \in {file, tmp} /\ tmp' = 0 /\ (tmp /= 0 => file' = tmp)
      /\ (tmp /= 0 => saved' = saved \union {thread[t].update})
      /\ lock' = None /\ thread' = [thread EXCEPT ![t] = Idle]
      /\ UNCHANGED <<memory, up, inode, ext>>
  BY DEF Replace
<1>3. thread'[t] = Idle /\ \A s \in Threads \ {t} : thread'[s] = thread[s]
  BY <1>2 DEF Sound, Types
<1>4. \A s \in Threads \ {t} : thread[s].pc \notin Saving
  BY <1>1 DEF Sound, OneSaves
<1>5. Types' /\ Outside'
  BY <1>2, IdleFields DEF Sound, Types, Outside
<1>6. OneSaves'
  BY <1>2, <1>3, <1>4, IdleFields DEF Sound, OneSaves, Saving
<1>7. Texts'
  BY <1>2, <1>3, <1>4, IdleFields DEF Sound, Texts, Shared, Saving
<1>8. ASSUME ~Shared PROVE Alone
  <2>1. /\ file' = tmp /\ file' \notin {file, 0} /\ saved' = saved \union {thread[t].update}
        /\ inode'[file'] = thread[t].text
    BY <1>1, <1>2, <1>8 DEF Sound, Types
  <2>2. FileIsWhole' /\ OnDisk' = thread[t].text.updates
    BY <1>1, <2>1 DEF FileIsWhole, Whole, OnDisk
  <2>3. /\ thread[t].update \in thread[t].text.updates
        /\ thread[t].text.updates \subseteq memory.updates
    BY <1>1 DEF Sound, Texts, Saving
  <2>4. Covers => OnDisk \subseteq thread[t].text.updates
    BY <1>1 DEF Covers, Saving
  <2>5. Covers'
    BY <1>2, <1>3, <1>4, <2>2, <2>3, IdleFields DEF Covers
  <2>6. \A A : MindIn(A) => MindIn(A)' /\ FileIn(A)'
    BY <1>1, <1>2, <1>3, <2>1, <2>2, IdleFields DEF MindIn, FileIn, Saving
  <2> QED
    BY <1>2, <2>1, <2>2, <2>3, <2>4, <2>5, <2>6 DEF Alone
<1> QED
  BY <1>2, <1>5, <1>6, <1>7, <1>8 DEF Kept, Sound

LEMMA SaveFailsOK ==
  ASSUME Sound, NEW t \in Threads, SaveFails(t) PROVE Kept
<1>1. thread[t].pc = "open" /\ lock = t
  BY DEF Sound, OneSaves, SaveFails, Saving
<1>2. /\ lock' = None /\ thread' = [thread EXCEPT ![t] = Idle]
      /\ UNCHANGED <<memory, up, file, tmp, inode, ext, saved>>
  BY DEF SaveFails, diskVars
<1>3. thread'[t] = Idle /\ \A s \in Threads \ {t} : thread'[s] = thread[s]
  BY <1>2 DEF Sound, Types
<1>4. \A s \in Threads \ {t} : thread[s].pc \notin Saving
  BY <1>1 DEF Sound, OneSaves
<1>5. Types' /\ Outside'
  BY <1>2, IdleFields DEF Sound, Types, Outside
<1>6. OneSaves'
  BY <1>2, <1>3, <1>4, IdleFields DEF Sound, OneSaves, Saving
<1>7. Texts'
  BY <1>2, <1>3, <1>4, IdleFields DEF Sound, Texts, Shared, Saving
<1>8. Covers => Covers'
  BY <1>2, <1>3, IdleFields, SameDisk DEF Covers
<1>9. \A A : MindIn(A) => MindIn(A)'
  BY <1>2, <1>3, IdleFields DEF MindIn
<1> QED
  BY <1>2, <1>5, <1>6, <1>7, <1>8, <1>9, AloneFrom DEF Kept, Sound

-----------------------------------------------------------------------------
(* The process ends (Down). *)
LEMMA DownSound ==
  ASSUME Sound, Down, UNCHANGED <<file, tmp>>, Outside',
         inode' \in [Inodes -> Content \union {Empty, Mixed}]
  PROVE  Sound' /\ Covers' /\ \A A : MindIn(A)'
<1>1. /\ up' = FALSE /\ lock' = None /\ memory' = Defaults
      /\ thread' = [s \in Threads |-> Idle]
  BY DEF Down
<1>2. \A s \in Threads : thread'[s] = Idle
  BY <1>1
<1>3. Types'
  BY <1>1, IdleFields, ContentFields DEF Sound, Types
<1>4. OneSaves' /\ Texts'
  BY <1>2, IdleFields DEF OneSaves, Texts, Saving
<1>5. Covers' /\ \A A : MindIn(A)'
  BY <1>1, <1>2, IdleFields DEF Covers, MindIn
<1> QED
  BY <1>3, <1>4, <1>5 DEF Sound

LEMMA CrashOK ==
  ASSUME Sound, Down, UNCHANGED <<file, tmp, inode, ext, saved>> PROVE Kept
<1>1. Sound' /\ Covers' /\ \A A : MindIn(A)'
  BY DownSound DEF Sound, Types, Outside
<1> QED
  BY <1>1, AloneFrom DEF Kept

(* The next one starts from the file, or without one. *)
LEMMA LoadOK == ASSUME Sound, Load PROVE Kept
<1>1. ~up /\ UNCHANGED <<lock, thread, tmp, inode, ext, saved>>
  BY DEF Load
<1>2. \A s \in Threads : thread[s].pc \notin {"save"} \union Saving
  BY <1>1 DEF Sound, OneSaves
<1>3. /\ file' \in {file, 0} /\ (FileIsWhole => file' = file /\ memory' = inode[file])
      /\ OnDisk' = OnDisk /\ (up' => OnDisk \subseteq memory'.updates)
      /\ memory' \in Content /\ up' \in BOOLEAN
  <2>1. CASE file = 0
    BY <1>1, <2>1, ContentFields DEF Load, OnDisk, FileIsWhole
  <2>2. CASE file /= 0 /\ Whole(file)
    BY <1>1, <2>2 DEF Load, OnDisk, Whole
  <2>3. CASE file /= 0 /\ ~Whole(file)
    BY <1>1, <2>3 DEF Load, OnDisk, FileIsWhole, Sound, Types
  <2> QED
    BY <2>1, <2>2, <2>3
<1>4. Types' /\ Outside'
  BY <1>1, <1>3 DEF Sound, Types, Outside, ExtState
<1>5. OneSaves' /\ Texts'
  BY <1>1, <1>2 DEF Sound, OneSaves, Texts, Shared, Saving
<1>6. Covers'
  BY <1>1, <1>2, <1>3 DEF Covers
<1>7. FileIsWhole => FileIsWhole' /\ \A A : FileIn(A)' <=> FileIn(A)
  BY <1>1, <1>3, SameDisk
<1>8. \A A : FileIn(A) => MindIn(A)' /\ FileIn(A)'
  BY <1>1, <1>2, <1>3, <1>7 DEF MindIn, FileIn
<1> QED
  BY <1>1, <1>3, <1>4, <1>5, <1>6, <1>7, <1>8 DEF Kept, Sound, Alone

(* A step of the panel, and of nobody else. *)
OwnStep ==
  \/ \E t \in Threads : Save(t) \/ SaveFails(t) \/ \E u \in Updates : Mutate(t, u)
  \/ Crash \/ Load

LEMMA OwnStepOK == ASSUME Sound, OwnStep PROVE Kept
<1>1. CASE \E t \in Threads : Save(t) \/ SaveFails(t) \/ \E u \in Updates : Mutate(t, u)
  BY <1>1, MutateOK, SerializeOK, OpenTemporaryOK, WriteTemporaryOK, ReplaceOK, SaveFailsOK
  DEF Save
<1>2. CASE Crash
  BY <1>2, CrashOK DEF Crash, diskVars
<1>3. CASE Load
  BY <1>3, LoadOK
<1> QED
  BY <1>1, <1>2, <1>3 DEF OwnStep

LEMMA OwnStepAhead == ASSUME DInv, OwnStep PROVE DInv'
<1>1. Sound' /\ ext' = ext /\ (~Shared => Alone)
  BY OwnStepOK DEF DInv, Kept
<1>2. Quiet \/ Private => ~Shared
  BY DEF Quiet, Private, Shared
<1>3. Quiet => Ahead'
  BY <1>1, <1>2 DEF DInv, Ahead, Alone, Quiet, ResetBehind, Sound, Outside
<1>4. Private => Covers' /\ ResetBehind'
  <2> SUFFICES ASSUME Private PROVE Covers' /\ ResetBehind'
    OBVIOUS
  <2>1. Covers /\ ResetBehind /\ Alone
    BY <1>1, <1>2 DEF DInv, Ahead
  <2>2. Covers' /\ OnDisk \subseteq OnDisk' /\ FileIsWhole'
    BY <2>1 DEF Alone, ResetBehind
  <2>3. ext.pc \in {"write", "replace"} => inode'[ext.fd] = inode[ext.fd]
    BY <2>1, ExternalAssumption DEF Alone, DInv, Sound, Outside, Private
  <2> QED
    BY <1>1, <2>1, <2>2, <2>3 DEF ResetBehind
<1> QED
  BY <1>1, <1>3, <1>4 DEF DInv, Ahead, Quiet, Private

(* Nothing that was in it is any longer, and the process ends. *)
LEMMA CorruptOK == ASSUME DInv, Corrupt PROVE DInv'
<1>1. /\ Down /\ UNCHANGED <<file, tmp, ext>> /\ saved' = {} /\ ~Private
      /\ inode' = [inode EXCEPT ![file] = Mixed]
  BY DEF Corrupt, Private
<1>2. inode' \in [Inodes -> Content \union {Empty, Mixed}]
  BY <1>1 DEF DInv, Sound, Types
<1>3. Sound' /\ Covers'
  BY <1>1, <1>2, DownSound DEF DInv, Sound, Outside
<1> QED
  BY <1>1, <1>3 DEF DInv, Ahead, Private

-----------------------------------------------------------------------------
(* The writer outside.                                                     *)
LEMMA ExtReadsOK == ASSUME DInv, ExtReads PROVE DInv'
<1>1. /\ UNCHANGED <<memory, up, lock, thread, file, tmp, inode, saved>>
      /\ External /= "none" /\ file /= 0 /\ inode[file] \in Content
      /\ ext.pc = "idle" /\ ext.fd = 0
  BY DEF ExtReads, panelVars, diskVars, Idle, Whole
<1>2. PICK c : c = [inode[file] EXCEPT !.admin = IF External = "reset" THEN "reset" ELSE @]
  OBVIOUS
<1>3. c \in Content /\ c.updates = OnDisk
  BY <1>1, <1>2 DEF Content, OnDisk, Whole
<1>4. ext' = [pc |-> "open", update |-> None, fd |-> 0, text |-> c]
  BY <1>2 DEF ExtReads
<1>5. ext'.pc = "open" /\ ext'.fd = 0 /\ ext'.text = c /\ ext' \in ExtState
  BY <1>3, <1>4 DEF ExtState
<1>6. Outside' /\ Types' /\ ~Shared
  BY <1>1, <1>3, <1>5 DEF DInv, Sound, Outside, Types, Shared
<1>7. OneSaves' /\ Texts'
  BY <1>1, <1>6 DEF DInv, Sound, OneSaves, Texts
<1>8. Covers /\ saved \subseteq OnDisk
  BY <1>1 DEF DInv, Ahead, Quiet
<1>9. OnDisk' = OnDisk /\ FileIsWhole' /\ Covers'
  BY <1>1, <1>8, SameDisk DEF FileIsWhole, Whole, Covers
<1>10. Ahead'
  BY <1>1, <1>3, <1>5, <1>8, <1>9 DEF Ahead, ResetBehind
<1> QED
  BY <1>6, <1>7, <1>10 DEF DInv, Sound

(* reset_panel_admin opens another file than the panel does. *)
LEMMA ExtOpensOK == ASSUME DInv, ExtOpens PROVE DInv'
<1>1. PICK i \in Inodes :
        /\ Open(IF External = "agent" THEN tmp ELSE 0, i)
        /\ tmp' = IF External = "agent" THEN i ELSE tmp
        /\ ext' = [ext EXCEPT !.pc = "write", !.fd = i]
  BY DEF ExtOpens
<1>2. /\ UNCHANGED <<memory, up, lock, thread, file, saved>>
      /\ ext.pc = "open" /\ ext \in ExtState /\ ext.fd = 0 /\ ~Shared
      /\ External /= "none" /\ ext.text \in Content
  BY DEF ExtOpens, panelVars, DInv, Sound, Outside, Shared
<1>3. /\ ext'.pc = "write" /\ ext'.fd = i /\ ext'.text = ext.text /\ ext' \in ExtState
  BY <1>1, <1>2 DEF ExtState
<1>4. \A s \in Threads : thread[s].fd \in {0, tmp, ext.fd}
  BY <1>2 DEF DInv, Sound, OneSaves, Texts
<1>5. i /= file /\ i /= 0 /\ (External = "reset" => i /= tmp)
  <2>1. NewInode \in Inodes \ {file, tmp, 0}
    BY <1>2, <1>4, FreeInode DEF DInv, Sound
  <2>2. CASE External = "agent" /\ tmp /= 0
    BY <1>1, <2>2 DEF Open, DInv, Sound, Types
  <2>3. CASE ~(External = "agent" /\ tmp /= 0)
    BY <1>1, <2>1, <2>3 DEF Open
  <2> QED
    BY <2>2, <2>3
<1>6. inode' = [inode EXCEPT ![i] = Empty]
  BY <1>1 DEF Open
<1>7. /\ inode'[i] = Empty /\ (file = 0 \/ inode'[file] = inode[file])
      /\ External = "reset" /\ tmp /= 0 => inode'[tmp] = inode[tmp]
  BY <1>5, <1>6 DEF DInv, Sound, Types
<1>8. Types'
  <2>1. inode' \in [Inodes -> Content \union {Empty, Mixed}]
    BY <1>6 DEF DInv, Sound, Types
  <2>2. tmp' \in Inodes \union {0} /\ (tmp' = file' => tmp' = 0)
    BY <1>1, <1>2, <1>5 DEF DInv, Sound, Types
  <2> QED
    BY <2>1, <2>2, <1>2 DEF DInv, Sound, Types
<1>9. Outside'
  BY <1>1, <1>2, <1>3, <1>5 DEF DInv, Sound, Outside
<1>10. OneSaves'
  BY <1>2 DEF DInv, Sound, OneSaves
<1>11. Texts'
  <2>1. ~Shared' => External = "reset"
    BY <1>2, <1>3, ExternalAssumption DEF Shared
  <2>2. \A s \in Threads : thread[s].pc = "write" => tmp /= 0
    BY <1>2 DEF DInv, Sound, OneSaves, Texts
  <2>3. External = "reset" => tmp' = tmp
    BY <1>1
  <2> QED
    BY <1>2, <1>7, <2>1, <2>2, <2>3 DEF DInv, Sound, Texts
<1>12. Ahead'
  <2>1. OnDisk' = OnDisk /\ (FileIsWhole' <=> FileIsWhole)
    BY <1>2, <1>7, SameDisk
  <2>2. Private => Covers'
    BY <1>2, <2>1 DEF DInv, Ahead, Covers
  <2>3. Private => ResetBehind'
    BY <1>2, <1>3, <1>7, <2>1 DEF DInv, Ahead, ResetBehind
  <2> QED
    BY <1>3, <2>2, <2>3 DEF Ahead, Quiet, Private
<1> QED
  BY <1>8, <1>9, <1>10, <1>11, <1>12 DEF DInv, Sound

LEMMA ExtWritesOK == ASSUME DInv, ExtWrites PROVE DInv'
<1>1. /\ UNCHANGED <<memory, up, lock, thread, file, tmp, saved>>
      /\ ext' = [ext EXCEPT !.pc = "replace"]
      /\ ext.pc = "write" /\ ext \in ExtState /\ ext.fd \in Inodes
      /\ External /= "none" /\ ext.text \in Content
  BY DEF ExtWrites, panelVars, DInv, Sound, Outside, ExtState
<1>2. PICK c \in {ext.text, Mixed} :
        /\ inode' = [inode EXCEPT ![ext.fd] = c]
        /\ inode[ext.fd] = Empty => c = ext.text
  BY DEF ExtWrites, Write
<1>3. /\ ext'.pc = "replace" /\ ext'.fd = ext.fd /\ ext'.text = ext.text /\ ext' \in ExtState
  BY <1>1 DEF ExtState
<1>4. External = "reset" =>
        /\ ext.fd /= file /\ ext.fd /= tmp
        /\ file = 0 \/ inode'[file] = inode[file]
        /\ tmp = 0 \/ inode'[tmp] = inode[tmp]
  BY <1>1, <1>2 DEF DInv, Sound, Outside, Types, Inodes
<1>5. inode'[ext.fd] = c
  BY <1>1, <1>2 DEF DInv, Sound, Types
<1>6. Types'
  BY <1>1, <1>2 DEF DInv, Sound, Types
<1>7. Outside'
  BY <1>1, <1>3 DEF DInv, Sound, Outside
<1>8. OneSaves'
  BY <1>1 DEF DInv, Sound, OneSaves
<1>9. ~Shared' => External = "reset" /\ ~Shared
  BY <1>1, <1>3, ExternalAssumption DEF Shared
<1>10. Texts'
  <2>1. \A s \in Threads : ~Shared /\ thread[s].pc = "write" => tmp /= 0
    BY DEF DInv, Sound, OneSaves, Texts
  <2> QED
    BY <1>1, <1>4, <1>9, <2>1 DEF DInv, Sound, Texts
<1>11. Private => External = "reset"
  BY <1>1, ExternalAssumption DEF Private
<1>12. Private => Covers' /\ ResetBehind'
  <2> SUFFICES ASSUME Private PROVE Covers' /\ ResetBehind'
    OBVIOUS
  <2>1. OnDisk' = OnDisk /\ (FileIsWhole' <=> FileIsWhole)
    BY <1>1, <1>4, <1>11, SameDisk
  <2>2. Covers'
    BY <1>1, <2>1 DEF DInv, Ahead, Covers
  <2>3. c = ext.text
    BY <1>1, <1>2 DEF DInv, Ahead, ResetBehind
  <2>4. ResetBehind'
    BY <1>1, <1>3, <1>5, <2>1, <2>3 DEF DInv, Ahead, ResetBehind
  <2> QED
    BY <2>2, <2>4
<1>13. Ahead'
  BY <1>3, <1>12 DEF Ahead, Quiet, Private
<1> QED
  BY <1>6, <1>7, <1>8, <1>10, <1>13 DEF DInv, Sound

LEMMA ExtReplacesOK == ASSUME DInv, ExtReplaces PROVE DInv'
<1>1. /\ UNCHANGED <<memory, up, lock, thread, inode, saved>>
      /\ ext' = [ext EXCEPT !.pc = "restart", !.fd = 0]
      /\ ext.pc = "replace" /\ ext \in ExtState /\ ext.fd \in Inodes
      /\ External /= "none" /\ ext.text \in Content
  BY DEF ExtReplaces, panelVars, DInv, Sound, Outside, ExtState
<1>2. /\ External = "reset" => file' = ext.fd /\ tmp' = tmp
      /\ External = "agent" => file' \in {file, tmp} /\ tmp' = 0
  BY DEF ExtReplaces
<1>3. /\ ext'.pc = "restart" /\ ext'.fd = 0 /\ ext'.text = ext.text /\ ext' \in ExtState
  BY <1>1 DEF ExtState
<1>4. Types'
  <2>1. External = "reset" => file' \in Inodes /\ file' /= tmp'
    BY <1>1, <1>2 DEF DInv, Sound, Outside, Inodes
  <2> QED
    BY <1>1, <1>2, <2>1, ExternalAssumption DEF DInv, Sound, Types
<1>5. Outside'
  BY <1>1, <1>3 DEF Outside
<1>6. OneSaves'
  BY <1>1 DEF DInv, Sound, OneSaves
<1>7. ~Shared' => External = "reset" /\ ~Shared
  BY <1>1, <1>3, ExternalAssumption DEF Shared
<1>8. Texts'
  BY <1>1, <1>2, <1>7 DEF DInv, Sound, Texts
<1>9. Private => Covers' /\ ResetBehind'
  <2> SUFFICES ASSUME Private PROVE Covers' /\ ResetBehind'
    OBVIOUS
  <2>1. External = "reset"
    BY <1>1, ExternalAssumption DEF Private
  <2>2. inode'[file'] = ext.text /\ file' /= 0
    BY <1>1, <1>2, <2>1 DEF DInv, Ahead, ResetBehind, Inodes
  <2>3. FileIsWhole' /\ OnDisk' = ext.text.updates
    BY <1>1, <2>2 DEF FileIsWhole, Whole, OnDisk
  <2>4. OnDisk' \subseteq OnDisk
    BY <1>1, <2>3 DEF DInv, Ahead, ResetBehind
  <2>5. Covers'
    BY <1>1, <2>4 DEF DInv, Ahead, Covers
  <2> QED
    BY <1>3, <2>3, <2>5 DEF ResetBehind
<1>10. Ahead'
  BY <1>3, <1>9 DEF Ahead, Quiet, Private
<1> QED
  BY <1>4, <1>5, <1>6, <1>8, <1>10 DEF DInv, Sound

LEMMA ExtRestartsOK == ASSUME DInv, ExtRestarts PROVE DInv'
<1>1. /\ Down /\ UNCHANGED <<file, tmp, inode>> /\ saved' = {}
      /\ ext' = [ext EXCEPT !.pc = "done"] /\ ext.pc = "restart"
  BY DEF ExtRestarts, diskVars
<1>2. Outside' /\ ext'.pc = "done"
  BY <1>1 DEF DInv, Sound, Outside, ExtState
<1>3. Sound' /\ Covers'
  BY <1>1, <1>2, DownSound DEF DInv, Sound, Types
<1>4. Private => ResetBehind'
  BY <1>1, <1>2, SameDisk DEF DInv, Ahead, ResetBehind
<1> QED
  BY <1>1, <1>3, <1>4 DEF DInv, Ahead, Private

LEMMA StepOK == DInv /\ [Next]_vars => DInv'
<1> SUFFICES ASSUME DInv, [Next]_vars PROVE DInv'
  OBVIOUS
<1>1. CASE OwnStep
  BY <1>1, OwnStepAhead
<1>2. CASE Corrupt \/ ExtReads \/ ExtOpens \/ ExtWrites \/ ExtReplaces \/ ExtRestarts
  BY <1>2, CorruptOK, ExtReadsOK, ExtOpensOK, ExtWritesOK, ExtReplacesOK, ExtRestartsOK
<1>3. CASE UNCHANGED vars
  BY <1>3 DEF vars, panelVars, diskVars, DInv, Sound, Types, Outside, OneSaves, Texts, Shared,
     Ahead, Quiet, Covers, Private, ResetBehind, OnDisk, FileIsWhole, Whole
<1> QED
  BY <1>1, <1>2, <1>3 DEF Next, OwnStep

-----------------------------------------------------------------------------
(* An update whose save has returned is in the file, and the next process  *)
(* has it: neither a crash nor a failed save nor a later save of another   *)
(* thread takes it back, for any number of threads and crashes, with an    *)
(* unreadable file, and with a writer outside, until and after it writes.  *)
THEOREM SavedUpdatesStay == Spec => []SavedStays
<1>1. DInv => SavedStays
  BY DEF DInv, Ahead, Quiet, SavedStays
<1> QED
  BY InitOK, StepOK, <1>1, PTL DEF Spec

(* Whenever the process is killed, the next one finds a whole database,    *)
(* with reset_panel_admin beside it too; the agent is left out, which      *)
(* writes to the panel's own temporary file.                               *)
THEOREM DatabaseStaysWhole ==
  ASSUME External /= "agent", ~Corrupted PROVE Spec => []FileIsWhole
<1>1. DInv => FileIsWhole
  BY DEF DInv, Ahead, Private, ResetBehind
<1> QED
  BY InitOK, StepOK, <1>1, PTL DEF Spec

-----------------------------------------------------------------------------
(* Before the agent restarts it, a panel that is never killed runs and has *)
(* all that any inode holds, and all that the agent has read.              *)
AgentBehind ==
  ext.pc /= "done" =>
    /\ up
    /\ \A i \in Inodes : Whole(i) => inode[i].updates \subseteq memory.updates
    /\ ext.pc /= "idle" => ext.text.updates \subseteq memory.updates

LEMMA AgentStep ==
  ASSUME MaxCrashes = 0, DInv, crashes \in Nat, AgentBehind, [Next]_vars
  PROVE  crashes' \in Nat /\ AgentBehind'
<1> USE DEF DInv, Sound
<1>1. /\ ~Crash /\ ~Corrupt /\ \A t \in Threads : ~SaveFails(t)
  BY DEF Crash, Corrupt, SaveFails
<1>2. crashes' = crashes
  BY <1>1 DEF Next, Save, Mutate, Serialize, OpenTemporary, WriteTemporary, Replace, Load,
     ExtReads, ExtOpens, ExtWrites, ExtReplaces, ExtRestarts, vars
<1> SUFFICES ASSUME ext'.pc /= "done"
             PROVE  /\ up'
                    /\ \A i \in Inodes : Whole(i)' => inode'[i].updates \subseteq memory'.updates
                    /\ ext'.pc /= "idle" => ext'.text.updates \subseteq memory'.updates
  BY <1>2 DEF AgentBehind
(* What is written was read or serialized before.                          *)
<1>3. ASSUME ext.pc /= "done", up' = up, memory.updates \subseteq memory'.updates,
             ext'.pc /= "idle" =>
               \/ ext'.text = ext.text /\ ext.pc /= "idle"
               \/ ext'.text.updates \subseteq memory.updates,
             NEW i \in Inodes, NEW c \in Content \union {Empty, Mixed},
             c.updates \subseteq memory.updates,
             inode' = [inode EXCEPT ![i] = c]
      PROVE  /\ up'
             /\ \A j \in Inodes : Whole(j)' => inode'[j].updates \subseteq memory'.updates
             /\ ext'.pc /= "idle" => ext'.text.updates \subseteq memory'.updates
  BY <1>3 DEF AgentBehind, Whole, Types
<1>4. ASSUME ext.pc /= "done", up' = up, memory.updates \subseteq memory'.updates,
             ext'.pc /= "idle" =>
               \/ ext'.text = ext.text /\ ext.pc /= "idle"
               \/ ext'.text.updates \subseteq memory.updates,
             inode' = inode
      PROVE  /\ up'
             /\ \A j \in Inodes : Whole(j)' => inode'[j].updates \subseteq memory'.updates
             /\ ext'.pc /= "idle" => ext'.text.updates \subseteq memory'.updates
  BY <1>4 DEF AgentBehind, Whole
<1>5. CASE \E t \in Threads, u \in Updates : Mutate(t, u)
  <2>1. memory.updates \subseteq memory'.updates
    BY <1>5 DEF Mutate, Types, Content
  <2> QED
    BY <1>4, <1>5, <2>1 DEF Mutate, diskVars
<1>6. CASE \E t \in Threads : Serialize(t) \/ Replace(t)
  BY <1>4, <1>6 DEF Serialize, Replace, diskVars
<1>7. CASE \E t \in Threads : OpenTemporary(t)
  <2>1. PICK i \in Inodes : inode' = [inode EXCEPT ![i] = Empty]
    BY <1>7 DEF OpenTemporary, Open
  <2> QED
    BY <1>3, <1>7, <2>1, ContentFields DEF OpenTemporary
<1>8. ASSUME NEW t \in Threads, WriteTemporary(t) PROVE AgentBehind'
  <2>1. /\ thread[t].fd \in Inodes /\ thread[t].text \in Content
        /\ thread[t].text.updates \subseteq memory.updates
    BY <1>8 DEF WriteTemporary, Types, ThreadState, OneSaves, Texts, Saving
  <2>2. PICK c \in {thread[t].text, Mixed} : inode' = [inode EXCEPT ![thread[t].fd] = c]
    BY <1>8 DEF WriteTemporary, Write
  <2>3. c \in Content \union {Empty, Mixed} /\ c.updates \subseteq memory.updates
    BY <2>1, ContentFields
  <2> QED
    BY <1>3, <1>8, <2>1, <2>2, <2>3 DEF WriteTemporary, AgentBehind
<1>9. CASE ExtReads
  <2>1. ext'.text.updates = inode[file].updates /\ Whole(file) /\ file \in Inodes
    BY <1>9 DEF ExtReads, Types, Whole, Content
  <2>2. inode[file].updates \subseteq memory.updates /\ ext.pc /= "done"
    BY <1>9, <2>1 DEF AgentBehind, ExtReads, Idle
  <2> QED
    BY <1>4, <1>9, <2>1, <2>2 DEF ExtReads, panelVars, diskVars
<1>10. CASE ExtOpens
  <2>1. PICK i \in Inodes : inode' = [inode EXCEPT ![i] = Empty]
    BY <1>10 DEF ExtOpens, Open
  <2>2. ext'.text = ext.text /\ ext.pc = "open"
    BY <1>10 DEF ExtOpens, Outside, ExtState
  <2> QED
    BY <1>3, <1>10, <2>1, <2>2, ContentFields DEF ExtOpens, panelVars
<1>11. CASE ExtWrites
  <2>1. ext'.text = ext.text /\ ext.pc = "write" /\ ext.fd \in Inodes /\ ext.text \in Content
    BY <1>11 DEF ExtWrites, Outside, ExtState
  <2>2. PICK c \in {ext.text, Mixed} : inode' = [inode EXCEPT ![ext.fd] = c]
    BY <1>11 DEF ExtWrites, Write
  <2>3. c \in Content \union {Empty, Mixed} /\ c.updates \subseteq memory.updates
    BY <2>1, ContentFields DEF AgentBehind
  <2> QED
    BY <1>3, <1>11, <2>1, <2>2, <2>3 DEF ExtWrites, panelVars
<1>12. CASE ExtReplaces
  <2>1. ext'.text = ext.text /\ ext.pc = "replace"
    BY <1>12 DEF ExtReplaces, Outside, ExtState
  <2> QED
    BY <1>4, <1>12, <2>1 DEF ExtReplaces, panelVars
<1>13. CASE ExtRestarts
  BY <1>13 DEF ExtRestarts, Outside, ExtState
<1>14. CASE Load
  BY <1>14 DEF Load, AgentBehind
<1>15. CASE UNCHANGED vars
  BY <1>4, <1>15 DEF vars, panelVars, diskVars
<1> QED
  BY <1>1, <1>5, <1>6, <1>7, <1>8, <1>9, <1>10, <1>11, <1>12, <1>13, <1>14, <1>15
  DEF Next, Save, AgentBehind

(* Who may write to the file while the process holds all of it.  When the  *)
(* agent and the panel are in the same temporary file and the panel is     *)
(* killed, or when reset_panel_admin goes on with what it read before the  *)
(* file was lost, the process may start from less than the file then gets. *)
Mild ==
  \/ External = "none"
  \/ External = "reset" /\ ~Corrupted
  \/ External = "agent" /\ MaxCrashes = 0

(* What the process holds is never behind the file it saves to: a crash    *)
(* between any two steps of a save, a save that fails, a temporary file of *)
(* an earlier process and a writer outside change nothing about it.        *)
THEOREM MemoryNeverBehind ==
  ASSUME Mild PROVE Spec => []MemoryIsAhead
<1>1. CASE External = "agent" /\ MaxCrashes = 0
  <2>1. Init => crashes \in Nat /\ AgentBehind
    BY DEF Init, AgentBehind, Idle, Whole, Inodes, Empty, Content
  <2>2. DInv /\ (crashes \in Nat /\ AgentBehind) /\ [Next]_vars => (crashes \in Nat /\ AgentBehind)'
    BY <1>1, AgentStep
  <2>3. DInv /\ AgentBehind => MemoryIsAhead
    <3> SUFFICES ASSUME DInv, AgentBehind, up, file /= 0, Whole(file)
                 PROVE  inode[file].updates \subseteq memory.updates
      BY DEF MemoryIsAhead, OnDisk
    <3>1. CASE ext.pc = "done"
      BY <3>1 DEF DInv, Ahead, Quiet, Covers, OnDisk
    <3>2. CASE ext.pc /= "done"
      BY <3>2 DEF AgentBehind, DInv, Sound, Types
    <3> QED
      BY <3>1, <3>2
  <2> QED
    BY InitOK, StepOK, <2>1, <2>2, <2>3, PTL DEF Spec
<1>2. CASE External = "none" \/ (External = "reset" /\ ~Corrupted)
  <2>1. DInv => MemoryIsAhead
    BY <1>2 DEF DInv, Ahead, Quiet, Private, Covers, MemoryIsAhead, Sound, Outside
  <2> QED
    BY InitOK, StepOK, <2>1, PTL DEF Spec
<1> QED
  BY <1>1, <1>2 DEF Mild

-----------------------------------------------------------------------------
(* The administrator of a panel whose file is whole is the one who was set *)
(* or, once reset_panel_admin has read the file, the one it gives.         *)
Known == {"set", "reset"}
AdminKnown ==
  /\ MindIn(Known) /\ FileIn(Known)
  /\ ext.pc \in {"open", "write", "replace"} => ext.text.admin \in Known

LEMMA AdminStep ==
  ASSUME Private, DInv, AdminKnown, [Next]_vars PROVE AdminKnown'
<1> USE DEF DInv, Sound
<1>1. External /= "agent" /\ ~Shared
  BY DEF Private, Shared
<1>2. CASE OwnStep
  BY <1>1, <1>2, OwnStepOK DEF Kept, Alone, AdminKnown
<1>3. CASE Corrupt
  BY <1>3 DEF Corrupt, Private
<1>4. CASE ExtReads
  <2>1. PICK c : c = [inode[file] EXCEPT !.admin = IF External = "reset" THEN "reset" ELSE @]
    OBVIOUS
  <2>2. ext'.text = c /\ External = "reset"
    BY <1>1, <1>4, <2>1, ExternalAssumption DEF ExtReads
  <2>3. c.admin = "reset"
    BY <1>4, <2>1, <2>2 DEF ExtReads, Whole, Content
  <2>4. UNCHANGED <<memory, up, thread, file, inode>>
    BY <1>4 DEF ExtReads, panelVars, diskVars
  <2> QED
    BY <2>2, <2>3, <2>4, SameDisk DEF AdminKnown, MindIn, Known
<1>5. CASE ExtOpens \/ ExtWrites
  <2>1. UNCHANGED <<memory, up, thread, file>> /\ ext'.text = ext.text
        /\ ext.pc \in {"open", "write"}
    BY <1>5 DEF ExtOpens, ExtWrites, panelVars, Outside, ExtState
  <2>2. FileIsWhole /\ FileIsWhole'
    BY <1>5, ExtOpensOK, ExtWritesOK DEF Ahead, ResetBehind, Private
  <2>3. inode'[file] = inode[file]
    <3>1. CASE ExtOpens
      <4>1. External = "reset"
        BY <1>1, <2>1, ExternalAssumption DEF Outside
      <4>2. NewInode /= file
        <5>1. ext.fd = 0 /\ \A s \in Threads : thread[s].fd \in {0, tmp, ext.fd}
          BY <1>1, <3>1 DEF ExtOpens, Outside, OneSaves, Texts
        <5> QED
          BY <5>1, FreeInode
      <4>3. inode' = [inode EXCEPT ![NewInode] = Empty]
        BY <3>1, <4>1 DEF ExtOpens, Open
      <4> QED
        BY <4>2, <4>3, <2>2 DEF FileIsWhole, Types
    <3>2. CASE ExtWrites
      <4>1. External = "reset" /\ ext.fd /= file
        BY <1>1, <3>2, ExternalAssumption DEF ExtWrites, Outside
      <4> QED
        BY <3>2, <4>1, <2>2 DEF ExtWrites, Write, FileIsWhole, Types
    <3> QED
      BY <1>5, <3>1, <3>2
  <2>4. MindIn(Known)' /\ FileIn(Known)'
    BY <2>1, <2>3, SameDisk DEF AdminKnown, MindIn
  <2> QED
    BY <2>1, <2>4 DEF AdminKnown
<1>6. CASE ExtReplaces
  <2>1. External = "reset" /\ ext.pc = "replace"
    BY <1>1, <1>6, ExternalAssumption DEF ExtReplaces, Outside
  <2>2. /\ UNCHANGED <<memory, up, thread, inode>> /\ file' = ext.fd
        /\ ext'.pc = "restart" /\ inode[ext.fd] = ext.text
    BY <1>6, <2>1 DEF ExtReplaces, panelVars, Outside, ExtState, Ahead, ResetBehind
  <2>3. FileIsWhole'
    BY <1>6, ExtReplacesOK DEF Ahead, ResetBehind, Private
  <2> QED
    BY <2>1, <2>2, <2>3 DEF AdminKnown, MindIn, FileIn
<1>7. CASE ExtRestarts
  <2>1. /\ up' = FALSE /\ \A s \in Threads : thread'[s] = Idle
        /\ UNCHANGED <<file, inode>> /\ ext'.pc = "done"
    BY <1>7 DEF ExtRestarts, Down, diskVars, Outside, ExtState
  <2> QED
    BY <2>1, IdleFields, SameDisk DEF AdminKnown, MindIn
<1>8. CASE UNCHANGED vars
  BY <1>8, SameDisk DEF vars, panelVars, diskVars, AdminKnown, MindIn
<1> QED
  BY <1>2, <1>3, <1>4, <1>5, <1>6, <1>7, <1>8 DEF Next, OwnStep

(* As long as the file has never been unreadable, no start falls back to   *)
(* the default administrator, whatever is killed or fails and with         *)
(* reset_panel_admin beside it: it takes an unreadable file, moved away by *)
(* the start before, for run panel_corrupt to find one.                    *)
THEOREM DefaultsOnlyAfterLoss ==
  ASSUME External /= "agent", ~Corrupted PROVE Spec => []FailsClosed
<1>1. AdminKnown => FailsClosed
  BY DEF AdminKnown, MindIn, Known, FailsClosed
<1>2. Init => AdminKnown
  BY InitOK DEF AdminKnown, MindIn, FileIn, Known, Init, Idle
<1>3. DInv /\ AdminKnown /\ [Next]_vars => AdminKnown'
  BY AdminStep DEF Private
<1> QED
  BY InitOK, StepOK, <1>1, <1>2, <1>3, PTL DEF Spec

-----------------------------------------------------------------------------
(* The restoration of a backup (BackupRestore).                            *)

Undisturbed == External = "none" /\ ~Corrupted

MindSet ==
  /\ up => memory.admin = "set"
  /\ \A t \in Threads : thread[t].pc \in Saving => thread[t].text.admin = "set"
FileSet == FileIsWhole /\ inode[file].admin = "set"

(* What a step of the panel keeps of them, whatever others do to the file. *)
SetStays ==
  /\ MindSet /\ FileSet => MindSet' /\ FileSet'
  /\ MindSet /\ up => MindSet' /\ (file' /= file => FileSet')

DiskStates == {"old", "new", "none", "partial", "odd"}

RestoreShape ==
  restore = [pc |-> restore.pc, at |-> restore.at, todo |-> restore.todo,
             moved |-> restore.moved, copied |-> restore.copied, fd |-> restore.fd,
             text |-> restore.text, db |-> restore.db, had |-> restore.had,
             lost |-> restore.lost]

RestoreTypes ==
  /\ RestoreShape
  /\ restore.moved \subseteq Dirs /\ restore.copied \subseteq Files \union {Database}
  /\ restore.had \subseteq Others
  /\ disk \in [Others -> DiskStates] /\ back \in [Others -> DiskStates]
  /\ restore.pc = "idle" => restore = NotStarted

(* An artifact that was there is untouched while it is still to come, and  *)
(* has its copy from when it is at hand until it is put back.              *)
ArtifactKept(a) ==
  /\ "old" \in {disk[a], back[a]}
  /\ a \in restore.moved \union restore.copied => back[a] = "old"
  /\ restore.pc = "replace" /\ restore.at = a => back[a] = "old"
  /\ restore.pc \in {"swap", "replace"} /\ a \in restore.todo =>
       disk[a] = "old" \/ (restore.pc = "replace" /\ restore.at = a)

Untouched ==
  /\ Sound /\ MindSet /\ FileSet
  /\ Database \notin restore.copied
  /\ restore.pc \in {"idle", "swap", "replace", "undo", "raised", "killed"}
  /\ restore.pc \in {"swap", "replace"} => Database \in restore.todo
  /\ restore.pc = "replace" => restore.at /= Database

Snapshotted ==
  /\ restore.db.admin = "set" /\ restore.pc /= "idle"
  /\ restore.pc = "swap" => Database \notin restore.todo
  /\ restore.pc = "replace" => restore.at = Database \/ Database \notin restore.todo

ArtifactsKept == \A a \in restore.had : ArtifactKept(a)
DatabaseKept == Untouched \/ Snapshotted

RInv == RestoreTypes /\ ArtifactsKept /\ DatabaseKept

panelState == <<memory, up, lock, thread, file, tmp, inode, ext, saved>>

-----------------------------------------------------------------------------
LEMMA RestoreInitOK == RestoreInit => RInv
<1> SUFFICES ASSUME RestoreInit PROVE RInv
  OBVIOUS
<1>1. restore = NotStarted /\ Init
  BY DEF RestoreInit
<1>2. RestoreTypes
  BY <1>1 DEF RestoreInit, RestoreTypes, RestoreShape, NotStarted, DiskStates
<1>3. ArtifactsKept
  BY <1>1 DEF ArtifactsKept, NotStarted
<1>4. DatabaseKept
  BY <1>1, InitOK DEF DInv, MindIn, FileIn, MindSet, FileSet, DatabaseKept, Untouched, NotStarted
<1> QED
  BY <1>2, <1>3, <1>4 DEF RInv

LEMMA PanelKept ==
  ASSUME UNCHANGED panelState
  PROVE  /\ Sound' <=> Sound
         /\ OnDisk' = OnDisk /\ (Covers' <=> Covers)
         /\ MindSet' <=> MindSet
         /\ FileSet' <=> FileSet
BY DEF panelState, Sound, Types, Outside, OneSaves, Texts, Shared, OnDisk, Covers, MindSet,
       FileSet, FileIsWhole, Whole

LEMMA UndisturbedOK == ASSUME Undisturbed, Sound, Next PROVE OwnStep /\ Kept /\ Alone /\ SetStays
<1>1. ext.pc = "idle" /\ ~Corrupted /\ External = "none"
  BY DEF Undisturbed, Sound, Outside
<1>2. OwnStep
  BY <1>1 DEF Next, OwnStep, Corrupt, ExtReads, ExtOpens, ExtWrites, ExtReplaces, ExtRestarts
<1>3. Kept /\ Alone
  BY <1>1, <1>2, OwnStepOK DEF Kept, Shared
<1>4. PICK A : A = {"set"}
  OBVIOUS
<1>5. /\ MindIn(A) <=> MindSet
      /\ MindIn(A)' <=> MindSet'
      /\ FileIn(A) <=> FileSet
      /\ FileIn(A)' <=> FileSet'
  BY <1>4 DEF MindIn, FileIn, MindSet, FileSet
<1>6. SetStays
  BY <1>3, <1>5 DEF Alone, SetStays
<1> QED
  BY <1>2, <1>3, <1>6

(* The panel goes on, and is killed, at any point of a restore. *)
LEMMA PanelStepOK ==
  ASSUME Undisturbed, RInv, PanelStep PROVE RInv'
<1>1. /\ UNCHANGED <<disk, back>>
      /\ restore'.pc \in {restore.pc, "killed"}
      /\ restore.pc \in Over => restore'.pc = restore.pc
      /\ restore'.at = restore.at /\ restore'.todo = restore.todo
      /\ restore'.moved = restore.moved /\ restore'.copied = restore.copied
      /\ restore'.db = restore.db /\ restore'.had = restore.had
      /\ restore'.fd \in {restore.fd, 0} /\ restore'.text = restore.text
      /\ restore'.lost = restore.lost
      /\ RestoreShape'
  BY DEF PanelStep, RInv, RestoreTypes, RestoreShape
<1>2. RestoreTypes'
  <2>1. restore'.pc = "idle" => restore' = NotStarted
    BY <1>1 DEF RInv, RestoreTypes, RestoreShape, NotStarted
  <2> QED
    BY <1>1, <2>1 DEF RInv, RestoreTypes, RestoreShape
<1>3. ArtifactsKept'
  BY <1>1 DEF RInv, ArtifactsKept, ArtifactKept
<1>4. DatabaseKept'
  <2>1. CASE Untouched
    <3>1. Kept /\ SetStays
      BY <2>1, UndisturbedOK DEF PanelStep, Untouched
    <3> QED
      BY <2>1, <3>1, <1>1 DEF DatabaseKept, Untouched, Kept, SetStays
  <2>2. CASE Snapshotted
    BY <2>2, <1>1 DEF DatabaseKept, Snapshotted, Over
  <2> QED
    BY <2>1, <2>2 DEF RInv, DatabaseKept
<1> QED
  BY <1>2, <1>3, <1>4 DEF RInv

-----------------------------------------------------------------------------
LEMMA Kinds ==
  /\ \A f \in Files : f \notin Dirs /\ f /= Database
  /\ \A d \in Dirs : d \notin Files /\ d /= Database
  /\ Others \subseteq Artifacts /\ Database \notin Others
BY ArtifactsAssumption DEF Others, Artifacts

(* The panel's part of a step that leaves the panel alone.                 *)
LEMMA DatabaseStep ==
  ASSUME DatabaseKept, UNCHANGED panelState, restore'.db = restore.db,
         Untouched =>
           /\ Database \notin restore'.copied
           /\ restore'.pc \in {"idle", "swap", "replace", "undo", "raised", "killed"}
           /\ restore'.pc \in {"swap", "replace"} => Database \in restore'.todo
           /\ restore'.pc = "replace" => restore'.at /= Database,
         Snapshotted =>
           /\ restore'.pc /= "idle"
           /\ restore'.pc = "swap" => Database \notin restore'.todo
           /\ restore'.pc = "replace" => restore'.at = Database \/ Database \notin restore'.todo
  PROVE  DatabaseKept'
BY PanelKept DEF DatabaseKept, Untouched, Snapshotted

LEMMA StartRestoreOK == ASSUME RInv, StartRestore PROVE RInv'
<1>1. restore = NotStarted /\ UNCHANGED <<disk, back, panelState>>
  BY DEF StartRestore, RInv, RestoreTypes, RestoreShape, vars, panelVars, diskVars, panelState
<1>2. /\ restore' = [NotStarted EXCEPT !.pc = "swap", !.todo = Artifacts,
                                      !.had = {a \in Others : disk[a] = "old"}]
  BY <1>1 DEF StartRestore
<1>3. /\ restore'.pc = "swap" /\ restore'.todo = Artifacts
      /\ restore'.had = {a \in Others : disk[a] = "old"}
      /\ restore'.moved = {} /\ restore'.copied = {} /\ restore'.db = restore.db
      /\ restore'.fd = 0 /\ restore'.text = Empty /\ restore'.at = None /\ ~restore'.lost
  BY <1>1, <1>2 DEF NotStarted
<1>4. RestoreTypes'
  BY <1>1, <1>2, <1>3 DEF RInv, RestoreTypes, RestoreShape, NotStarted
<1>5. ArtifactsKept'
  BY <1>1, <1>3 DEF ArtifactsKept, ArtifactKept
<1>6. DatabaseKept'
  <2>1. ~Snapshotted
    BY <1>1 DEF Snapshotted, NotStarted
  <2> QED
    BY <1>1, <1>3, <2>1, DatabaseStep DEF RInv, Artifacts
<1> QED
  BY <1>4, <1>5, <1>6 DEF RInv

(* An original is moved or copied before anything takes its place.         *)
LEMMA SnapshotOK ==
  ASSUME RInv, NEW a \in Others,
         (a \in Dirs /\ SnapshotDir(a)) \/ (a \in Files /\ SnapshotFile(a))
  PROVE  RInv'
<1>1. /\ restore.pc = "swap" /\ a \in restore.todo /\ UNCHANGED panelState
      /\ back' = IF disk[a] = "old" THEN [back EXCEPT ![a] = "old"] ELSE back
      /\ disk' \in {disk, [disk EXCEPT ![a] = "none"]}
  BY Kinds DEF SnapshotDir, SnapshotFile, vars, panelVars, diskVars, panelState
<1>2. /\ restore'.pc = "replace" /\ restore'.at = a /\ restore'.todo = restore.todo
      /\ restore'.moved \in {restore.moved, restore.moved \union {a}}
      /\ restore'.copied \in {restore.copied, restore.copied \union {a}}
      /\ a \in Files => restore'.moved = restore.moved
      /\ a \in Dirs => restore'.copied = restore.copied
      /\ restore'.had = restore.had /\ restore'.db = restore.db
      /\ RestoreShape'
  <2>1. CASE a \in Dirs /\ SnapshotDir(a)
    BY <2>1, Kinds DEF SnapshotDir, Holding, RInv, RestoreTypes, RestoreShape
  <2>2. CASE a \in Files /\ SnapshotFile(a)
    BY <2>2, Kinds DEF SnapshotFile, Holding, RInv, RestoreTypes, RestoreShape
  <2> QED
    BY <2>1, <2>2
<1>3. RestoreTypes'
  <2>1. disk' \in [Others -> DiskStates] /\ back' \in [Others -> DiskStates]
    BY <1>1 DEF RInv, RestoreTypes, RestoreShape, DiskStates
  <2>2. restore'.moved \subseteq Dirs /\ restore'.copied \subseteq Files \union {Database}
    BY <1>2, Kinds DEF RInv, RestoreTypes, RestoreShape, Others
  <2> QED
    BY <1>2, <2>1, <2>2 DEF RInv, RestoreTypes, RestoreShape
<1>4. ArtifactsKept'
  <2> SUFFICES ASSUME NEW b \in restore.had PROVE ArtifactKept(b)'
    BY <1>2 DEF ArtifactsKept
  <2>1. ArtifactKept(b) /\ b \in Others
    BY DEF RInv, ArtifactsKept, RestoreTypes, RestoreShape
  <2>2. CASE b = a
    <3>1. disk[a] = "old"
      BY <1>1, <2>1, <2>2 DEF ArtifactKept
    <3>2. back'[a] = "old"
      BY <1>1, <3>1 DEF RInv, RestoreTypes, RestoreShape
    <3> QED
      BY <1>2, <2>2, <3>2 DEF ArtifactKept
  <2>3. CASE b /= a
    <3>1. disk'[b] = disk[b] /\ back'[b] = back[b]
      BY <1>1, <2>3, <2>1 DEF RInv, RestoreTypes, RestoreShape
    <3> QED
      BY <1>1, <1>2, <2>1, <2>3, <3>1 DEF ArtifactKept
  <2> QED
    BY <2>2, <2>3
<1>5. DatabaseKept'
  BY <1>1, <1>2, Kinds, DatabaseStep DEF RInv, Untouched, Snapshotted
<1> QED
  BY <1>3, <1>4, <1>5 DEF RInv

LEMMA SwapInOK ==
  ASSUME RInv, NEW a \in Others, SwapIn(a) PROVE RInv'
<1>1. /\ restore.pc = "replace" /\ restore.at = a /\ UNCHANGED <<back, panelState>>
      /\ disk' = [disk EXCEPT ![a] = "new"]
  BY DEF SwapIn, vars, panelVars, diskVars, panelState
<1>2. /\ restore'.pc = IF restore.todo = {a} THEN "rewrite" ELSE "swap"
      /\ restore'.at = None /\ restore'.todo = restore.todo \ {a}
      /\ restore'.moved = restore.moved /\ restore'.copied = restore.copied
      /\ restore'.had = restore.had /\ restore'.db = restore.db
      /\ RestoreShape'
  BY DEF SwapIn, Swapped, RInv, RestoreTypes, RestoreShape
<1>3. RestoreTypes'
  BY <1>1, <1>2 DEF RInv, RestoreTypes, RestoreShape, DiskStates
<1>4. ArtifactsKept'
  <2> SUFFICES ASSUME NEW b \in restore.had PROVE ArtifactKept(b)'
    BY <1>2 DEF ArtifactsKept
  <2>1. ArtifactKept(b) /\ b \in Others
    BY DEF RInv, ArtifactsKept, RestoreTypes, RestoreShape
  <2>2. b /= a => disk'[b] = disk[b]
    BY <1>1, <2>1 DEF RInv, RestoreTypes, RestoreShape
  <2> QED
    BY <1>1, <1>2, <2>1, <2>2 DEF ArtifactKept
<1>5. DatabaseKept'
  BY <1>1, <1>2, Kinds, DatabaseStep DEF RInv, Untouched, Snapshotted
<1> QED
  BY <1>3, <1>4, <1>5 DEF RInv

(* An original leaves the rollback directory only for its place.           *)
LEMMA UndoOK ==
  ASSUME RInv, NEW a \in Others,
         (a \in Dirs /\ (UndoRemove(a) \/ UndoMove(a))) \/ (a \in Files /\ UndoCopy(a))
  PROVE  RInv'
<1>1. /\ restore.pc = "undo" /\ UNCHANGED panelState
      /\ restore' = restore \/ restore' = [restore EXCEPT !.moved = @ \ {a}]
           \/ restore' = [restore EXCEPT !.copied = @ \ {a}]
      /\ a \in restore.moved \union restore.copied
  BY DEF UndoRemove, UndoMove, UndoCopy, vars, panelVars, diskVars, panelState
<1>2. /\ restore'.pc = "undo" /\ restore'.at = restore.at /\ restore'.todo = restore.todo
      /\ restore'.moved \subseteq restore.moved /\ restore'.copied \subseteq restore.copied
      /\ restore'.had = restore.had /\ restore'.db = restore.db
      /\ RestoreShape'
  BY <1>1 DEF RInv, RestoreTypes, RestoreShape
<1>3. disk' \in [Others -> DiskStates] /\ back' \in [Others -> DiskStates]
  BY DEF RInv, RestoreTypes, RestoreShape, DiskStates, UndoRemove, UndoMove, UndoCopy
<1>4. \A b \in Others \ {a} : disk'[b] = disk[b] /\ back'[b] = back[b]
  BY DEF RInv, RestoreTypes, RestoreShape, UndoRemove, UndoMove, UndoCopy
<1>5. \/ back' = back
      \/ disk'[a] = back[a] /\ a \notin restore'.moved /\ a \in Dirs
  BY DEF RInv, RestoreTypes, RestoreShape, UndoRemove, UndoMove, UndoCopy
<1>6. RestoreTypes'
  BY <1>2, <1>3 DEF RInv, RestoreTypes, RestoreShape
<1>7. ArtifactsKept'
  <2> SUFFICES ASSUME NEW b \in restore.had PROVE ArtifactKept(b)'
    BY <1>2 DEF ArtifactsKept
  <2>1. ArtifactKept(b) /\ b \in Others
    BY DEF RInv, ArtifactsKept, RestoreTypes, RestoreShape
  <2>2. a \in Dirs => a \notin restore.copied
    BY Kinds DEF RInv, RestoreTypes, RestoreShape
  <2>3. b = a => back[a] = "old"
    BY <1>1, <2>1 DEF ArtifactKept
  <2>4. CASE b = a
    BY <1>2, <1>5, <2>2, <2>3, <2>4 DEF ArtifactKept
  <2>5. CASE b /= a
    BY <1>2, <1>4, <2>1, <2>5 DEF ArtifactKept
  <2> QED
    BY <2>4, <2>5
<1>8. DatabaseKept'
  BY <1>1, <1>2, DatabaseStep DEF RInv, Untouched, Snapshotted
<1> QED
  BY <1>6, <1>7, <1>8 DEF RInv

LEMMA FailOK ==
  ASSUME RInv, SwapFails \/ Raise \/ \E a \in Artifacts : UndoFails(a)
  PROVE  RInv'
<1>1. UNCHANGED <<disk, back, panelState>>
  BY DEF SwapFails, Raise, UndoFails, vars, panelVars, diskVars, panelState
<1>2. /\ restore.pc \notin {"idle"} /\ restore'.pc \in {"undo", "raised"}
      /\ restore'.moved \subseteq restore.moved /\ restore'.copied \subseteq restore.copied
      /\ restore'.had = restore.had /\ restore'.db = restore.db
      /\ RestoreShape'
  BY DEF SwapFails, Raise, UndoFails, RInv, RestoreTypes, RestoreShape
<1>3. RestoreTypes'
  BY <1>1, <1>2 DEF RInv, RestoreTypes, RestoreShape
<1>4. ArtifactsKept'
  BY <1>1, <1>2 DEF RInv, ArtifactsKept, ArtifactKept
<1>5. DatabaseKept'
  BY <1>1, <1>2, DatabaseStep DEF RInv, Untouched, Snapshotted
<1> QED
  BY <1>3, <1>4, <1>5 DEF RInv

(* The database is copied before it is replaced, written over or put back. *)
LEMMA DatabaseOK ==
  ASSUME RInv,
         \/ SnapshotDatabase \/ SwapInDatabase \/ UndoTruncate \/ UndoWrite
         \/ RewriteTruncate \/ RewriteWrite \/ CertificateFails \/ Succeed \/ Exit
  PROVE  RInv'
<1> DEFINE after == {"replace", "swap", "rewrite", "undo_write", "undo", "rewrite_write",
                     "certificate", "raised_late", "answered", "restarted"}
<1>1. UNCHANGED <<disk, back>>
  BY DEF SnapshotDatabase, SwapInDatabase, UndoTruncate, UndoWrite, RewriteTruncate,
         RewriteWrite, CertificateFails, Succeed, Exit
<1>2. CASE SnapshotDatabase
  <2>1. /\ restore.pc = "swap" /\ Database \in restore.todo
        /\ restore'.pc = "replace" /\ restore'.at = Database /\ restore'.todo = restore.todo
        /\ restore'.moved = restore.moved
        /\ restore'.copied = restore.copied \union {Database}
        /\ restore'.had = restore.had /\ restore'.db = inode[file]
        /\ RestoreShape'
    BY <1>2 DEF SnapshotDatabase, Holding, RInv, RestoreTypes, RestoreShape
  <2>2. RestoreTypes'
    BY <1>1, <2>1 DEF RInv, RestoreTypes, RestoreShape
  <2>3. ArtifactsKept'
    <3> SUFFICES ASSUME NEW b \in restore.had PROVE ArtifactKept(b)'
      BY <2>1 DEF ArtifactsKept
    <3>1. ArtifactKept(b) /\ b /= Database
      BY Kinds DEF RInv, ArtifactsKept, RestoreTypes, RestoreShape
    <3> QED
      BY <1>1, <2>1, <3>1 DEF ArtifactKept
  <2>4. Untouched
    BY <2>1 DEF RInv, DatabaseKept, Snapshotted
  <2>5. restore'.db.admin = "set"
    BY <2>1, <2>4 DEF Untouched, FileSet
  <2> QED
    BY <2>1, <2>2, <2>3, <2>5 DEF RInv, DatabaseKept, Snapshotted
<1>3. CASE ~SnapshotDatabase
  <2>1. /\ restore'.pc \in after \ {"replace"} /\ restore'.db = restore.db
        /\ restore'.moved = restore.moved /\ restore'.copied \subseteq restore.copied
        /\ restore'.had = restore.had
        /\ restore'.pc = "swap" => restore.pc = "replace" /\ restore.at = Database
                                   /\ restore'.todo = restore.todo \ {Database}
        /\ RestoreShape'
    BY <1>3 DEF SwapInDatabase, UndoTruncate, UndoWrite, RewriteTruncate,
                RewriteWrite, CertificateFails, Succeed, Exit, Swapped, RInv, RestoreTypes, RestoreShape
  <2>2. RestoreTypes'
    BY <1>1, <2>1 DEF RInv, RestoreTypes, RestoreShape
  <2>3. ArtifactsKept'
    <3> SUFFICES ASSUME NEW b \in restore.had PROVE ArtifactKept(b)'
      BY <2>1 DEF ArtifactsKept
    <3>1. ArtifactKept(b) /\ b /= Database
      BY Kinds DEF RInv, ArtifactsKept, RestoreTypes, RestoreShape
    <3> QED
      BY <1>1, <2>1, <3>1 DEF ArtifactKept
  <2>4. ~Untouched
    BY <1>3 DEF SwapInDatabase, UndoTruncate, UndoWrite, RewriteTruncate,
                RewriteWrite, CertificateFails, Succeed, Exit, Untouched
  <2>5. Snapshotted'
    BY <2>1, <2>4 DEF RInv, DatabaseKept, Snapshotted
  <2> QED
    BY <2>2, <2>3, <2>5 DEF RInv, DatabaseKept
<1> QED
  BY <1>2, <1>3

-----------------------------------------------------------------------------
LEMMA RestoreStepOK ==
  Undisturbed /\ RInv /\ [RestoreNext]_<<vars, restoreVars>> => RInv'
<1> SUFFICES ASSUME Undisturbed, RInv, [RestoreNext]_<<vars, restoreVars>> PROVE RInv'
  OBVIOUS
<1>1. CASE PanelStep \/ StartRestore
  BY <1>1, PanelStepOK, StartRestoreOK
<1>2. CASE Swapping
  BY <1>2, SnapshotOK, SwapInOK, FailOK, DatabaseOK DEF Swapping, Others
<1>3. CASE Undoing
  BY <1>3, UndoOK, FailOK, DatabaseOK DEF Undoing, Others
<1>4. CASE RewriteTruncate \/ RewriteWrite \/ CertificateFails \/ Succeed \/ Exit
  BY <1>4, DatabaseOK
<1>5. CASE UNCHANGED <<vars, restoreVars>>
  <2>1. UNCHANGED panelState
    BY <1>5 DEF vars, panelVars, diskVars, panelState
  <2> QED
    BY <1>5, <2>1, PanelKept
    DEF restoreVars, RInv, RestoreTypes, RestoreShape, ArtifactsKept, ArtifactKept, DatabaseKept,
        Untouched, Snapshotted
<1> QED
  BY <1>1, <1>2, <1>3, <1>4, <1>5 DEF RestoreNext

(* Wherever a restore is killed, fails or is rolled back, every original   *)
(* is in its place or has its copy, for any number of artifacts and        *)
(* crashes, whatever the panel saves meanwhile.                            *)
THEOREM NothingLost ==
  ASSUME Undisturbed PROVE RestoreSpec => []OriginalsSurvive
<1>1. RInv => OriginalsSurvive
  <2> SUFFICES ASSUME RInv PROVE OriginalsSurvive
    OBVIOUS
  <2>1. \A a \in restore.had : "old" \in {disk[a], back[a]}
    BY DEF RInv, ArtifactsKept, ArtifactKept
  <2>2. restore.db.admin = "set" \/ (file /= 0 /\ inode[file].admin = "set")
    BY DEF RInv, DatabaseKept, Untouched, Snapshotted, FileSet, FileIsWhole
  <2> QED
    BY <2>1, <2>2 DEF OriginalsSurvive
<1>2. RInv /\ [RestoreNext]_<<vars, restoreVars>> => RInv'
  BY RestoreStepOK
<1> QED
  BY RestoreInitOK, <1>1, <1>2, PTL DEF RestoreSpec

-----------------------------------------------------------------------------
(* Until the error surfaces, an original that is not in its place is among *)
(* those to put back, and so is the database, unless the file is what the  *)
(* panel would save: a save of the panel may overtake the rollback.        *)
Going == {"swap", "replace", "undo", "undo_write"}
ToPutBack == restore.moved \union restore.copied

ArtifactsNoted ==
  /\ \A a \in restore.had : disk[a] = "old" \/ a \in ToPutBack
  /\ restore.pc = "replace" /\ restore.at \in restore.had => restore.at \in ToPutBack
  /\ restore.pc = "raised" => ToPutBack = {}

PanelGoesOn == Sound /\ MindSet /\ file /= 0 /\ (restore.pc \in Going => up)

DatabaseNoted ==
  IF Database \in restore.copied
  THEN /\ restore.db \in Content /\ restore.db.admin = "set"
       /\ restore.pc = "undo_write" =>
            /\ restore.text = restore.db /\ restore.fd \in {0, file}
            /\ restore.fd = 0 => FileSet
  ELSE /\ FileSet /\ restore.pc /= "undo_write"
       /\ restore.pc = "replace" => restore.at /= Database

Noted == ArtifactsNoted /\ PanelGoesOn /\ DatabaseNoted
InScope == restore.pc \in Going \union {"raised"} /\ ~restore.lost
BInv == RInv /\ (InScope => Noted)

LEMMA StartNoted == ASSUME RInv, StartRestore PROVE Noted'
<1>1. restore = NotStarted /\ UNCHANGED <<disk, back, panelState>> /\ up
  BY DEF StartRestore, RInv, RestoreTypes, RestoreShape, vars, panelVars, diskVars, panelState
<1>2. restore' = [NotStarted EXCEPT !.pc = "swap", !.todo = Artifacts,
                                    !.had = {a \in Others : disk[a] = "old"}]
  BY <1>1 DEF StartRestore
<1>3. /\ restore'.pc = "swap" /\ restore'.had = {a \in Others : disk[a] = "old"}
      /\ restore'.moved = {} /\ restore'.copied = {}
  BY <1>2 DEF NotStarted
<1>4. Sound /\ MindSet /\ FileSet
  BY <1>1 DEF RInv, DatabaseKept, Untouched, Snapshotted, NotStarted
<1>5. Sound' /\ MindSet' /\ FileSet' /\ file' /= 0 /\ up'
  BY <1>1, <1>4, PanelKept DEF FileSet, FileIsWhole, panelState
<1>6. ArtifactsNoted'
  BY <1>1, <1>3 DEF ArtifactsNoted
<1>7. PanelGoesOn'
  BY <1>5 DEF PanelGoesOn
<1>8. DatabaseNoted'
  BY <1>3, <1>5 DEF DatabaseNoted
<1> QED
  BY <1>6, <1>7, <1>8 DEF Noted

(* The panel's part of a step that leaves the panel alone and the database *)
(* as it was noted.                                                        *)
LEMMA DatabaseStays ==
  ASSUME PanelGoesOn, DatabaseNoted, UNCHANGED panelState,
         restore.pc \in Going \ {"undo_write"},
         Database \in restore'.copied <=> Database \in restore.copied,
         restore'.db = restore.db, restore'.pc /= "undo_write",
         restore'.pc = "replace" => restore'.at /= Database
  PROVE  PanelGoesOn' /\ DatabaseNoted'
<1>1. PanelGoesOn'
  <2>1. Sound' /\ MindSet' /\ file' /= 0 /\ up'
    BY PanelKept DEF PanelGoesOn, panelState
  <2> QED
    BY <2>1 DEF PanelGoesOn
<1>2. FileSet' <=> FileSet
  BY PanelKept
<1> QED
  BY <1>1, <1>2 DEF DatabaseNoted

(* The request once it has the artifact a at hand. *)
AtHand(a) ==
  /\ Holding(a).pc = "replace" /\ Holding(a).at = a
  /\ Holding(a).db = restore.db /\ Holding(a).had = restore.had
  /\ Holding(a).moved = restore.moved /\ Holding(a).copied = restore.copied
  /\ Holding(a) = [pc |-> "replace", at |-> a, todo |-> restore.todo,
       moved |-> restore.moved, copied |-> restore.copied, fd |-> restore.fd,
       text |-> restore.text, db |-> restore.db, had |-> restore.had,
       lost |-> restore.lost]

LEMMA HoldingFields == ASSUME RestoreShape, NEW a \in Others PROVE AtHand(a)
<1>1. PICK h : h = Holding(a)
  OBVIOUS
<1>2. h = [restore EXCEPT !.pc = "replace", !.at = a]
  BY <1>1 DEF Holding
<1>3. h = [pc |-> "replace", at |-> a, todo |-> restore.todo,
           moved |-> restore.moved, copied |-> restore.copied, fd |-> restore.fd,
           text |-> restore.text, db |-> restore.db, had |-> restore.had,
           lost |-> restore.lost]
  BY <1>2 DEF RestoreShape
<1> QED
  BY <1>1, <1>3 DEF AtHand

LEMMA SnapshotNoted ==
  ASSUME RInv, Noted, NEW a \in Others,
         (a \in Dirs /\ SnapshotDir(a)) \/ (a \in Files /\ SnapshotFile(a))
  PROVE  Noted'
<1>1. /\ restore.pc = "swap" /\ a \in restore.todo /\ UNCHANGED panelState
      /\ \A b \in Others \ {a} : disk'[b] = disk[b]
  BY Kinds DEF SnapshotDir, SnapshotFile, RInv, RestoreTypes, vars, panelVars, diskVars, panelState
<1>2. /\ restore'.pc = "replace" /\ restore'.at = a /\ restore'.db = restore.db
      /\ restore.moved \subseteq restore'.moved
      /\ restore'.copied = restore.copied \/ restore'.copied = restore.copied \union {a}
      /\ restore'.had = restore.had
      /\ disk[a] = "old" => a \in restore'.moved \union restore'.copied
  <2>1. AtHand(a)
    BY HoldingFields DEF RInv, RestoreTypes
  <2>2. CASE a \in Dirs /\ SnapshotDir(a)
    <3>1. CASE disk[a] = "old"
      <4>1. restore' = [Holding(a) EXCEPT !.moved = @ \union {a}]
        BY <2>2, <3>1 DEF SnapshotDir
      <4>2. /\ restore'.pc = "replace" /\ restore'.at = a /\ restore'.db = restore.db
            /\ restore'.moved = restore.moved \union {a}
            /\ restore'.copied = restore.copied /\ restore'.had = restore.had
        BY <2>1, <4>1 DEF AtHand
      <4> QED
        BY <4>2
    <3>2. CASE disk[a] /= "old"
      BY <2>1, <2>2, <3>2 DEF SnapshotDir, AtHand
    <3> QED
      BY <3>1, <3>2
  <2>3. CASE a \in Files /\ SnapshotFile(a)
    <3>1. CASE disk[a] = "old"
      <4>1. restore' = [Holding(a) EXCEPT !.copied = @ \union {a}]
        BY <2>3, <3>1 DEF SnapshotFile
      <4>2. /\ restore'.pc = "replace" /\ restore'.at = a /\ restore'.db = restore.db
            /\ restore'.copied = restore.copied \union {a}
            /\ restore'.moved = restore.moved /\ restore'.had = restore.had
        BY <2>1, <4>1 DEF AtHand
      <4> QED
        BY <4>2
    <3>2. CASE disk[a] /= "old"
      BY <2>1, <2>3, <3>2 DEF SnapshotFile, AtHand
    <3> QED
      BY <3>1, <3>2
  <2> QED
    BY <2>2, <2>3
<1>3. a \in restore.had => disk[a] = "old"
  BY <1>1 DEF RInv, ArtifactsKept, ArtifactKept
<1>4. ArtifactsNoted'
  <2>1. restore.had \subseteq Others
    BY DEF RInv, RestoreTypes
  <2> QED
    BY <1>1, <1>2, <1>3, <2>1 DEF Noted, ArtifactsNoted, ToPutBack
<1>5. PanelGoesOn' /\ DatabaseNoted'
  BY <1>1, <1>2, Kinds, DatabaseStays DEF Noted, Going
<1> QED
  BY <1>4, <1>5 DEF Noted

LEMMA SwapInNoted ==
  ASSUME RInv, Noted, NEW a \in Others, SwapIn(a), InScope' PROVE Noted'
<1>1. /\ restore.pc = "replace" /\ restore.at = a /\ UNCHANGED panelState
      /\ \A b \in Others \ {a} : disk'[b] = disk[b]
  BY DEF SwapIn, RInv, RestoreTypes, vars, panelVars, diskVars, panelState
<1>2. /\ restore'.pc = "swap" /\ restore'.db = restore.db
      /\ restore'.moved = restore.moved /\ restore'.copied = restore.copied
      /\ restore'.had = restore.had
  BY DEF SwapIn, Swapped, RInv, RestoreTypes, RestoreShape, InScope, Going
<1>3. ArtifactsNoted'
  <2>1. restore.had \subseteq Others
    BY DEF RInv, RestoreTypes
  <2> QED
    BY <1>1, <1>2, <2>1 DEF Noted, ArtifactsNoted, ToPutBack
<1>4. PanelGoesOn' /\ DatabaseNoted'
  BY <1>1, <1>2, DatabaseStays DEF Noted, Going
<1> QED
  BY <1>3, <1>4 DEF Noted

(* What is no longer to be put back is in its place. *)
LEMMA UndoNoted ==
  ASSUME RInv, Noted, NEW a \in Others,
         (a \in Dirs /\ (UndoRemove(a) \/ UndoMove(a))) \/ (a \in Files /\ UndoCopy(a))
  PROVE  Noted'
<1>1. /\ restore.pc = "undo" /\ UNCHANGED panelState
      /\ restore' = restore \/ restore' = [restore EXCEPT !.moved = @ \ {a}]
           \/ restore' = [restore EXCEPT !.copied = @ \ {a}]
      /\ a \in ToPutBack
      /\ restore' /= restore => disk'[a] = back[a]
      /\ \A b \in Others \ {a} : disk'[b] = disk[b]
  BY DEF UndoRemove, UndoMove, UndoCopy, ToPutBack, RInv, RestoreTypes, vars, panelVars,
         diskVars, panelState
<1>2. /\ restore'.pc = "undo" /\ restore'.db = restore.db /\ restore'.had = restore.had
      /\ \A b \in Artifacts \ {a} : b \in ToPutBack' <=> b \in ToPutBack
      /\ restore'.copied = restore.copied \/ restore'.copied = restore.copied \ {a}
  BY <1>1 DEF RInv, RestoreTypes, RestoreShape, ToPutBack
<1>3. a \in restore.had => back[a] = "old"
  BY <1>1 DEF RInv, ArtifactsKept, ArtifactKept, ToPutBack
<1>4. ArtifactsNoted'
  <2> SUFFICES ASSUME NEW b \in restore.had PROVE disk'[b] = "old" \/ b \in ToPutBack'
    BY <1>2 DEF ArtifactsNoted
  <2>1. b \in Others /\ b \in Artifacts
    BY Kinds DEF RInv, RestoreTypes
  <2>2. CASE b = a
    BY <1>1, <1>3, <2>2 DEF ToPutBack
  <2>3. CASE b /= a
    BY <1>1, <1>2, <2>1, <2>3 DEF Noted, ArtifactsNoted
  <2> QED
    BY <2>2, <2>3
<1>5. PanelGoesOn' /\ DatabaseNoted'
  BY <1>1, <1>2, Kinds, DatabaseStays DEF Noted, Going
<1> QED
  BY <1>4, <1>5 DEF Noted

LEMMA FailNoted ==
  ASSUME RInv, Noted, SwapFails \/ Raise PROVE Noted'
<1>1. /\ restore.pc \in {"swap", "replace", "undo"} /\ UNCHANGED <<disk, panelState>>
      /\ restore'.pc = "undo" \/ (restore'.pc = "raised" /\ ToPutBack = {})
      /\ restore'.moved = restore.moved /\ restore'.copied = restore.copied
      /\ restore'.had = restore.had /\ restore'.db = restore.db
  BY DEF SwapFails, Raise, ToPutBack, RInv, RestoreTypes, RestoreShape, vars, panelVars,
         diskVars, panelState
<1>2. ArtifactsNoted'
  BY <1>1 DEF Noted, ArtifactsNoted, ToPutBack
<1>3. PanelGoesOn' /\ DatabaseNoted'
  BY <1>1, DatabaseStays DEF Noted, Going
<1> QED
  BY <1>2, <1>3 DEF Noted

-----------------------------------------------------------------------------
(* The request writes to the inode of the file, or gives the name to a     *)
(* free one: the temporary file of a save under way is another.            *)
LEMMA WriteSound ==
  ASSUME Undisturbed, Sound, UNCHANGED <<memory, up, lock, thread, tmp, ext>>,
         file' \in Inodes \ {tmp},
         NEW c \in Content \union {Empty, Mixed}, inode' = [inode EXCEPT ![file'] = c]
  PROVE  /\ Sound' /\ (MindSet => MindSet') /\ inode'[file'] = c
         /\ file' /= 0 /\ OnDisk' = c.updates
<1>1. Types' /\ inode'[file'] = c /\ (tmp /= 0 => inode'[tmp] = inode[tmp])
  BY DEF Sound, Types
<1>2. Outside'
  BY DEF Undisturbed, Sound, Outside
<1>3. file' /= 0 /\ OnDisk' = c.updates
  BY <1>1, ContentFields DEF OnDisk, Whole, Inodes
<1>4. OneSaves'
  BY DEF Sound, OneSaves
<1>5. Texts'
  <2>1. \A s \in Threads : thread[s].pc = "write" /\ ~Shared => tmp /= 0
    BY DEF Sound, OneSaves, Texts
  <2> QED
    BY <1>1, <2>1 DEF Sound, Texts, Shared
<1>6. MindSet => MindSet'
  BY DEF MindSet
<1> QED
  BY <1>1, <1>2, <1>3, <1>4, <1>5, <1>6 DEF Sound

LEMMA FreeForRestore == ASSUME Undisturbed, Sound PROVE NewInode \in Inodes \ {file, tmp}
<1>1. ext.fd = 0 /\ ~Shared
  BY DEF Undisturbed, Sound, Outside, Shared
<1>2. \A s \in Threads : thread[s].fd \in {0, tmp}
  BY <1>1 DEF Sound, OneSaves, Texts
<1> QED
  BY <1>1, <1>2, FreeInode DEF Sound

LEMMA SnapshotDatabaseNoted ==
  ASSUME RInv, Noted, SnapshotDatabase PROVE Noted'
<1>1. /\ restore.pc = "swap" /\ Database \in restore.todo
      /\ restore'.pc = "replace" /\ restore'.at = Database
      /\ restore'.moved = restore.moved
      /\ restore'.copied = restore.copied \union {Database}
      /\ restore'.had = restore.had /\ restore'.db = inode[file]
      /\ UNCHANGED <<disk, panelState>>
  BY DEF SnapshotDatabase, Holding, RInv, RestoreTypes, RestoreShape, vars, panelVars,
         diskVars, panelState
<1>2. FileSet
  BY <1>1 DEF RInv, DatabaseKept, Untouched, Snapshotted
<1>3. ArtifactsNoted'
  BY <1>1 DEF Noted, ArtifactsNoted, ToPutBack
<1>4. Sound' /\ MindSet' /\ file' /= 0 /\ up'
  BY <1>1, PanelKept DEF Noted, PanelGoesOn, Going, panelState
<1>5. DatabaseNoted'
  BY <1>1, <1>2 DEF DatabaseNoted, FileSet, FileIsWhole, Whole
<1> QED
  BY <1>3, <1>4, <1>5 DEF Noted, PanelGoesOn

LEMMA SwapInDatabaseNoted ==
  ASSUME Undisturbed, RInv, Noted, SwapInDatabase, InScope' PROVE Noted'
<1>1. /\ restore.pc = "replace" /\ restore.at = Database
      /\ file' = NewInode /\ inode' = [inode EXCEPT ![NewInode] = Restored]
      /\ UNCHANGED <<memory, up, lock, thread, tmp, ext, disk>>
  BY DEF SwapInDatabase, panelVars
<1>2. /\ restore'.pc = "swap" /\ restore'.db = restore.db
      /\ restore'.moved = restore.moved /\ restore'.copied = restore.copied
      /\ restore'.had = restore.had
  BY DEF SwapInDatabase, Swapped, RInv, RestoreTypes, RestoreShape, InScope, Going
<1>3. ArtifactsNoted'
  BY <1>1, <1>2 DEF Noted, ArtifactsNoted, ToPutBack
<1>4. NewInode \in Inodes \ {tmp} /\ Restored \in Content
  BY FreeForRestore DEF Noted, PanelGoesOn, Restored, Content
<1>5. Sound' /\ MindSet' /\ file' /= 0 /\ up'
  <2>1. Sound /\ MindSet /\ up
    BY <1>1 DEF Noted, PanelGoesOn, Going
  <2> QED
    BY <1>1, <1>4, <2>1, WriteSound
<1>6. DatabaseNoted'
  BY <1>1, <1>2 DEF Noted, DatabaseNoted
<1> QED
  BY <1>3, <1>5, <1>6 DEF Noted, PanelGoesOn

LEMMA UndoTruncateNoted ==
  ASSUME Undisturbed, RInv, Noted, UndoTruncate PROVE Noted'
<1>1. /\ restore.pc = "undo" /\ Database \in restore.copied
      /\ inode' = [inode EXCEPT ![file] = Empty] /\ file' = file
      /\ UNCHANGED <<memory, up, lock, thread, tmp, ext, disk>>
  BY DEF UndoTruncate, panelVars
<1>2. /\ restore'.pc = "undo_write" /\ restore'.fd = file /\ restore'.text = restore.db
      /\ restore'.db = restore.db
      /\ restore'.moved = restore.moved /\ restore'.copied = restore.copied
      /\ restore'.had = restore.had
  BY DEF UndoTruncate, RInv, RestoreTypes, RestoreShape
<1>3. ArtifactsNoted'
  BY <1>1, <1>2 DEF Noted, ArtifactsNoted, ToPutBack
<1>4. Sound /\ MindSet /\ up /\ file \in Inodes \ {tmp, 0}
  BY <1>1 DEF Noted, PanelGoesOn, Going, Sound, Types, Inodes
<1>5. Sound' /\ MindSet' /\ file' /= 0 /\ up'
  BY <1>1, <1>4, WriteSound
<1>6. DatabaseNoted'
  BY <1>1, <1>2, <1>4 DEF Noted, DatabaseNoted
<1> QED
  BY <1>3, <1>5, <1>6 DEF Noted, PanelGoesOn

(* A save of the panel that came between has replaced the emptied file.    *)
LEMMA UndoWriteNoted ==
  ASSUME Undisturbed, RInv, Noted, UndoWrite PROVE Noted'
<1>1. /\ restore.pc = "undo_write" /\ WriteOver /\ file' = file
      /\ UNCHANGED <<memory, up, lock, thread, tmp, ext, saved, disk>>
  BY DEF UndoWrite, panelVars
<1>2. /\ restore'.pc = "undo" /\ restore'.moved = restore.moved
      /\ restore'.copied = restore.copied \ {Database}
      /\ restore'.had = restore.had
  BY DEF UndoWrite, RInv, RestoreTypes, RestoreShape
<1>3. ArtifactsNoted'
  BY <1>1, <1>2, Kinds DEF Noted, ArtifactsNoted, ToPutBack, RInv, RestoreTypes
<1>4. /\ Sound /\ MindSet /\ up /\ file \in Inodes \ {tmp, 0}
      /\ restore.text \in Content /\ restore.text.admin = "set"
      /\ restore.fd \in {0, file} /\ (restore.fd = 0 => FileSet)
  BY <1>1 DEF Noted, PanelGoesOn, DatabaseNoted, Going, Sound, Types, Inodes
<1>5. Sound' /\ MindSet' /\ file' /= 0 /\ up' /\ FileSet'
  <2>1. CASE restore.fd = 0
    <3>1. UNCHANGED panelState
      BY <1>1, <2>1 DEF WriteOver, panelState
    <3> QED
      BY <1>4, <2>1, <3>1, PanelKept DEF panelState
  <2>2. CASE restore.fd = file
    <3>1. inode' = [inode EXCEPT ![file'] = restore.text]
      BY <1>1, <1>4, <2>2 DEF WriteOver
    <3>2. Sound' /\ MindSet' /\ inode'[file'] = restore.text /\ file' /= 0
      BY <1>1, <1>4, <3>1, WriteSound
    <3> QED
      BY <1>1, <1>4, <3>2 DEF FileSet, FileIsWhole, Whole
  <2> QED
    BY <1>4, <2>1, <2>2
<1>6. DatabaseNoted'
  BY <1>2, <1>5 DEF DatabaseNoted
<1> QED
  BY <1>3, <1>5, <1>6 DEF Noted, PanelGoesOn

LEMMA PanelStepNoted ==
  ASSUME Undisturbed, RInv, Noted, PanelStep, InScope, InScope' PROVE Noted'
<1>1. /\ disk' = disk /\ restore'.pc = restore.pc
      /\ restore'.at = restore.at /\ restore'.moved = restore.moved
      /\ restore'.copied = restore.copied /\ restore'.db = restore.db
      /\ restore'.had = restore.had /\ restore'.text = restore.text
      /\ restore'.fd = IF file' = file THEN restore.fd ELSE 0
  BY DEF PanelStep, RInv, RestoreTypes, RestoreShape, InScope, Going
<1>2. restore.pc \in Going => up'
  BY <1>1 DEF PanelStep, RInv, RestoreTypes, RestoreShape, InScope, Going, Over,
     Noted, PanelGoesOn, Sound, Types
<1>3. up \/ FileSet
  BY DEF InScope, Noted, PanelGoesOn, DatabaseNoted, ArtifactsNoted, ToPutBack
<1>4. Kept /\ Alone /\ SetStays
  BY UndisturbedOK DEF PanelStep, Noted, PanelGoesOn
<1>5. /\ Sound' /\ MindSet' /\ (FileSet => FileSet') /\ file' /= 0
      /\ restore.pc \in Going /\ file' /= file => FileSet'
  BY <1>3, <1>4 DEF Kept, Alone, SetStays, Noted, PanelGoesOn, FileSet, FileIsWhole
<1>6. ArtifactsNoted'
  BY <1>1 DEF Noted, ArtifactsNoted, ToPutBack
<1>7. PanelGoesOn'
  BY <1>1, <1>2, <1>5 DEF PanelGoesOn
<1>8. DatabaseNoted'
  BY <1>1, <1>5 DEF Noted, DatabaseNoted, Going
<1> QED
  BY <1>6, <1>7, <1>8 DEF Noted

LEMMA NotedStep ==
  Undisturbed /\ BInv /\ [RestoreNext]_<<vars, restoreVars>> => BInv'
<1> SUFFICES ASSUME Undisturbed, BInv, [RestoreNext]_<<vars, restoreVars>>, InScope'
             PROVE  Noted'
  BY RestoreStepOK DEF BInv
<1> USE DEF BInv
<1>1. CASE StartRestore
  BY <1>1, StartNoted
<1>2. CASE PanelStep
  <2>1. InScope
    BY <1>2 DEF PanelStep, InScope, RInv, RestoreTypes, RestoreShape, Going
  <2> QED
    BY <1>2, <2>1, PanelStepNoted
<1>3. CASE Swapping
  <2>1. InScope
    BY <1>3 DEF Swapping, SnapshotDir, SnapshotFile, SwapIn, SnapshotDatabase, SwapInDatabase,
       SwapFails, Swapped, Holding, InScope, RInv, RestoreTypes, RestoreShape, Going
  <2> QED
    BY <1>3, <2>1, SnapshotNoted, SwapInNoted, SnapshotDatabaseNoted, SwapInDatabaseNoted,
       FailNoted DEF Swapping, Others
<1>4. CASE Undoing
  <2>1. ASSUME NEW a \in Artifacts, UndoFails(a) PROVE FALSE
    BY <2>1 DEF UndoFails, InScope, RInv, RestoreTypes, RestoreShape
  <2>2. InScope
    BY <1>4, <2>1 DEF Undoing, UndoRemove, UndoMove, UndoCopy, UndoTruncate, UndoWrite, Raise,
       InScope, RInv, RestoreTypes, RestoreShape, Going
  <2> QED
    BY <1>4, <2>1, <2>2, UndoNoted, UndoTruncateNoted, UndoWriteNoted, FailNoted
    DEF Undoing, Others
<1>5. CASE RewriteTruncate \/ RewriteWrite \/ CertificateFails \/ Succeed \/ Exit
  BY <1>5 DEF RewriteTruncate, RewriteWrite, CertificateFails, Succeed, Exit, InScope, Going,
     RInv, RestoreTypes, RestoreShape
<1>6. CASE UNCHANGED <<vars, restoreVars>>
  <2>1. UNCHANGED <<panelState, restore, disk, back>> /\ InScope
    BY <1>6 DEF vars, panelVars, diskVars, panelState, restoreVars, InScope
  <2>2. (Sound' <=> Sound) /\ (MindSet' <=> MindSet) /\ (FileSet' <=> FileSet)
    BY <2>1, PanelKept
  <2> QED
    BY <2>1, <2>2 DEF Noted, ArtifactsNoted, PanelGoesOn, DatabaseNoted, ToPutBack, panelState
<1> QED
  BY <1>1, <1>2, <1>3, <1>4, <1>5, <1>6 DEF RestoreNext

(* When a swap failed and every rollback worked, all that was there is     *)
(* there again when the error surfaces, a database the panel has saved in  *)
(* between included, for any number of artifacts, threads and crashes.     *)
THEOREM RollbackRestores ==
  ASSUME Undisturbed PROVE RestoreSpec => []OriginalsReturn
<1>1. BInv => OriginalsReturn
  BY DEF BInv, InScope, Noted, ArtifactsNoted, PanelGoesOn, DatabaseNoted, ToPutBack,
     OriginalsReturn, Whole, FileSet, FileIsWhole
<1>2. RestoreInit => BInv
  BY RestoreInitOK DEF BInv, InScope, Going, RestoreInit, NotStarted
<1>3. BInv /\ [RestoreNext]_<<vars, restoreVars>> => BInv'
  BY NotedStep
<1> QED
  BY <1>1, <1>2, <1>3, PTL DEF RestoreSpec

-----------------------------------------------------------------------------
(* The request writes the database from copies it made, and the panel goes *)
(* on saving: what it copied, the process and every text under way have as *)
(* well, and what a save has returned is not in the inode it writes to.    *)
Within(S) ==
  /\ up => S \subseteq memory.updates
  /\ \A t \in Threads : thread[t].pc \in Saving => S \subseteq thread[t].text.updates

Texted == Content \union {Empty, Mixed}
Copied ==
  /\ up /\ file /= 0
  /\ restore.db \in Texted /\ Within(restore.db.updates)
  /\ restore.pc \in {"undo_write", "rewrite_write"} =>
       /\ restore.text \in Texted /\ Within(restore.text.updates)
       /\ restore.fd \in {0, file}
       /\ restore.fd /= 0 => saved = {}

SInv ==
  /\ Sound /\ Covers /\ saved \subseteq OnDisk
  /\ restore.pc = "idle" => FileIsWhole
  /\ restore.pc \notin Over => Copied

LEMMA WithinStays ==
  ASSUME Sound, OwnStep, up, NEW S, Within(S) PROVE Within(S)'
<1>1. CASE Crash
  BY <1>1, IdleFields DEF Crash, Down, Within
<1>2. CASE Load
  BY <1>2 DEF Load
<1>3. ASSUME NEW t \in Threads, Save(t) \/ SaveFails(t) \/ \E u \in Updates : Mutate(t, u)
      PROVE  Within(S)'
  <2>1. /\ up' = up /\ memory.updates \subseteq memory'.updates
        /\ \E m : /\ thread' = [thread EXCEPT ![t] = m]
                  /\ m.pc \in Saving =>
                       m.text = memory' \/ (thread[t].pc \in Saving /\ m.text = thread[t].text)
    <3>1. thread[t] \in ThreadState
      BY DEF Sound, Types
    <3>2. CASE Serialize(t)
      <4> DEFINE moved == [thread[t] EXCEPT !.pc = "open", !.text = memory]
      <4>1. moved.text = memory
        BY <3>1 DEF ThreadState
      <4>2. /\ thread' = [thread EXCEPT ![t] = moved]
            /\ memory' = memory /\ up' = up
        BY <3>2 DEF Serialize
      <4> HIDE DEF moved
      <4> QED
        BY <4>1, <4>2
    <3>3. CASE OpenTemporary(t) \/ WriteTemporary(t)
      <4>1. PICK q, i :
              thread' = [thread EXCEPT ![t] = [thread[t] EXCEPT !.pc = q, !.fd = i]]
        BY <3>3 DEF OpenTemporary, WriteTemporary, Saving
      <4> DEFINE moved == [thread[t] EXCEPT !.pc = q, !.fd = i]
      <4>2. moved.text = thread[t].text
        BY <3>1 DEF ThreadState
      <4>3. thread[t].pc \in Saving /\ memory' = memory /\ up' = up
        BY <3>3 DEF OpenTemporary, WriteTemporary, Saving
      <4>4. thread' = [thread EXCEPT ![t] = moved]
        BY <4>1
      <4> HIDE DEF moved
      <4> QED
        BY <4>2, <4>3, <4>4
    <3>4. CASE Replace(t) \/ SaveFails(t)
      BY <3>4, IdleFields DEF Replace, SaveFails
    <3>5. CASE \E u \in Updates : Mutate(t, u)
      <4> PICK u \in Updates : Mutate(t, u)
        BY <3>5
      <4>1. memory.updates \subseteq memory'.updates
        BY <3>5 DEF Mutate, Sound, Types, Content
      <4>2. [Idle EXCEPT !.pc = "save", !.update = u].pc \notin Saving
        BY DEF Idle, Saving
      <4> QED
        BY <3>5, <4>1, <4>2 DEF Mutate
    <3> QED
      BY <1>3, <3>2, <3>3, <3>4, <3>5 DEF Save
  <2>2. \A s \in Threads : thread'[s].pc \in Saving =>
          thread'[s].text = memory' \/ (thread[s].pc \in Saving /\ thread'[s].text = thread[s].text)
    <3>1. PICK m : /\ thread' = [thread EXCEPT ![t] = m]
                   /\ m.pc \in Saving =>
                        m.text = memory' \/ (thread[t].pc \in Saving /\ m.text = thread[t].text)
      BY <2>1
    <3>2. thread'[t] = m /\ \A s \in Threads \ {t} : thread'[s] = thread[s]
      BY <3>1 DEF Sound, Types
    <3> QED
      BY <3>1, <3>2
  <2> QED
    BY <2>1, <2>2 DEF Within
<1> QED
  BY <1>1, <1>2, <1>3 DEF OwnStep

LEMMA OnDiskFields ==
  ASSUME Sound, file /= 0
  PROVE  inode[file] \in Texted /\ inode[file].updates = OnDisk
BY ContentFields DEF Sound, Types, OnDisk, Whole, Texted

LEMMA CoversWithin == Covers <=> Within(OnDisk)
BY DEF Covers, Within

LEMMA PanelStepCopied ==
  ASSUME Undisturbed, RestoreTypes, SInv, PanelStep PROVE SInv'
<1>1. OwnStep /\ Kept /\ Alone
  BY UndisturbedOK DEF PanelStep, SInv
<1>2. Sound' /\ Covers' /\ saved' \subseteq OnDisk' /\ (FileIsWhole => FileIsWhole')
  BY <1>1 DEF Kept, Alone, SInv
<1>3. /\ restore'.pc = IF up /\ ~up' /\ restore.pc \notin Over THEN "killed" ELSE restore.pc
      /\ restore'.db = restore.db /\ restore'.text = restore.text
      /\ restore'.fd = IF file' = file THEN restore.fd ELSE 0
  BY DEF PanelStep, RestoreTypes, RestoreShape
<1>4. ASSUME restore'.pc \notin Over PROVE Copied'
  <2>1. restore'.pc = restore.pc /\ restore.pc \notin Over
    BY <1>3, <1>4 DEF Over
  <2>2. Copied /\ up
    BY <2>1 DEF SInv, Copied
  <2>3. up' /\ file' /= 0 /\ (file' = file => saved' = saved)
    <3>1. up'
      BY <1>3, <1>4, <2>2 DEF Over
    <3> QED
      BY <1>1, <2>2, <3>1 DEF Alone, Copied
  <2>4. Within(restore.db.updates)'
    <3>1. Within(restore.db.updates)
      BY <2>2 DEF Copied
    <3> QED
      BY <1>1, <1>3, <2>2, <3>1, WithinStays DEF SInv, Within
  <2>5. restore.pc \in {"undo_write", "rewrite_write"} => Within(restore.text.updates)'
    <3>1. restore.pc \in {"undo_write", "rewrite_write"} => Within(restore.text.updates)
      BY <2>2 DEF Copied
    <3> QED
      BY <1>1, <1>3, <2>2, <3>1, WithinStays DEF SInv, Within
  <2> QED
    BY <1>3, <2>1, <2>2, <2>3, <2>4, <2>5 DEF Copied
<1>5. restore'.pc = "idle" => restore.pc = "idle"
  BY <1>3
<1> QED
  BY <1>2, <1>4, <1>5 DEF SInv

(* A step of the request that leaves the database alone. *)
LEMMA CopiedStays ==
  ASSUME SInv, UNCHANGED panelState, restore'.pc /= "idle",
         restore'.pc \notin Over => restore.pc \notin Over /\ restore'.db = restore.db,
         restore'.pc \notin {"undo_write", "rewrite_write"}
  PROVE  SInv'
<1>1. Sound' /\ Covers' /\ OnDisk' = OnDisk
  BY PanelKept DEF SInv
<1> QED
  BY <1>1 DEF SInv, Copied, Within, panelState

LEMMA QuietCopied ==
  ASSUME RestoreTypes, SInv,
         \/ \E d \in Dirs : SnapshotDir(d) \/ UndoRemove(d) \/ UndoMove(d)
         \/ \E f \in Files : SnapshotFile(f) \/ UndoCopy(f)
         \/ \E a \in Others : SwapIn(a)
         \/ \E a \in Artifacts : UndoFails(a)
         \/ SwapFails \/ Raise \/ CertificateFails \/ Succeed
  PROVE  SInv'
<1>1. UNCHANGED panelState
  BY DEF SnapshotDir, SnapshotFile, SwapIn, SwapFails, UndoRemove, UndoMove, UndoCopy, UndoFails,
     Raise, CertificateFails, Succeed, vars, panelVars, diskVars, panelState
<1>2. /\ restore.pc \notin Over /\ restore'.pc /= "idle" /\ restore'.db = restore.db
      /\ restore'.pc \notin {"undo_write", "rewrite_write"}
  BY DEF SnapshotDir, SnapshotFile, SwapIn, SwapFails, UndoRemove, UndoMove, UndoCopy, UndoFails,
     Raise, CertificateFails, Succeed, Swapped, Holding, RestoreTypes, RestoreShape, Over
<1> QED
  BY <1>1, <1>2, CopiedStays

LEMMA StartCopied == ASSUME RestoreTypes, SInv, StartRestore PROVE SInv'
<1>1. restore = NotStarted /\ UNCHANGED panelState /\ up /\ file /= 0
  BY DEF StartRestore, RestoreTypes, SInv, FileIsWhole, vars, panelVars, diskVars, panelState
<1>2. restore'.pc = "swap" /\ restore'.db = Empty
  BY <1>1 DEF StartRestore, NotStarted
<1>3. Sound' /\ Covers' /\ saved' \subseteq OnDisk'
  BY <1>1, PanelKept DEF SInv, panelState
<1>4. Copied'
  BY <1>1, <1>2, ContentFields DEF Copied, Within, Texted, panelState
<1> QED
  BY <1>2, <1>3, <1>4 DEF SInv

LEMMA SnapshotCopied == ASSUME RestoreTypes, SInv, SnapshotDatabase PROVE SInv'
<1>1. /\ UNCHANGED panelState /\ restore.pc = "swap"
      /\ restore'.pc = "replace" /\ restore'.db = inode[file]
  BY DEF SnapshotDatabase, Holding, RestoreTypes, RestoreShape, vars, panelVars, diskVars, panelState
<1>2. Copied
  BY <1>1 DEF SInv, Over
<1>3. restore'.db \in Texted /\ Within(restore'.db.updates)
  BY <1>1, <1>2, OnDiskFields, CoversWithin DEF SInv, Copied
<1>4. Sound' /\ Covers' /\ saved' \subseteq OnDisk'
  BY <1>1, PanelKept DEF SInv, panelState
<1>5. Copied'
  BY <1>1, <1>2, <1>3 DEF Copied, Within, panelState
<1> QED
  BY <1>1, <1>4, <1>5 DEF SInv

(* A step of the request that writes the text c over the file, or to a new *)
(* inode with its name.                                                    *)
LEMMA WriteCopied ==
  ASSUME Undisturbed, SInv, UNCHANGED <<memory, up, lock, thread, tmp, ext>>,
         restore.pc \notin Over, file' \in Inodes \ {tmp},
         NEW c \in Texted, inode' = [inode EXCEPT ![file'] = c], Within(c.updates),
         saved' = {}, restore'.pc \notin Over, restore'.db = restore.db,
         restore'.pc \in {"undo_write", "rewrite_write"} =>
           /\ restore'.text \in Texted /\ Within(restore'.text.updates)
           /\ restore'.fd \in {0, file'}
  PROVE  SInv'
<1>1. Copied
  BY DEF SInv
<1>2. Sound' /\ file' /= 0 /\ OnDisk' = c.updates
  BY WriteSound DEF SInv, Texted
<1>3. Covers'
  BY <1>2 DEF Covers, Within
<1>4. Copied'
  BY <1>1, <1>2 DEF Copied, Within
<1> QED
  BY <1>2, <1>3, <1>4 DEF SInv, Over

LEMMA DatabaseCopied ==
  ASSUME Undisturbed, RestoreTypes, SInv, SwapInDatabase \/ UndoTruncate \/ RewriteTruncate
  PROVE  SInv'
<1>1. /\ UNCHANGED <<memory, up, lock, thread, tmp, ext>> /\ saved' = {}
      /\ restore.pc \notin Over /\ restore'.pc \notin Over /\ restore'.db = restore.db
  BY DEF SwapInDatabase, UndoTruncate, RewriteTruncate, Swapped, panelVars, RestoreTypes,
     RestoreShape, Over
<1>2. Copied /\ Sound /\ Covers
  BY <1>1 DEF SInv
<1>3. Empty \in Texted /\ Restored \in Texted /\ Within({}) /\ Restored.updates = {}
  BY DEF Texted, Restored, Content, Within
<1>4. file \in Inodes \ {tmp}
  BY <1>2 DEF Copied, Sound, Types
<1>5. CASE SwapInDatabase
  <2>1. file' = NewInode /\ inode' = [inode EXCEPT ![file'] = Restored]
        /\ restore'.pc \notin {"undo_write", "rewrite_write"}
    BY <1>5 DEF SwapInDatabase, Swapped, RestoreTypes, RestoreShape
  <2>2. file' \in Inodes \ {tmp}
    BY <1>2, <2>1, FreeForRestore
  <2> QED
    BY <1>1, <1>3, <2>1, <2>2, WriteCopied
<1>6. CASE UndoTruncate
  <2>1. /\ file' = file /\ inode' = [inode EXCEPT ![file'] = Empty]
        /\ restore'.fd = file' /\ restore'.text = restore.db
    BY <1>6 DEF UndoTruncate, RestoreTypes, RestoreShape
  <2>2. restore'.text \in Texted /\ Within(restore'.text.updates)
    BY <1>2, <2>1 DEF Copied
  <2> QED
    BY <1>1, <1>3, <1>4, <2>1, <2>2, ContentFields, WriteCopied
<1>7. CASE RewriteTruncate
  <2>1. /\ file' = file /\ inode' = [inode EXCEPT ![file'] = Empty]
        /\ restore'.fd = file' /\ restore'.text = inode[file]
    BY <1>7 DEF RewriteTruncate, RestoreTypes, RestoreShape
  <2>2. restore'.text \in Texted /\ Within(restore'.text.updates)
    BY <1>2, <2>1, OnDiskFields, CoversWithin DEF Copied
  <2> QED
    BY <1>1, <1>3, <1>4, <2>1, <2>2, ContentFields, WriteCopied
<1> QED
  BY <1>5, <1>6, <1>7

LEMMA WriteOverCopied ==
  ASSUME Undisturbed, RestoreTypes, SInv, UndoWrite \/ RewriteWrite PROVE SInv'
<1>1. /\ UNCHANGED <<memory, up, lock, thread, tmp, ext, file, saved>> /\ WriteOver
      /\ restore.pc \in {"undo_write", "rewrite_write"}
      /\ restore'.pc \in {"undo", "certificate"} /\ restore'.db = restore.db
  BY DEF UndoWrite, RewriteWrite, panelVars, RestoreTypes, RestoreShape
<1>2. restore.pc \notin Over /\ restore'.pc \notin Over
  BY <1>1 DEF Over
<1>3. Copied /\ Sound
  BY <1>2 DEF SInv
<1>4. CASE restore.fd = 0
  <2>1. UNCHANGED panelState
    BY <1>1, <1>4 DEF WriteOver, panelState
  <2> QED
    BY <1>1, <1>2, <2>1, CopiedStays
<1>5. CASE restore.fd /= 0
  <2>1. /\ inode' = [inode EXCEPT ![file'] = restore.text] /\ saved' = {}
        /\ restore.text \in Texted /\ Within(restore.text.updates)
    BY <1>1, <1>3, <1>5 DEF WriteOver, Copied
  <2>2. file' \in Inodes \ {tmp}
    BY <1>1, <1>3 DEF Copied, Sound, Types
  <2> QED
    BY <1>1, <1>2, <2>1, <2>2, WriteCopied
<1> QED
  BY <1>4, <1>5

LEMMA ExitCopied == ASSUME RestoreTypes, SInv, Exit PROVE SInv'
<1>1. /\ Down /\ UNCHANGED <<file, tmp, inode, ext, saved>>
      /\ restore'.pc = "restarted"
  BY DEF Exit, diskVars, RestoreTypes, RestoreShape
<1>2. Sound' /\ Covers'
  BY <1>1, DownSound DEF SInv, Sound, Types, Outside
<1>3. OnDisk' = OnDisk
  BY <1>1, SameDisk
<1> QED
  BY <1>1, <1>2, <1>3 DEF SInv, Over

LEMMA CopiedStep ==
  Undisturbed /\ RInv /\ SInv /\ [RestoreNext]_<<vars, restoreVars>> => SInv'
<1> SUFFICES ASSUME Undisturbed, RInv, SInv, [RestoreNext]_<<vars, restoreVars>> PROVE SInv'
  OBVIOUS
<1>1. RestoreTypes
  BY DEF RInv
<1>2. CASE PanelStep \/ StartRestore
  BY <1>1, <1>2, PanelStepCopied, StartCopied
<1>3. CASE Swapping \/ Undoing
  BY <1>1, <1>3, QuietCopied, SnapshotCopied, DatabaseCopied, WriteOverCopied
  DEF Swapping, Undoing
<1>4. CASE RewriteTruncate \/ RewriteWrite \/ CertificateFails \/ Succeed \/ Exit
  BY <1>1, <1>4, QuietCopied, DatabaseCopied, WriteOverCopied, ExitCopied
<1>5. CASE UNCHANGED <<vars, restoreVars>>
  <2>1. UNCHANGED <<panelState, restore>>
    BY <1>5 DEF vars, panelVars, diskVars, panelState, restoreVars
  <2>2. Sound' /\ Covers' /\ OnDisk' = OnDisk
    BY <2>1, PanelKept DEF SInv
  <2> QED
    BY <2>1, <2>2 DEF SInv, Copied, Within, FileIsWhole, Whole, panelState
<1> QED
  BY <1>2, <1>3, <1>4, <1>5 DEF RestoreNext

(* While a backup is restored, put back or written over, the panel's saves *)
(* keep their promise: an update whose save has returned since the request *)
(* last wrote to the database stays in the file, and the process never has *)
(* less than the file, so that its next save takes nothing away.           *)
THEOREM SavesSurviveRestores ==
  ASSUME Undisturbed PROVE RestoreSpec => [](SavedStays /\ MemoryIsAhead)
<1>1. SInv => SavedStays /\ MemoryIsAhead
  BY DEF SInv, Covers, SavedStays, MemoryIsAhead
<1>2. RestoreInit => SInv
  BY InitOK DEF RestoreInit, NotStarted, SInv, DInv, Ahead, Quiet, FileIn, Over, Init, Idle
<1>3. RInv /\ [RestoreNext]_<<vars, restoreVars>> => RInv'
  BY RestoreStepOK
<1>4. RInv /\ SInv /\ [RestoreNext]_<<vars, restoreVars>> => SInv'
  BY CopiedStep
<1> QED
  BY RestoreInitOK, <1>1, <1>2, <1>3, <1>4, PTL DEF RestoreSpec

-----------------------------------------------------------------------------
(* The host agent (HostControl).                                           *)

(* What the panel lets through, and who interferes: the agent is killed, or*)
(* other programs take ports and writes fail.                              *)
Sensible ==
  /\ FirstPort \in PanelPorts /\ Nothing \notin PanelPorts /\ Other \notin PanelPorts
  /\ Wants \in [Requests -> PanelPorts \cup {Other}]
OneKindOfTrouble == MaxKills = 0 \/ (Strangers = {} /\ ~WritesFail)

Busy == {"handle", "save", "save_db", "remove", "run",
         "save_back", "save_db_back", "remove_back", "run_back",
         "answer", "unlink"}
Value == PanelPorts \cup {Nothing}
HostTypes ==
  /\ agent \in [pc : Busy \cup {"wait", "down"}, req : Requests \cup {Nothing},
                target : Value, old : Value,
                outcome : {Nothing, "success", "failed", "rollback failed",
                           "restored previous ports"}]
  /\ inbox \in [Requests -> {Nothing, "queued", "done", "invalid"}]
  /\ config \in PanelPorts /\ container \in Value
  /\ taken \subseteq Strangers /\ stuck \in BOOLEAN
  /\ kills \in Nat /\ mishaps \in Nat

(* The agent works on a request whose file is still there.                 *)
OnRequest == agent.pc \in Busy => agent.req \in Requests /\ inbox[agent.req] = "queued"
OnPorts ==
  agent.pc \in {"save", "save_db", "remove", "run",
               "save_back", "save_db_back", "remove_back", "run_back"} =>
    Wants[agent.req] /= Other /\ agent.target \in PanelPorts /\ agent.old \in PanelPorts

(* How far a change has come. *)
Progress ==
  /\ agent.pc = "save" => agent.target = Wants[agent.req] /\ agent.old = config
  /\ agent.pc \in {"save_db", "remove", "run"} => config = agent.target /\ config = Wants[agent.req]
  /\ agent.pc \in {"run", "save_back", "save_db_back", "remove_back", "run_back"} =>
       container = Nothing
  /\ agent.pc \in {"save_back"} => agent.target = agent.old
  /\ agent.pc \in {"save_db_back", "remove_back", "run_back"} => config = agent.target

(* The ports differ outside of a change only after a kill, and then the    *)
(* request that was interrupted, or another one, will settle it: its ports *)
(* are those of the configuration, or no container is in its way.          *)
Settles(r) ==
  /\ inbox[r] = "queued" /\ Wants[r] /= Other
  /\ container = Nothing \/ Wants[r] = config
Settled ==
  ~stuck /\ container /= config =>
    /\ agent.pc \in {"wait", "down", "handle", "save"} =>
         MaxKills /= 0 /\ \E r \in Requests : Settles(r)
    /\ agent.pc \in {"answer", "unlink"} =>
         MaxKills /= 0 /\ \E r \in Requests \ {agent.req} : Settles(r)

NoKill == MaxKills = 0 => agent.pc /= "down"

HInv == HostTypes /\ OnRequest /\ OnPorts /\ Progress /\ Settled /\ NoKill

LEMMA HostInitOK == ASSUME Sensible PROVE HostInit => HInv
  <1> SUFFICES ASSUME HostInit PROVE HInv
    OBVIOUS
  <1> USE DEF HostInit, Waiting
  <1>1. HostTypes
    BY DEF Sensible, HostTypes, Busy, Value
  <1>2. OnRequest /\ OnPorts /\ NoKill
    BY DEF OnRequest, OnPorts, NoKill, Busy
  <1>3. Progress /\ Settled
    BY DEF Progress, Settled
  <1>4. QED
    BY <1>1, <1>2, <1>3 DEF HInv

(* A request is taken with nothing under way.                              *)
LEMMA TakeStep ==
  ASSUME Sensible, HInv, NEW r \in Requests, Take(r)
  PROVE  HInv'
  BY DEF Sensible, HInv, HostTypes, OnRequest, OnPorts, Progress, Settled, Settles, NoKill,
         Take, Waiting, Busy, Value

(* A step that answers without having changed anything: what was settled by*)
(* another request still is.                                               *)
Answered(outcome) ==
  /\ agent' = [agent EXCEPT !.pc = "answer", !.outcome = outcome]
  /\ UNCHANGED <<inbox, config, container, taken, kills>>

LEMMA AnswerTypes ==
  ASSUME HInv, agent.pc \in Busy, mishaps' \in Nat, stuck' \in BOOLEAN,
         NEW outcome \in {"success", "failed", "rollback failed", "restored previous ports"},
         Answered(outcome)
  PROVE  /\ HostTypes' /\ OnRequest' /\ OnPorts' /\ Progress' /\ NoKill'
         /\ agent'.pc = "answer" /\ agent'.req = agent.req
  <1> USE DEF HInv, Answered
  <1>1. /\ agent'.pc = "answer" /\ agent'.req = agent.req
        /\ HostTypes'
    BY DEF HostTypes, Busy
  <1>2. OnRequest' /\ OnPorts' /\ Progress' /\ NoKill'
    BY <1>1 DEF OnRequest, OnPorts, Progress, NoKill, HostTypes
  <1>3. QED
    BY <1>1, <1>2

(* A request for ports that are in use is none that settles a difference.  *)
LEMMA HandleStep ==
  ASSUME Sensible, OneKindOfTrouble, HInv, HandleOther \/ HandlePorts
  PROVE  HInv'
  <1> USE DEF HInv
  <1>1. agent.pc = "handle" /\ agent.req \in Requests
    BY DEF HandleOther, HandlePorts, OnRequest, Busy
  <1>2. ASSUME NEW outcome \in {"success", "failed"}, Answered(outcome),
               UNCHANGED <<stuck, mishaps>>,
               ~stuck /\ container /= config => ~Settles(agent.req)
        PROVE  HInv'
    <2>1. /\ HostTypes' /\ OnRequest' /\ OnPorts' /\ Progress' /\ NoKill'
          /\ agent'.pc = "answer" /\ agent'.req = agent.req
      BY <1>1, <1>2, AnswerTypes DEF HostTypes, Busy
    <2>2. Settled'
      BY <1>1, <1>2, <2>1 DEF Answered, Settled, Settles
    <2>3. QED
      BY <2>1, <2>2
  <1>3. CASE HandleOther
    BY <1>1, <1>2, <1>3 DEF HandleOther, Answer, Answered, Settles
  <1>4. CASE HandlePorts /\ Occupied(Wants[agent.req])
    <2>1. ASSUME ~stuck, container /= config PROVE ~Settles(agent.req)
      <3>1. taken = {}
        BY <1>1, <2>1 DEF Settled, OneKindOfTrouble, HostTypes
      <3>2. QED
        BY <1>1, <1>4, <3>1 DEF Sensible, HandlePorts, Occupied, Settles
    <2>2. QED
      BY <1>2, <1>4, <2>1 DEF HandlePorts, Answer, Answered
  <1>5. CASE HandlePorts /\ ~Occupied(Wants[agent.req])
    <2>1. /\ agent' = [agent EXCEPT !.pc = "save", !.target = Wants[agent.req], !.old = config]
          /\ Wants[agent.req] /= Other
          /\ UNCHANGED <<inbox, results, config, container, taken, stuck, kills, mishaps>>
      BY <1>5 DEF HandlePorts
    <2>2. HostTypes'
      BY <1>1, <2>1 DEF Sensible, HostTypes, Busy, Value
    <2>3. /\ agent'.pc = "save" /\ agent'.req = agent.req
          /\ agent'.target = Wants[agent.req] /\ agent'.old = config
      BY <2>1 DEF HostTypes
    <2>4. OnRequest' /\ OnPorts' /\ NoKill'
      BY <1>1, <2>1, <2>2, <2>3 DEF Sensible, OnRequest, OnPorts, NoKill, Busy, HostTypes
    <2>5. Progress' /\ Settled'
      BY <1>1, <2>1, <2>3 DEF Progress, Settled, Settles
    <2>6. QED
      BY <2>2, <2>4, <2>5
  <1>6. QED
    BY <1>3, <1>4, <1>5

LEMMA SaveStep ==
  ASSUME Sensible, HInv, SaveConfig \/ SaveDatabase
  PROVE  HInv'
  <1>1. CASE SaveConfig
    BY <1>1 DEF HInv, HostTypes, OnRequest, OnPorts, Progress, Settled, NoKill, SaveConfig, Go,
                Busy, Value
  <1>2. CASE SaveDatabase
    BY <1>2 DEF HInv, HostTypes, OnRequest, OnPorts, Progress, Settled, NoKill, SaveDatabase, Go,
                Busy, Value
  <1>3. QED
    BY <1>1, <1>2

(* A failed write of the configuration leaves everything as it was; one of *)
(* the database, or in a rollback, is a failure that is only reported.     *)
LEMMA SaveFailsStep ==
  ASSUME Sensible, OneKindOfTrouble, HInv, ChangeUnsaved \/ RollbackUnsaved
  PROVE  HInv'
  <1> USE DEF HInv
  <1>1. MaxKills = 0 /\ agent.pc \in Busy /\ mishaps' \in Nat
    <2>1. mishaps \in Nat /\ mishaps' = mishaps + 1
      BY DEF ChangeUnsaved, RollbackUnsaved, Failure, HostTypes
    <2>2. mishaps' \in Nat
      BY <2>1
    <2>3. agent.pc \in Busy /\ WritesFail
      BY DEF ChangeUnsaved, RollbackUnsaved, Busy
    <2>4. QED
      BY <2>2, <2>3, Zenon DEF OneKindOfTrouble
  <1>2. CASE ChangeUnsaved /\ agent.pc = "save"
    <2>1. Answered("failed") /\ stuck' = stuck
      BY <1>2 DEF ChangeUnsaved, Answer, Answered, HostTypes
    <2>2. /\ HostTypes' /\ OnRequest' /\ OnPorts' /\ Progress' /\ NoKill'
          /\ agent'.pc = "answer" /\ agent'.req = agent.req
      BY <1>1, <2>1, AnswerTypes DEF HostTypes
    <2>3. Settled'
      BY <1>1, <1>2, <2>1, <2>2 DEF Settled, Answered
    <2>4. QED
      BY <2>2, <2>3
  <1>3. CASE ChangeUnsaved /\ agent.pc = "save_db"
    <2>1. Answered("failed") /\ stuck' = TRUE
      BY <1>3 DEF ChangeUnsaved, Answer, Answered
    <2>2. HostTypes' /\ OnRequest' /\ OnPorts' /\ Progress' /\ NoKill'
      BY <1>1, <2>1, AnswerTypes
    <2>3. QED
      BY <2>1, <2>2 DEF Settled
  <1>4. CASE RollbackUnsaved
    <2>1. Answered("rollback failed") /\ stuck' = TRUE
      BY <1>4 DEF RollbackUnsaved, Answer, Answered
    <2>2. HostTypes' /\ OnRequest' /\ OnPorts' /\ Progress' /\ NoKill'
      BY <1>1, <2>1, AnswerTypes
    <2>3. QED
      BY <2>1, <2>2 DEF Settled
  <1>5. QED
    BY <1>2, <1>3, <1>4 DEF ChangeUnsaved

LEMMA RemoveStep ==
  ASSUME Sensible, HInv, RemovePanel
  PROVE  HInv'
  BY DEF HInv, HostTypes, OnRequest, OnPorts, Progress, Settled, NoKill, RemovePanel, Go, Busy, Value

LEMMA RunStep ==
  ASSUME Sensible, HInv, RunPanel
  PROVE  HInv'
  BY DEF HInv, HostTypes, OnRequest, OnPorts, Progress, Settled, NoKill, RunPanel, Answer, Busy, Value

LEMMA RunFailsStep ==
  ASSUME Sensible, HInv, RunFails
  PROVE  HInv'
  <1> USE DEF HInv
  <1>1. /\ agent.pc = "run"
        /\ agent' = [agent EXCEPT !.pc = "save_back", !.target = agent.old]
        /\ UNCHANGED <<inbox, results, config, container, taken, stuck, kills>>
        /\ mishaps' \in Nat
    <2>1. mishaps \in Nat /\ mishaps' \in {mishaps, mishaps + 1}
      BY DEF RunFails, Refused, Failure, HostTypes
    <2>2. QED
      BY <2>1 DEF RunFails
  <1>2. HostTypes'
    BY <1>1 DEF HostTypes, Busy
  <1>3. /\ agent'.pc = "save_back" /\ agent'.req = agent.req
        /\ agent'.target = agent.old /\ agent'.old = agent.old
    BY <1>1 DEF HostTypes
  <1>4. OnRequest' /\ OnPorts' /\ NoKill'
    BY <1>1, <1>3 DEF OnRequest, OnPorts, NoKill, Busy
  <1>5. Progress' /\ Settled'
    BY <1>1, <1>3 DEF Progress, Settled
  <1>6. QED
    BY <1>2, <1>4, <1>5

LEMMA RollbackFailsStep ==
  ASSUME Sensible, HInv, RollbackFails
  PROVE  HInv'
  <1> USE DEF HInv
  <1>1. /\ agent.pc = "run_back" /\ Answered("rollback failed") /\ stuck' = TRUE
        /\ mishaps' \in Nat
    <2>1. mishaps \in Nat /\ mishaps' \in {mishaps, mishaps + 1}
      BY DEF RollbackFails, Refused, Failure, HostTypes
    <2>2. QED
      BY <2>1 DEF RollbackFails, Answer, Answered
  <1>2. HostTypes' /\ OnRequest' /\ OnPorts' /\ Progress' /\ NoKill'
    BY <1>1, AnswerTypes DEF Busy
  <1>3. QED
    BY <1>1, <1>2 DEF Settled

LEMMA FailureCounted ==
  ASSUME mishaps \in Nat, Failure
  PROVE  mishaps' \in Nat
  BY DEF Failure

LEMMA AnswerStep ==
  ASSUME Sensible, OneKindOfTrouble, HInv, WriteResult \/ WriteFails \/ RemoveRequest
  PROVE  HInv'
  <1> USE DEF HInv, HostTypes, OnRequest, OnPorts, Progress, Settled, Settles, NoKill, Busy, Value
  <1>1. CASE WriteResult
    BY <1>1 DEF WriteResult, Go
  <1>2. CASE WriteFails
    <2>1. MaxKills = 0 /\ mishaps' \in Nat
      <3>1. mishaps \in Nat /\ Failure
        BY <1>2 DEF WriteFails
      <3>2. mishaps' \in Nat
        BY ONLY <3>1, FailureCounted
      <3>3. QED
        BY <1>2, <3>2, Zenon DEF OneKindOfTrouble, WriteFails
    <2>2. ~stuck => container = config
      BY <1>2, <2>1 DEF WriteFails
    <2>3. QED
      BY <1>2, <2>1, <2>2 DEF WriteFails, Waiting
  <1>3. CASE RemoveRequest
    BY <1>3 DEF RemoveRequest, Waiting
  <1>4. QED
    BY <1>1, <1>2, <1>3

(* A kill in the middle of a change leaves its request to settle it.       *)
LEMMA KillStep ==
  ASSUME Sensible, HInv, Kill, MaxKills \in Nat
  PROVE  HInv'
  <1> USE DEF HInv
  <1>1. MaxKills /= 0
    <2>1. kills \in Nat /\ kills < MaxKills
      BY DEF HostTypes, Kill
    <2>2. QED
      BY <2>1
  <1>2. HostTypes'
    <2>1. kills' \in Nat
      <3>1. kills \in Nat /\ kills' = kills + 1
        BY DEF HostTypes, Kill
      <3>2. QED
        BY <3>1
    <2>2. agent' = [pc |-> "down", req |-> Nothing, target |-> Nothing,
                    old |-> Nothing, outcome |-> Nothing]
      BY DEF Kill, Waiting
    <2>3. UNCHANGED <<inbox, config, container, taken, stuck, mishaps>>
      BY DEF Kill
    <2>4. QED
      BY <2>1, <2>2, <2>3 DEF HostTypes, Value
  <1>3. OnRequest' /\ OnPorts' /\ Progress' /\ NoKill'
    BY <1>1 DEF OnRequest, OnPorts, Progress, NoKill, Busy, Kill, Waiting
  <1>4. ASSUME ~stuck, container /= config PROVE \E r \in Requests : Settles(r)
    <2>1. CASE agent.pc \in {"wait", "handle", "save", "answer", "unlink"}
      BY <1>4, <2>1 DEF Settled
    <2>2. CASE agent.pc \in {"save_db", "remove", "run", "save_back", "save_db_back",
                            "remove_back", "run_back"}
      BY <2>2 DEF OnRequest, OnPorts, Progress, Settles, Busy
    <2>3. QED
      BY <2>1, <2>2 DEF HostTypes, Busy, Kill
  <1>5. Settled'
    BY <1>1, <1>4 DEF Settled, Settles, Kill, Waiting
  <1>6. QED
    BY <1>2, <1>3, <1>5

LEMMA OutsideStep ==
  ASSUME Sensible, HInv,
         \/ Restart \/ UNCHANGED hostVars
         \/ \E r \in Requests : Submit(r)
         \/ \E p \in PanelPorts : StrangerListens(p)
  PROVE  HInv'
  <1> USE DEF HInv
  <1>1. CASE Restart
    BY <1>1 DEF HostTypes, OnRequest, OnPorts, Progress, Settled, Settles, NoKill, Busy, Value,
                Restart, Waiting
  <1>2. CASE UNCHANGED hostVars
    BY <1>2 DEF HostTypes, OnRequest, OnPorts, Progress, Settled, Settles, NoKill, hostVars
  <1>3. ASSUME NEW r \in Requests, Submit(r) PROVE HInv'
    BY <1>3 DEF HostTypes, OnRequest, OnPorts, Progress, Settled, Settles, NoKill, Busy, Submit
  <1>4. ASSUME NEW p \in PanelPorts, StrangerListens(p) PROVE HInv'
    <2>1. taken' \subseteq Strangers
      <3>1. taken \subseteq Strangers
        BY DEF HostTypes
      <3>2. p \in Strangers /\ taken' = taken \union {p}
        BY <1>4 DEF StrangerListens
      <3>3. QED
        BY <3>1, <3>2
    <2>2. UNCHANGED <<inbox, agent, config, container, stuck, kills, mishaps>>
      BY <1>4 DEF StrangerListens
    <2>3. QED
      BY <2>1, <2>2 DEF HostTypes, OnRequest, OnPorts, Progress, Settled, Settles, NoKill
  <1>5. QED
    BY <1>1, <1>2, <1>3, <1>4

LEMMA HostStepOK ==
  ASSUME Sensible, OneKindOfTrouble, MaxKills \in Nat
  PROVE  HInv /\ [HostNext]_hostVars => HInv'
  <1> SUFFICES ASSUME HInv, [HostNext]_hostVars PROVE HInv'
    OBVIOUS
  <1>1. CASE AgentSteps
    BY <1>1, TakeStep, HandleStep, SaveStep, RemoveStep, RunStep, RunFailsStep,
       RollbackFailsStep, AnswerStep, OutsideStep DEF AgentSteps
  <1>2. CASE ~AgentSteps
    BY <1>2, KillStep, SaveFailsStep, AnswerStep, OutsideStep DEF HostNext
  <1>3. QED
    BY <1>1, <1>2

(* PortsAgree of change_panel_ports (p00rija-host-agent.py): with kills and*)
(* refusals of docker, or with ports that others take and writes that fail,*)
(* an agent with nothing left to do has a panel that publishes the ports of*)
(* its configuration, unless a rollback has failed or the database after   *)
(* the configuration; a failed write of the configuration does no harm.    *)
THEOREM PortsAlwaysAgree ==
  ASSUME Sensible, OneKindOfTrouble, MaxKills \in Nat
  PROVE  HostSpec => []PortsAgree
  <1>1. HInv => PortsAgree
    BY DEF HInv, Settled, Settles, PortsAgree
  <1>2. QED
    BY <1>1, HostInitOK, HostStepOK, PTL DEF HostSpec

(* The safety of RequestsAnswered: wherever the agent is killed and        *)
(* whatever fails, the file of a request disappears only after its answer  *)
(* is there; until then a restarted agent finds it, and takes it.          *)
NoRequestIsLost == \A r \in Requests : inbox[r] = "done" => results[r] /= Nothing

(* What the agent is busy with is still queued; it has the outcome when it *)
(* writes the answer, and the answer is there when it removes the file.    *)
InHand ==
  agent.pc \notin {"wait", "down"} =>
    /\ agent.req \in Requests /\ inbox[agent.req] = "queued"
    /\ agent.pc = "answer" => agent.outcome /= Nothing
    /\ agent.pc = "unlink" => results[agent.req] /= Nothing

LossInv ==
  /\ agent = [pc |-> agent.pc, req |-> agent.req, target |-> agent.target,
              old |-> agent.old, outcome |-> agent.outcome]
  /\ DOMAIN inbox = Requests /\ inbox = [r \in Requests |-> inbox[r]]
  /\ DOMAIN results = Requests /\ results = [r \in Requests |-> results[r]]
  /\ InHand /\ NoRequestIsLost

(* The agent goes on with the request in its hand. *)
GoesOn ==
  /\ UNCHANGED <<inbox, results>>
  /\ agent.pc \notin {"wait", "down", "answer", "unlink"}
  /\ agent' = [pc |-> agent'.pc, req |-> agent'.req, target |-> agent'.target,
               old |-> agent'.old, outcome |-> agent'.outcome]
  /\ agent'.req = agent.req /\ agent'.pc /= "unlink"
  /\ agent'.pc = "answer" => agent'.outcome /= "none"

LEMMA ChangesGoOn ==
  ASSUME LossInv,
         HandleOther \/ HandlePorts \/ SaveConfig \/ SaveDatabase \/ RemovePanel \/ RunPanel
           \/ RunFails \/ RollbackFails \/ ChangeUnsaved \/ RollbackUnsaved
  PROVE  GoesOn
  <1> USE DEF LossInv, GoesOn, Answer, Go
  <1>1. CASE HandleOther
    BY <1>1 DEF HandleOther
  <1>2. CASE HandlePorts
    BY <1>2 DEF HandlePorts
  <1>3. CASE SaveConfig \/ SaveDatabase \/ RemovePanel
    BY <1>3 DEF SaveConfig, SaveDatabase, RemovePanel
  <1>4. CASE RunPanel
    BY <1>4 DEF RunPanel
  <1>5. CASE RunFails
    BY <1>5 DEF RunFails
  <1>6. CASE RollbackFails
    BY <1>6 DEF RollbackFails
  <1>7. CASE ChangeUnsaved \/ RollbackUnsaved
    BY <1>7 DEF ChangeUnsaved, RollbackUnsaved
  <1>8. QED
    BY <1>1, <1>2, <1>3, <1>4, <1>5, <1>6, <1>7

LEMMA ChangesLoseNothing == LossInv /\ GoesOn => LossInv'
BY DEF LossInv, GoesOn, InHand, NoRequestIsLost, Nothing

LEMMA HostLosesNothing == LossInv /\ [HostNext]_hostVars => LossInv'
  <1> SUFFICES ASSUME LossInv, [HostNext]_hostVars PROVE LossInv'
    OBVIOUS
  <1> USE DEF LossInv, InHand, NoRequestIsLost, Nothing
  <1>1. ASSUME NEW r \in Requests, Take(r) PROVE LossInv'
    BY <1>1 DEF Take, Waiting
  <1>2. CASE WriteResult
    BY <1>2 DEF WriteResult, Go
  <1>3. CASE WriteFails
    BY <1>3 DEF WriteFails, Waiting
  <1>4. CASE RemoveRequest
    BY <1>4 DEF RemoveRequest, Waiting
  <1>5. CASE Kill \/ Restart
    BY <1>5 DEF Kill, Restart, Waiting
  <1>6. ASSUME NEW r \in Requests, Submit(r) PROVE LossInv'
    BY <1>6 DEF Submit
  <1>7. CASE UNCHANGED <<inbox, results, agent>>
    BY <1>7
  <1>8. QED
    BY <1>1, <1>2, <1>3, <1>4, <1>5, <1>6, <1>7, ChangesGoOn, ChangesLoseNothing
    DEF HostNext, AgentSteps, StrangerListens, hostVars

(* For any requests, ports, kills and failures, and whatever listens.      *)
THEOREM RequestsStayUntilAnswered == HostSpec => []NoRequestIsLost
  <1>1. HostInit => LossInv
    BY DEF HostInit, Waiting, LossInv, InHand, NoRequestIsLost, Nothing
  <1>2. LossInv => NoRequestIsLost
    BY DEF LossInv
  <1>3. QED
    BY <1>1, <1>2, HostLosesNothing, PTL DEF HostSpec

-----------------------------------------------------------------------------
(* The table of links (LinkTable).                                         *)

Mappings   == [port : UserPorts, by : {"user"} \union Tests]
Records    == [nodes : Pairs \union {{}}, bridge : BridgePairs \union {{}}, maps : SUBSET Mappings]
Entries    == [at : {"checked"}, link : LinkIds, nodes : Pairs, bridge : BridgePairs,
               maps : SUBSET Mappings]
TestStates == [at : {"running"}, link : LinkIds, map : Mappings, kept : BOOLEAN]
Purged     == [at |-> "purged"]

TableTypeOK ==
  /\ links \in [LinkIds -> Records]
  /\ nodes \subseteq Nodes /\ issued \subseteq LinkIds /\ stops \in Nat
  /\ \A a \in Admins : admin[a] = NoRequest \/ admin[a] \in Entries
  /\ admin = [a \in Admins |-> admin[a]]
  /\ \A t \in Tests : test[t] \in {NoRequest, Purged} \/ test[t] \in TestStates
  /\ test = [t \in Tests |-> test[t]]

Disjoint(N, b, M, c) == N \intersect M /= {} => b \intersect c = {}

(* The links in the table are apart, and so is the one that the request    *)
(* has checked, from all the others.                                       *)
LinksApart ==
  \A k, l \in LinkIds :
    k /= l => Disjoint(links[k].nodes, links[k].bridge, links[l].nodes, links[l].bridge)
EntryApart(a) ==
  admin[a] \in Entries =>
    \A k \in LinkIds \ {admin[a].link} :
      Disjoint(links[k].nodes, links[k].bridge, admin[a].nodes, admin[a].bridge)

OneRequest == \A a, c \in Admins : a = c
Apart == OneRequest => LinksApart /\ \A a \in Admins : EntryApart(a)

ApartInv == TableTypeOK /\ Apart

LEMMA TableFields ==
  /\ NoEntry \in Records /\ NoEntry.nodes = {} /\ NoEntry.bridge = {} /\ NoEntry.maps = {}
  /\ NoRequest \notin Entries /\ NoRequest \notin TestStates /\ Purged \notin TestStates
  /\ NoRequest.at = "idle" /\ Purged.at = "purged" /\ NoRequest /= Purged
  /\ \A e \in Entries : e.at = "checked" /\ e.link \in LinkIds /\ e.nodes \in Pairs
                        /\ e.bridge \in BridgePairs /\ e.maps \subseteq Mappings
  /\ \A x \in TestStates : x.at = "running" /\ x.link \in LinkIds /\ x.map \in Mappings
                           /\ x.kept \in BOOLEAN
BY DEF NoEntry, NoRequest, Purged, Records, Entries, TestStates

(* A step that changes mappings only, or takes links out of the table.     *)
Fewer ==
  \A l \in LinkIds : \/ links'[l].nodes = links[l].nodes /\ links'[l].bridge = links[l].bridge
                   \/ links'[l].nodes = {}

LEMMA FewerApart ==
  ASSUME ApartInv, Fewer,
         \A a \in Admins : \/ admin'[a] \notin Entries
                           \/ /\ admin[a] \in Entries /\ admin'[a].link = admin[a].link
                              /\ admin'[a].nodes = admin[a].nodes
                              /\ admin'[a].bridge = admin[a].bridge
  PROVE  Apart'
<1> SUFFICES ASSUME OneRequest PROVE LinksApart' /\ \A a \in Admins : EntryApart(a)'
  BY DEF Apart
<1>0. LinksApart /\ \A a \in Admins : EntryApart(a)
  BY DEF ApartInv, Apart
<1>1. LinksApart'
  BY <1>0 DEF LinksApart, Fewer, Disjoint
<1>2. ASSUME NEW a \in Admins PROVE EntryApart(a)'
  BY <1>0 DEF EntryApart, Fewer, Disjoint
<1> QED BY <1>1, <1>2

(* New mappings of one link.                                               *)
LEMMA MapsChange ==
  ASSUME TableTypeOK, NEW l \in LinkIds, NEW M \in SUBSET Mappings,
         links' = [links EXCEPT ![l].maps = M]
  PROVE  links' \in [LinkIds -> Records] /\ Fewer
<1>1. links' = [links EXCEPT ![l] = [links[l] EXCEPT !.maps = M]] /\ links[l] \in Records
  BY DEF TableTypeOK
<1>2. /\ [links[l] EXCEPT !.maps = M] \in Records
      /\ [links[l] EXCEPT !.maps = M].nodes = links[l].nodes
      /\ [links[l] EXCEPT !.maps = M].bridge = links[l].bridge
  BY <1>1 DEF Records
<1>3. \A k \in LinkIds : links'[k] = IF k = l THEN [links[l] EXCEPT !.maps = M] ELSE links[k]
  BY <1>1 DEF TableTypeOK
<1>4. links' \in [LinkIds -> Records]
  BY <1>1, <1>2 DEF TableTypeOK
<1>5. Fewer
  BY <1>2, <1>3 DEF Fewer
<1> QED BY <1>4, <1>5

LEMMA TouchTypes ==
  ASSUME TableTypeOK, NEW t \in Tests, test[t] \in TestStates
  PROVE  [test[t] EXCEPT !.kept = FALSE] \in TestStates
BY DEF TableTypeOK, TestStates

(* A record of tests in which some lost their claim is of its type.        *)
Tested(T) ==
  /\ T = [t \in Tests |-> T[t]]
  /\ \A t \in Tests : T[t] \in {NoRequest, Purged} \/ T[t] \in TestStates

LEMMA TouchedTests ==
  ASSUME TableTypeOK
  PROVE  /\ Tested(test)
         /\ \A l, M : Tested(Touch(l, M))
         /\ \A L : Tested(TouchAll(L))
<1>1. \A t \in Tests : test[t].at = "running" => test[t] \in TestStates
  BY TableFields DEF TableTypeOK
<1>2. Tested(test)
  BY DEF Tested, TableTypeOK
<1>3. ASSUME NEW l, NEW M PROVE Tested(Touch(l, M))
  <2>1. ASSUME NEW t \in Tests
        PROVE  Touch(l, M)[t] \in {NoRequest, Purged} \/ Touch(l, M)[t] \in TestStates
    BY <1>1, TouchTypes DEF Touch, TableTypeOK
  <2>2. Touch(l, M) = [t \in Tests |-> Touch(l, M)[t]]
    BY DEF Touch
  <2> QED BY <2>1, <2>2 DEF Tested
<1>4. ASSUME NEW L PROVE Tested(TouchAll(L))
  <2>1. ASSUME NEW t \in Tests
        PROVE  TouchAll(L)[t] \in {NoRequest, Purged} \/ TouchAll(L)[t] \in TestStates
    BY <1>1, TouchTypes DEF TouchAll, TableTypeOK
  <2>2. TouchAll(L) = [t \in Tests |-> TouchAll(L)[t]]
    BY DEF TouchAll
  <2> QED BY <2>1, <2>2 DEF Tested
<1> QED BY <1>2, <1>3, <1>4

LEMMA TestedSet ==
  ASSUME TableTypeOK, NEW t \in Tests, NEW x, x \in {NoRequest, Purged} \/ x \in TestStates,
         test' = [test EXCEPT ![t] = x]
  PROVE  Tested(test')
<1>1. test' = [u \in Tests |-> IF u = t THEN x ELSE test[u]]
  BY DEF TableTypeOK
<1> QED BY <1>1 DEF Tested, TableTypeOK

(* The requests: nothing pending, or the one entry.                        *)
LEMMA TypesFrom ==
  ASSUME links' \in [LinkIds -> Records], nodes' \subseteq Nodes, issued' \subseteq LinkIds,
         stops' \in Nat, \A a \in Admins : admin'[a] = NoRequest \/ admin'[a] \in Entries,
         admin' = [a \in Admins |-> admin'[a]], Tested(test')
  PROVE  TableTypeOK'
BY DEF TableTypeOK, Tested

LEMMA MapStep ==
  ASSUME ApartInv, NEW l \in LinkIds, NEW M \in SUBSET Mappings,
         links' = [links EXCEPT ![l].maps = M], UNCHANGED <<nodes, issued, admin, stops>>,
         Tested(test')
  PROVE  ApartInv'
<1>1. links' \in [LinkIds -> Records] /\ Fewer
  BY MapsChange DEF ApartInv
<1>2. TableTypeOK'
  BY <1>1, TypesFrom DEF ApartInv, TableTypeOK
<1>3. Apart'
  BY <1>1, FewerApart
<1> QED BY <1>2, <1>3 DEF ApartInv

LEMMA MapsOf == ASSUME TableTypeOK, NEW l \in LinkIds PROVE links[l].maps \subseteq Mappings
BY DEF TableTypeOK, Records

(* A request that has tested its ports is apart from what is in the table. *)
LEMMA CheckStep ==
  ASSUME ApartInv, NEW a \in Admins, NEW l \in LinkIds, NEW N \in Pairs, NEW b \in BridgePairs,
         Check(a, l, N, b)
  PROVE  ApartInv'
<1> DEFINE e == [at |-> "checked", link |-> l, nodes |-> N, bridge |-> b, maps |-> {}]
<1>1. e \in Entries /\ e.link = l /\ e.nodes = N /\ e.bridge = b
  BY DEF Entries
<1>2. TableTypeOK
  BY DEF ApartInv
<1>3. admin' = [admin EXCEPT ![a] = e] /\ UNCHANGED <<links, nodes, test, stops>>
      /\ issued' = issued \union {l} /\ b \intersect Used(N, Present \ {l}) = {}
  BY DEF Check
<1> HIDE DEF e
<1>4. admin' = [c \in Admins |-> IF c = a THEN e ELSE admin[c]]
  BY <1>2, <1>3 DEF TableTypeOK
<1>5. TableTypeOK'
  BY <1>1, <1>2, <1>3, <1>4, TouchedTests, TypesFrom DEF TableTypeOK
<1>6. ASSUME NEW k \in LinkIds \ {l} PROVE Disjoint(links[k].nodes, links[k].bridge, N, b)
  <2>1. SUFFICES ASSUME links[k].nodes \intersect N /= {}
                 PROVE  links[k].bridge \intersect b = {}
    BY DEF Disjoint
  <2>2. k \in Present \ {l}
    BY <2>1, TableFields DEF Present
  <2>3. links[k].bridge \subseteq Used(N, Present \ {l})
    BY <2>1, <2>2 DEF Used
  <2> QED BY <1>3, <2>3
<1>7. EntryApart(a)'
  BY <1>1, <1>3, <1>4, <1>6 DEF EntryApart
<1>8. ASSUME OneRequest PROVE LinksApart' /\ \A c \in Admins : EntryApart(c)'
  <2>1. LinksApart'
    BY <1>3, <1>8 DEF ApartInv, Apart, LinksApart
  <2>2. \A c \in Admins : c = a
    BY <1>8 DEF OneRequest
  <2> QED BY <1>7, <2>1, <2>2
<1> QED BY <1>5, <1>8 DEF ApartInv, Apart

LEMMA StoreStep ==
  ASSUME ApartInv, NEW a \in Admins, Store(a) PROVE ApartInv'
<1>1. TableTypeOK /\ admin[a] \in Entries
  BY TableFields DEF ApartInv, TableTypeOK, Store
<1>2. PICK e : e = admin[a] /\ e \in Entries /\ e.link \in LinkIds /\ e.nodes \in Pairs
               /\ e.bridge \in BridgePairs /\ e.maps \subseteq Mappings
  BY <1>1, TableFields
<1>3. PICK r : r = [nodes |-> e.nodes, bridge |-> e.bridge,
                    maps |-> IF e.link \in Present THEN links[e.link].maps ELSE e.maps]
  OBVIOUS
<1>4. r \in Records /\ r.nodes = e.nodes /\ r.bridge = e.bridge
  BY <1>1, <1>2, <1>3, MapsOf DEF Records
<1>5. links' = [links EXCEPT ![e.link] = r] /\ admin' = [admin EXCEPT ![a] = NoRequest]
      /\ UNCHANGED <<nodes, issued, stops>> /\ test' = TouchAll({e.link})
  BY <1>2, <1>3 DEF Store
<1>6. links' \in [LinkIds -> Records]
      /\ \A k \in LinkIds : links'[k] = IF k = e.link THEN r ELSE links[k]
  BY <1>1, <1>2, <1>4, <1>5 DEF TableTypeOK
<1>7. admin' = [c \in Admins |-> IF c = a THEN NoRequest ELSE admin[c]]
  BY <1>1, <1>5 DEF TableTypeOK
<1>8. TableTypeOK'
  BY <1>1, <1>5, <1>6, <1>7, TouchedTests, TypesFrom DEF TableTypeOK
<1>9. ASSUME OneRequest PROVE LinksApart' /\ \A c \in Admins : EntryApart(c)'
  <2>1. \A c \in Admins : c = a
    BY <1>9 DEF OneRequest
  <2>2. \A c \in Admins : EntryApart(c)'
    BY <1>7, <2>1, TableFields DEF EntryApart
  <2>3. LinksApart /\ EntryApart(a)
    BY <1>9 DEF ApartInv, Apart
  <2>4. \A k \in LinkIds \ {e.link} : Disjoint(links[k].nodes, links[k].bridge, e.nodes, e.bridge)
    BY <1>2, <2>3 DEF EntryApart
  <2>5. ASSUME NEW k \in LinkIds, NEW l \in LinkIds, k /= l
        PROVE  Disjoint(links'[k].nodes, links'[k].bridge, links'[l].nodes, links'[l].bridge)
    <3>1. CASE k /= e.link /\ l /= e.link
      BY <1>6, <2>3, <2>5, <3>1 DEF LinksApart
    <3>2. CASE k = e.link
      <4>1. Disjoint(links[l].nodes, links[l].bridge, e.nodes, e.bridge)
        BY <2>4, <2>5, <3>2
      <4>2. links'[k].nodes = e.nodes /\ links'[k].bridge = e.bridge /\ links'[l] = links[l]
        BY <1>4, <1>6, <2>5, <3>2
      <4> QED BY <4>1, <4>2 DEF Disjoint
    <3>3. CASE l = e.link
      <4>1. Disjoint(links[k].nodes, links[k].bridge, e.nodes, e.bridge)
        BY <2>4, <2>5, <3>3
      <4>2. links'[l].nodes = e.nodes /\ links'[l].bridge = e.bridge /\ links'[k] = links[k]
        BY <1>4, <1>6, <2>5, <3>3
      <4> QED BY <4>1, <4>2 DEF Disjoint
    <3> QED BY <3>1, <3>2, <3>3
  <2> QED BY <2>2, <2>5 DEF LinksApart, Disjoint
<1> QED BY <1>8, <1>9 DEF ApartInv, Apart

LEMMA DropStep ==
  ASSUME ApartInv, NEW L, Drop(L), nodes' \subseteq nodes, UNCHANGED <<issued, stops>>
  PROVE  ApartInv'
<1>1. TableTypeOK
  BY DEF ApartInv
<1>2. /\ links' = [l \in LinkIds |-> IF l \in L THEN NoEntry ELSE links[l]]
      /\ test' = TouchAll(L)
      /\ admin' = [a \in Admins |->
           IF admin[a].at = "checked" /\ admin[a].link \in L
           THEN [admin[a] EXCEPT !.maps = links[admin[a].link].maps] ELSE admin[a]]
  BY DEF Drop
<1>3. links' \in [LinkIds -> Records] /\ Fewer
  BY <1>1, <1>2, TableFields DEF TableTypeOK, Fewer
<1>4. ASSUME NEW a \in Admins
      PROVE  \/ admin'[a] = admin[a]
             \/ /\ admin[a] \in Entries /\ admin'[a] \in Entries
                /\ admin'[a].link = admin[a].link /\ admin'[a].nodes = admin[a].nodes
                /\ admin'[a].bridge = admin[a].bridge
  <2>1. CASE admin[a].at = "checked" /\ admin[a].link \in L
    <3>1. admin[a] \in Entries
      BY <1>1, <2>1, TableFields DEF TableTypeOK
    <3>2. PICK M \in SUBSET Mappings : M = links[admin[a].link].maps
      BY <1>1, <3>1, TableFields, MapsOf
    <3>3. admin'[a] = [admin[a] EXCEPT !.maps = M]
      BY <1>2, <2>1, <3>2
    <3> QED BY <3>1, <3>3 DEF Entries
  <2>2. CASE ~(admin[a].at = "checked" /\ admin[a].link \in L)
    BY <1>2, <2>2
  <2> QED BY <2>1, <2>2
<1>5. admin' = [a \in Admins |-> admin'[a]]
  BY <1>2
<1>6. \A a \in Admins : admin'[a] = NoRequest \/ admin'[a] \in Entries
  BY <1>1, <1>4 DEF TableTypeOK
<1>7. TableTypeOK'
  BY <1>1, <1>2, <1>3, <1>5, <1>6, TouchedTests, TypesFrom DEF TableTypeOK
<1>8. Apart'
  BY <1>3, <1>4, FewerApart
<1> QED BY <1>7, <1>8 DEF ApartInv

LEMMA AdministerStep ==
  ASSUME ApartInv, NEW a \in Admins, Administer(a) PROVE ApartInv'
<1>1. TableTypeOK
  BY DEF ApartInv
<1>2. ASSUME NEW l \in LinkIds, NEW R \in SUBSET UserPorts, AddPorts(a, l, R) PROVE ApartInv'
  <2>1. PICK M : M = links[l].maps \union {[port |-> p, by |-> "user"] : p \in R \ UserPort(l)}
    OBVIOUS
  <2>2. M \in SUBSET Mappings
    BY <1>1, <2>1, MapsOf DEF Mappings
  <2>3. links' = [links EXCEPT ![l].maps = M]
    BY <1>2, <2>1 DEF AddPorts
  <2> QED BY <1>1, <1>2, <2>2, <2>3, MapStep, TouchedTests DEF AddPorts
<1>3. ASSUME NEW l \in LinkIds, NEW m \in links[l].maps, NEW p \in UserPorts, EditPort(a, l, m, p)
      PROVE  ApartInv'
  <2>1. PICK M : M = (links[l].maps \ {m}) \union {[port |-> p, by |-> "user"]}
    OBVIOUS
  <2>2. M \in SUBSET Mappings
    BY <1>1, <2>1, MapsOf DEF Mappings
  <2>3. links' = [links EXCEPT ![l].maps = M]
    BY <1>3, <2>1 DEF EditPort
  <2> QED BY <1>1, <1>3, <2>2, <2>3, MapStep, TouchedTests DEF EditPort
<1>4. ASSUME NEW l \in LinkIds, NEW m \in links[l].maps, RemovePort(a, l, m) PROVE ApartInv'
  <2>1. links[l].maps \ {m} \in SUBSET Mappings
    BY <1>1, MapsOf
  <2> QED BY <1>1, <1>4, <2>1, MapStep, TouchedTests DEF RemovePort
<1>5. ASSUME NEW l \in LinkIds, DeleteLink(a, l) PROVE ApartInv'
  BY <1>5, DropStep DEF DeleteLink
<1>6. ASSUME NEW n \in Nodes, DeleteNode(a, n) PROVE ApartInv'
  <2>1. Drop({l \in Present : n \in links[l].nodes}) /\ nodes' \subseteq nodes
        /\ UNCHANGED <<issued, stops>>
    BY <1>6 DEF DeleteNode
  <2> QED BY <2>1, DropStep
<1> QED BY <1>2, <1>3, <1>4, <1>5, <1>6, CheckStep, StoreStep DEF Administer

LEMMA PayloadStep ==
  ASSUME ApartInv, NEW t \in Tests, PayloadTest(t) PROVE ApartInv'
<1>1. TableTypeOK
  BY DEF ApartInv
<1>2. CASE Purge(t)
  <2>1. ASSUME NEW l \in LinkIds
        PROVE  /\ links'[l] \in Records /\ links'[l].nodes = links[l].nodes
               /\ links'[l].bridge = links[l].bridge
    <3>1. PICK M \in SUBSET Mappings : links'[l] = [links[l] EXCEPT !.maps = M]
      <4>1. {m \in links[l].maps : m.by = "user"} \in SUBSET Mappings
        BY <1>1, MapsOf
      <4> QED BY <1>2, <4>1 DEF Purge
    <3>2. links[l] \in Records
      BY <1>1 DEF TableTypeOK
    <3> QED BY <3>1, <3>2 DEF Records
  <2>2. links' \in [LinkIds -> Records]
    <3>1. links' = [l \in LinkIds |-> links'[l]]
      BY <1>2 DEF Purge
    <3> QED BY <2>1, <3>1
  <2>3. Fewer
    BY <2>1 DEF Fewer
  <2>4. test' = [test EXCEPT ![t] = Purged] /\ UNCHANGED <<nodes, issued, admin, stops>>
    BY <1>2 DEF Purge, Purged
  <2>5. Tested(test')
    BY <1>1, <2>4, TestedSet
  <2>6. TableTypeOK'
    BY <1>1, <2>2, <2>4, <2>5, TypesFrom DEF TableTypeOK
  <2>7. Apart'
    BY <2>3, <2>4, FewerApart
  <2> QED BY <2>6, <2>7 DEF ApartInv
<1>3. ASSUME NEW l \in LinkIds, NEW p \in UserPorts, Begin(t, l, p) PROVE ApartInv'
  <2>0. [port |-> p, by |-> t] \in Mappings
    BY DEF Mappings
  <2>1. PICK m : m = [port |-> p, by |-> t] /\ m \in Mappings
    BY <2>0
  <2>2. PICK M \in SUBSET Mappings : M = links[l].maps \union {m}
    BY <1>1, <2>1, MapsOf
  <2>3. /\ links' = [links EXCEPT ![l].maps = M]
        /\ test' = [test EXCEPT ![t] = [at |-> "running", link |-> l, map |-> m, kept |-> TRUE]]
        /\ UNCHANGED <<nodes, issued, admin, stops>>
    BY <1>3, <2>1, <2>2 DEF Begin
  <2>4. [at |-> "running", link |-> l, map |-> m, kept |-> TRUE] \in TestStates
    BY <2>1 DEF TestStates
  <2>5. Tested(test')
    BY <1>1, <2>3, <2>4, TestedSet
  <2> QED BY <2>2, <2>3, <2>5, MapStep
<1>4. CASE Refuse(t)
  <2>1. Tested(test')
    BY <1>1, <1>4, TestedSet DEF Refuse
  <2>2. UNCHANGED <<links, nodes, issued, admin, stops>>
    BY <1>4 DEF Refuse
  <2>3. TableTypeOK'
    BY <1>1, <2>1, <2>2, TypesFrom DEF TableTypeOK
  <2>4. Apart'
    BY <2>2, FewerApart DEF Fewer
  <2> QED BY <2>3, <2>4 DEF ApartInv
<1>5. CASE End(t)
  <2>1. test[t] \in TestStates
    BY <1>1, <1>5, TableFields DEF End, TableTypeOK
  <2>2. PICK l \in LinkIds : l = test[t].link
    BY <2>1, TableFields
  <2>3. Tested(test') /\ UNCHANGED <<nodes, issued, admin, stops>>
    BY <1>1, <1>5, TestedSet DEF End
  <2>4. CASE test[t].kept
    <3>1. links' = [links EXCEPT ![l].maps = links[l].maps \ {test[t].map}]
      BY <1>5, <2>2, <2>4 DEF End
    <3>2. links[l].maps \ {test[t].map} \in SUBSET Mappings
      BY <1>1, MapsOf
    <3> QED BY <2>3, <3>1, <3>2, MapStep
  <2>5. CASE ~test[t].kept
    <3>1. links' = links
      BY <1>5, <2>5 DEF End
    <3>2. TableTypeOK'
      BY <1>1, <2>3, <3>1, TypesFrom DEF TableTypeOK
    <3>3. Apart'
      BY <2>3, <3>1, FewerApart DEF Fewer
    <3> QED BY <3>2, <3>3 DEF ApartInv
  <2> QED BY <2>4, <2>5
<1> QED BY <1>2, <1>3, <1>4, <1>5 DEF PayloadTest

LEMMA TableStep == ApartInv /\ [TableNext]_tableVars => ApartInv'
<1> SUFFICES ASSUME ApartInv, [TableNext]_tableVars PROVE ApartInv'
  OBVIOUS
<1>1. TableTypeOK
  BY DEF ApartInv
<1>2. CASE PanelStops
  <2>1. /\ admin' = [a \in Admins |-> NoRequest] /\ test' = [t \in Tests |-> NoRequest]
        /\ UNCHANGED <<links, nodes, issued>> /\ stops' = stops + 1
    BY <1>2 DEF PanelStops
  <2>2. Tested(test')
    BY <2>1 DEF Tested
  <2>3. TableTypeOK'
    BY <1>1, <2>1, <2>2, TypesFrom DEF TableTypeOK
  <2>4. Apart'
    BY <2>1, TableFields, FewerApart DEF Fewer
  <2> QED BY <2>3, <2>4 DEF ApartInv
<1>3. CASE UNCHANGED tableVars
  BY <1>3 DEF tableVars, ApartInv, TableTypeOK, Apart, LinksApart, EntryApart
<1> QED BY <1>2, <1>3, AdministerStep, PayloadStep DEF TableNext

LEMMA TableInitApart == TableInit => ApartInv
<1> SUFFICES ASSUME TableInit PROVE ApartInv
  OBVIOUS
<1>1. /\ links = [l \in LinkIds |-> NoEntry] /\ nodes = Nodes /\ issued = {} /\ stops = 0
      /\ admin = [a \in Admins |-> NoRequest] /\ test = [t \in Tests |-> NoRequest]
  BY DEF TableInit
<1>2. TableTypeOK
  BY <1>1, TableFields DEF TableTypeOK
<1>3. LinksApart /\ \A a \in Admins : EntryApart(a)
  BY <1>1, TableFields DEF LinksApart, EntryApart, Disjoint
<1> QED BY <1>2, <1>3 DEF ApartInv, Apart

(* Every variable of the table of links (links_api.py, handle_payload_test)*)
(* keeps its type, for any requests and tests at a time.                   *)
THEOREM TableTypes == TableSpec => []TableTypeOK
<1>1. ApartInv => TableTypeOK
  BY DEF ApartInv
<1> QED BY <1>1, TableStep, TableInitApart, PTL DEF TableSpec

(* While one request at a time changes the table, two links that share a   *)
(* node listen on different ports: what dispatch_links_post tests against  *)
(* the table is still true of it when it writes the link.                  *)
THEOREM BridgePortsApart ==
  OneRequest => (TableSpec => []BridgePortsDistinct)
<1>1. OneRequest /\ ApartInv => BridgePortsDistinct
  BY DEF ApartInv, Apart, LinksApart, Disjoint, BridgePortsDistinct, Present
<1>2. ASSUME OneRequest PROVE TableSpec => []BridgePortsDistinct
  <2>1. ApartInv => BridgePortsDistinct
    BY <1>1, <1>2
  <2> QED BY <2>1, TableStep, TableInitApart, PTL DEF TableSpec
<1> QED BY <1>2

(* A test that has the table to itself keeps its mapping: no step of the   *)
(* administrators takes it without telling (Touch), and the test's own     *)
(* purge came before.                                                      *)
Keeps(t) == test[t].at = "running" /\ test[t].kept => test[t].map \in links[test[t].link].maps

LEMMA AdministerKeeps ==
  ASSUME TableTypeOK, NEW a \in Admins, Administer(a), NEW t \in Tests, Keeps(t)
  PROVE  Keeps(t)'
<1>1. test[t].at = "running" <=> test[t] \in TestStates
  BY TableFields DEF TableTypeOK
<1>2. test[t] \in TestStates => test[t].link \in LinkIds
  BY TableFields
<1>3. CASE UNCHANGED <<links, test>>
  BY <1>3 DEF Keeps
<1>4. ASSUME NEW l \in LinkIds, NEW M, M \subseteq links[l].maps,
             test' = Touch(l, M) \/ (test' = test /\ M = {}),
             \A k \in LinkIds : links[k].maps \ (IF k = l THEN M ELSE {}) \subseteq links'[k].maps
      PROVE  Keeps(t)'
  <2>1. PICK T : T = test'[t]
    OBVIOUS
  <2>2. T = IF test[t] \in TestStates /\ test[t].link = l /\ test[t].map \in M
            THEN [test[t] EXCEPT !.kept = FALSE] ELSE test[t]
    BY <1>1, <1>4, <2>1 DEF Touch
  <2>3. T = test[t] \/ (test[t] \in TestStates /\ T = [test[t] EXCEPT !.kept = FALSE])
    BY <2>2
  <2>4. ASSUME test[t] \in TestStates, T = test[t], test[t].kept = TRUE,
               test[t].map \in links[test[t].link].maps
        PROVE  test[t].map \in links'[test[t].link].maps
    <3>1. [test[t] EXCEPT !.kept = FALSE] /= test[t]
      BY <2>4 DEF TestStates
    <3>2. ~(test[t].link = l /\ test[t].map \in M)
      BY <2>2, <2>4, <3>1
    <3> QED BY <1>2, <1>4, <2>4, <3>2
  <2>5. CASE test[t] \in TestStates /\ T = test[t]
    <3>1. test[t].kept \in BOOLEAN
      BY <2>5, TableFields
    <3> QED BY <2>1, <2>4, <2>5, <3>1 DEF Keeps
  <2>6. CASE test[t] \in TestStates /\ T = [test[t] EXCEPT !.kept = FALSE]
    <3>1. test'[t].kept = FALSE
      BY <2>1, <2>6 DEF TestStates
    <3> QED BY <3>1 DEF Keeps
  <2>7. CASE test[t] \notin TestStates
    BY <1>1, <2>1, <2>3, <2>7 DEF Keeps
  <2> QED BY <2>3, <2>5, <2>6, <2>7
<1>5. ASSUME NEW L, test' = TouchAll(L), \A k \in LinkIds : k \notin L => links'[k] = links[k]
      PROVE  Keeps(t)'
  <2>1. CASE test[t] \in TestStates /\ test[t].link \in L
    <3>1. test'[t] = [test[t] EXCEPT !.kept = FALSE]
      BY <1>1, <1>5, <2>1 DEF TouchAll
    <3>2. test'[t].kept = FALSE
      BY <2>1, <3>1 DEF TestStates
    <3> QED BY <3>2 DEF Keeps
  <2>2. CASE ~(test[t] \in TestStates /\ test[t].link \in L)
    <3>1. test'[t] = test[t]
      BY <1>1, <1>5, <2>2 DEF TouchAll
    <3> QED BY <1>1, <1>2, <1>5, <2>2, <3>1 DEF Keeps
  <2> QED BY <2>1, <2>2
<1>6. ASSUME Store(a) PROVE Keeps(t)'
  <2>1. PICK l, r : links' = [links EXCEPT ![l] = r] /\ test' = TouchAll({l})
    BY <1>6 DEF Store
  <2>2. \A k \in LinkIds : k \notin {l} => links'[k] = links[k]
    BY <2>1 DEF TableTypeOK
  <2> QED BY <1>5, <2>1, <2>2
<1>7. ASSUME NEW L, Drop(L) PROVE Keeps(t)'
  <2>1. test' = TouchAll(L) /\ \A k \in LinkIds : k \notin L => links'[k] = links[k]
    BY <1>7 DEF Drop
  <2> QED BY <1>5, <2>1
<1>8. ASSUME NEW l \in LinkIds, NEW R, AddPorts(a, l, R) PROVE Keeps(t)'
  <2>1. PICK S : links' = [links EXCEPT ![l].maps = links[l].maps \union S] /\ test' = test
    BY <1>8 DEF AddPorts
  <2>2. \A k \in LinkIds : links[k].maps \subseteq links'[k].maps
    BY <2>1 DEF TableTypeOK, Records
  <2>3. PICK M : M = {}
    OBVIOUS
  <2>4. /\ M \subseteq links[l].maps
        /\ \A k \in LinkIds : links[k].maps \ (IF k = l THEN M ELSE {}) \subseteq links'[k].maps
    BY <2>2, <2>3
  <2> QED BY <1>4, <2>1, <2>3, <2>4
<1>9. ASSUME NEW l \in LinkIds, NEW m \in links[l].maps,
             RemovePort(a, l, m) \/ \E p \in UserPorts : EditPort(a, l, m, p)
      PROVE  Keeps(t)'
  <2>1. PICK S : links' = [links EXCEPT ![l].maps = (links[l].maps \ {m}) \union S]
                 /\ test' = Touch(l, {m})
    <3>1. CASE RemovePort(a, l, m)
      <4>1. links' = [links EXCEPT ![l].maps = (links[l].maps \ {m}) \union {}]
        BY <3>1 DEF RemovePort
      <4> QED BY <3>1, <4>1 DEF RemovePort
    <3>2. CASE \E p \in UserPorts : EditPort(a, l, m, p)
      BY <3>2 DEF EditPort
    <3> QED BY <1>9, <3>1, <3>2
  <2>2. \A k \in LinkIds : links[k].maps \ (IF k = l THEN {m} ELSE {}) \subseteq links'[k].maps
    BY <2>1 DEF TableTypeOK, Records
  <2>3. {m} \subseteq links[l].maps
    OBVIOUS
  <2> QED BY <1>4, <2>1, <2>2, <2>3
<1>10. ASSUME NEW l, NEW N, NEW b, Check(a, l, N, b) PROVE Keeps(t)'
  BY <1>3, <1>10 DEF Check
<1>11. CASE \E n \in Nodes : DeleteNode(a, n)
  BY <1>7, <1>11 DEF DeleteNode
<1>12. CASE \E l \in LinkIds : DeleteLink(a, l)
  BY <1>7, <1>12 DEF DeleteLink
<1> QED BY <1>6, <1>8, <1>9, <1>10, <1>11, <1>12 DEF Administer

OneTest == \A s, t \in Tests : s = t

LEMMA PayloadKeeps ==
  ASSUME TableTypeOK, NEW t \in Tests, \A u \in Tests : u = t, Keeps(t), PayloadTest(t)
  PROVE  Keeps(t)'
<1>1. ASSUME NEW l \in LinkIds, NEW p \in UserPorts, Begin(t, l, p) PROVE Keeps(t)'
  <2>1. PICK m : m = [port |-> p, by |-> t]
    OBVIOUS
  <2>2. test'[t] = [at |-> "running", link |-> l, map |-> m, kept |-> TRUE]
    BY <1>1, <2>1 DEF Begin, TableTypeOK
  <2>3. m \in links'[l].maps
    BY <1>1, <2>1 DEF Begin, TableTypeOK, Records
  <2> QED BY <2>2, <2>3 DEF Keeps
<1>2. ASSUME NEW x \in {NoRequest, Purged}, test' = [test EXCEPT ![t] = x] PROVE Keeps(t)'
  <2>1. test'[t] = x
    BY <1>2 DEF TableTypeOK
  <2> QED BY <2>1, TableFields DEF Keeps
<1> QED BY <1>1, <1>2 DEF PayloadTest, Purge, Refuse, End, Purged

(* One payload test at a time keeps its temporary mapping until it removes *)
(* it, unless an administrator touches the mapping or its link: it takes a *)
(* second test for run payload_tests to find it gone.                      *)
THEOREM OneTestKeepsItsMapping ==
  OneTest => (TableSpec => []RunningTestsKeepTheirs)
<1> SUFFICES ASSUME OneTest PROVE TableSpec => []RunningTestsKeepTheirs
  OBVIOUS
<1> DEFINE J == ApartInv /\ \A t \in Tests : Keeps(t)
<1>1. TableInit => J
  <2>1. TableInit => \A t \in Tests : test[t] = NoRequest
    BY DEF TableInit
  <2> QED BY <2>1, TableInitApart, TableFields DEF Keeps
<1>2. J /\ [TableNext]_tableVars => J'
  <2> SUFFICES ASSUME J, [TableNext]_tableVars PROVE \A t \in Tests : Keeps(t)'
    BY TableStep
  <2>0. TableTypeOK
    BY DEF ApartInv
  <2>1. ASSUME NEW a \in Admins, Administer(a) PROVE \A t \in Tests : Keeps(t)'
    BY <2>0, <2>1, AdministerKeeps
  <2>2. ASSUME NEW t \in Tests, PayloadTest(t) PROVE \A u \in Tests : Keeps(u)'
    <3>1. \A u \in Tests : u = t
      BY DEF OneTest
    <3>2. Keeps(t)'
      BY <2>0, <2>2, <3>1, PayloadKeeps
    <3>3. ASSUME NEW u \in Tests PROVE Keeps(u)'
      BY <3>1, <3>2
    <3> QED BY <3>3
  <2>3. CASE PanelStops
    <3>1. \A t \in Tests : test'[t] = NoRequest
      BY <2>3 DEF PanelStops
    <3> QED BY <3>1, TableFields DEF Keeps
  <2>4. CASE UNCHANGED tableVars
    BY <2>4 DEF tableVars, Keeps
  <2> QED BY <2>1, <2>2, <2>3, <2>4 DEF TableNext
<1>3. J => RunningTestsKeepTheirs
  BY DEF Keeps, RunningTestsKeepTheirs
<1> QED BY <1>1, <1>2, <1>3, PTL DEF TableSpec
=============================================================================
