---------------------------- MODULE VolumeProofs ----------------------------
(***************************************************************************)
(* For any number of calls, servers and sizes: a usable status means that   *)
(* the contents are on the server the row names, a call that has returned   *)
(* has settled the status, and recorded snapshots are whole, whatever was   *)
(* lost, timed out, cut off, restarted or finished late by an agent.        *)
(*                                                                          *)
(* A command outlives its call, so the row alone says nothing of what an    *)
(* agent is still about to do.  The invariant therefore relates three       *)
(* things: the row and the one call that runs (Alone), the disks (Disks: no *)
(* image without contents, no mount without an image, which is what makes a *)
(* restart harmless), and the commands (Good: where a status is usable, or  *)
(* is going to be restored, no move's command is at an agent).  That        *)
(* FinishMove writes "error" after any doubt is what keeps Good inductive.  *)
(* Overlapping calls break Alone; calm says that there were none.           *)
(***************************************************************************)
EXTENDS Volume, TLAPS

(* The statements of each kind of call, and what its command can be at the agent. *)
Shape(c) ==
    /\ call[c].pc = "idle" => call[c] = NoCall /\ cmd[c] = "none"
    /\ call[c].op = "none" => call[c].pc = "idle"
    /\ call[c].pc = "path" => call[c].op = "create"
    /\ call[c].pc = "write" => call[c].op \in {"attach", "detach"}
    /\ call[c].pc = "mark" => call[c].op \in {"move", "snapshot", "resize"}
    /\ call[c].pc = "restore" => call[c].op \in {"snapshot", "resize"}
    /\ call[c].pc \in {"send", "wait", "finish"} =>
          call[c].op \in {"create", "delete", "move", "snapshot", "resize"}
    /\ call[c].pc \in {"path", "write", "mark", "send"} => cmd[c] = "none"
    /\ call[c].pc \in {"path", "write", "mark", "send", "wait"} => call[c].res = "none"
    /\ call[c].res \in Outcomes => cmd[c] = "none"
    /\ call[c].res = "ok" => call[c].pc \in {"finish", "restore", "done", "refused", "cut"}
    /\ cmd[c] \in {"copied", "unmounted"} => call[c].op = "move"
    /\ cmd[c] = "grow" => call[c].op = "resize" /\ call[c].size > 0
    /\ call[c].op = "create" => call[c].size = 1 /\ call[c].server \in Servers
    /\ call[c].op \notin {"create", "none"} =>
          call[c].server \in Servers /\ call[c].prev \in Statuses
    /\ call[c].op = "move" => call[c].target \in Servers /\ call[c].target # call[c].server
    /\ call[c].op \in {"move", "attach", "detach"} => call[c].prev \in Usable
    /\ snap[c] # "none" => call[c].op = "snapshot"

(* Nothing happens before Create, and there is one. *)
Created ==
    /\ row.status = "none" => \A c \in Calls : call[c].pc = "idle"
    /\ row.status # "none" => row.server \in Servers
    /\ \A c, d \in Calls : call[c].op = "create" /\ call[d].op = "create" => c = d

Wiring == (\A c \in Calls : Shape(c)) /\ Created

-----------------------------------------------------------------------------
(* Calls that do not overlap: what the row is while one runs. *)
Alone(c) ==
    /\ \A d \in Calls : Running(d) => d = c
    /\ Exists
    /\ call[c].server = row.server
    /\ call[c].op = "create" =>
          /\ row.status = "unattached" /\ ~row.container
          /\ \A d \in Calls : d # c => call[d].pc = "idle"
    /\ call[c].op # "create" => call[c].path = row.path
    /\ call[c].op = "delete" \/ call[c].pc \in {"mark", "write"} => row.status = call[c].prev
    /\ call[c].op \in {"move", "snapshot", "resize"} /\ call[c].pc # "mark" =>
          row.status = Transient(call[c].op)
    /\ call[c].prev \in Usable => (row.container <=> call[c].prev = "attached")

Transients == {"moving", "snapshotting", "resizing"}

Settled ==
    /\ row.status \in Usable => (row.container <=> row.status = "attached")
    /\ (\A c \in Calls : call[c].pc \notin {"refused", "cut"}) =>
          /\ \A c \in Calls : Running(c) => call[c].prev \notin Transients
          /\ (\A c \in Calls : ~Running(c)) => row.status \notin Transients

Placed(c) ==
    /\ call[c].op = "create" /\ call[c].pc \in {"send", "wait", "finish"} => row.path = "own"
    /\ call[c].op = "create" /\ call[c].pc = "done" /\ call[c].res # "none" =>
          row.path = "own"
    /\ call[c].op = "create" /\ call[c].pc = "done" /\ call[c].res # "none" =>
          \A d \in Calls : d # c /\ call[d].op # "none" => call[d].path = "own"

Disks == \A s \in Servers : /\ disk[s].mnt => disk[s].img > 0
                            /\ disk[s].img > 0 => "img" \in disk[s].files

Orderly ==
    /\ \A c \in Calls : Running(c) => Alone(c)
    /\ Settled
    /\ \A c \in Calls : Placed(c)
    /\ Disks
    /\ \A c \in Calls : call[c].op = "create" /\ Running(c) /\ call[c].res = "ok" =>
          Seen(disk[row.server])

-----------------------------------------------------------------------------
NoMoveUnderWay == \A c \in Calls : call[c].op = "move" => cmd[c] = "none"
Good == Seen(disk[row.server]) /\ NoMoveUnderWay

Moving(c) ==
    /\ call[c].pc \in {"mark", "send"} => Good
    /\ call[c].pc = "wait" =>
          /\ \A d \in Calls : d # c /\ call[d].op = "move" => cmd[d] = "none"
          /\ cmd[c] = "sent" => Seen(disk[call[c].server])
          /\ cmd[c] \in {"copied", "unmounted"} => Seen(disk[call[c].target])
    /\ call[c].pc = "finish" /\ Success(c) =>
          NoMoveUnderWay /\ Seen(disk[call[c].target])

Kept ==
    /\ row.status \in Usable => Good
    /\ \A c \in Calls : Running(c) =>
          /\ call[c].op # "move" /\ call[c].prev \in Usable => Good
          /\ call[c].op = "move" => Moving(c)
    /\ \A c \in Calls : call[c].op = "snapshot" /\ call[c].prev \in Usable =>
          call[c].res # "hollow" /\ snap[c] # "hollow"

IInv ==
    /\ TypeOK
    /\ Wiring
    /\ calm => Orderly
    /\ calm /\ Wanted => Kept

-----------------------------------------------------------------------------
Jobs == [op : Ops \union {"none"}, pc : Active \union Over,
         prev : Statuses \union {"none", "deleted"}, server : Servers \union {NoServer},
         path : {"/", "own"}, target : Servers \union {NoServer},
         size : 0..MaxSize, res : Outcomes \union {"none", "error"}]

Rows == [status : Statuses \union {"none", "deleted"}, server : Servers \union {NoServer},
         path : {"/", "own"}, size : 0..MaxSize, container : BOOLEAN]

Disk == [img : 0..MaxSize, mnt : BOOLEAN, dir : BOOLEAN, files : SUBSET {"img", "dir"}]

(* Call c goes on, with the arguments and readings that it had. *)
Moved(c, pc, res) ==
    /\ call'[c].pc = pc /\ call'[c].res = res
    /\ call'[c].op = call[c].op /\ call'[c].prev = call[c].prev
    /\ call'[c].server = call[c].server /\ call'[c].path = call[c].path
    /\ call'[c].target = call[c].target /\ call'[c].size = call[c].size
    /\ \A d \in Calls : d # c => call'[d] = call[d]

(* A call moves on to its next statement. *)
LEMMA GotoEffect ==
    ASSUME TypeOK, NEW c \in Calls, NEW pc \in Active \union Over, Goto(c, pc)
    PROVE  call' \in [Calls -> Jobs] /\ Moved(c, pc, call[c].res)
<1> DEFINE j == [call[c] EXCEPT !.pc = pc]
<1>1. call \in [Calls -> Jobs] /\ call[c] \in Jobs
  BY DEF TypeOK, Jobs
<1>2. /\ j \in Jobs /\ j.pc = pc /\ j.res = call[c].res
      /\ j.op = call[c].op /\ j.prev = call[c].prev /\ j.server = call[c].server
      /\ j.path = call[c].path /\ j.target = call[c].target /\ j.size = call[c].size
  BY <1>1 DEF Jobs
<1>3. call' = [call EXCEPT ![c] = j]
  BY DEF Goto
<1> HIDE DEF j
<1>4. call' \in [Calls -> Jobs] /\ call'[c] = j /\ \A d \in Calls : d # c => call'[d] = call[d]
  BY <1>1, <1>2, <1>3
<1> QED BY <1>2, <1>4 DEF Moved

(* dispatch returns. *)
LEMMA EndEffect ==
    ASSUME TypeOK, NEW c \in Calls, NEW res \in Outcomes \union {"none", "error"}, End(c, res)
    PROVE  call' \in [Calls -> Jobs] /\ Moved(c, "finish", res)
<1> DEFINE j == [[call[c] EXCEPT !.pc = "finish"] EXCEPT !.res = res]
<1>1. call \in [Calls -> Jobs] /\ call[c] \in Jobs
  BY DEF TypeOK, Jobs
<1>2. /\ j \in Jobs /\ j.pc = "finish" /\ j.res = res
      /\ j.op = call[c].op /\ j.prev = call[c].prev /\ j.server = call[c].server
      /\ j.path = call[c].path /\ j.target = call[c].target /\ j.size = call[c].size
  BY <1>1 DEF Jobs, Active
<1>3. call' = [call EXCEPT ![c] = j]
  BY <1>1 DEF End
<1> HIDE DEF j
<1>4. call' \in [Calls -> Jobs] /\ call'[c] = j /\ \A d \in Calls : d # c => call'[d] = call[d]
  BY <1>1, <1>2, <1>3
<1> QED BY <1>2, <1>4 DEF Moved

(* An answer ends the command, and the call if it still waits. *)
LEMMA AnswerEffect ==
    ASSUME TypeOK, NEW c \in Calls, NEW o \in Outcomes, Answer(c, o)
    PROVE  /\ call' \in [Calls -> Jobs]
           /\ call' = call \/ (call[c].pc = "wait" /\ Moved(c, "finish", o))
           /\ cmd' \in [Calls -> {"none", "sent", "copied", "unmounted", "grow"}]
           /\ cmd'[c] = "none" /\ \A d \in Calls : d # c => cmd'[d] = cmd[d]
<1>1. call' = call \/ (call[c].pc = "wait" /\ Moved(c, "finish", o) /\ call' \in [Calls -> Jobs])
  BY EndEffect DEF Answer, HandleResult
<1>2. call \in [Calls -> Jobs]
  BY DEF TypeOK, Jobs
<1> QED BY <1>1, <1>2 DEF Answer, TypeOK

(* A step changes the disk of one server. *)
LEMMA SetDiskEffect ==
    ASSUME TypeOK, NEW s \in Servers, NEW d \in Disk, SetDisk(s, d)
    PROVE  /\ disk' \in [Servers -> Disk] /\ disk'[s] = d
           /\ \A t \in Servers : t # s => disk'[t] = disk[t]
BY DEF TypeOK, SetDisk, Disk

(* A call begins with what it reads of the row. *)
LEMMA BeginEffect ==
    ASSUME TypeOK, NEW c \in Calls, NEW new \in Jobs, Begin(c, new)
    PROVE  /\ call' \in [Calls -> Jobs] /\ call'[c] = new
           /\ \A d \in Calls : d # c => call'[d] = call[d]
           /\ call[c].pc = "idle"
           /\ calm' \in BOOLEAN /\ (calm' => calm /\ \A d \in Calls : ~Running(d))
           /\ UNCHANGED <<cmd, disk, snap>>
<1>1. call' \in [Calls -> Jobs] /\ call'[c] = new /\ \A d \in Calls : d # c => call'[d] = call[d]
  BY DEF Begin, TypeOK, Jobs
<1>2. calm' \in BOOLEAN /\ (calm' => calm /\ \A d \in Calls : ~Running(d))
  BY DEF Begin, TypeOK
<1> QED BY <1>1, <1>2 DEF Begin

(* Mounted and Remounted leave a disk a disk. *)
LEMMA DiskOps ==
    ASSUME NEW d \in Disk, NEW size \in 0..MaxSize
    PROVE  /\ Mounted(d, size) \in Disk /\ Remounted(d) \in Disk
           /\ [d EXCEPT !.dir = TRUE] \in Disk /\ [d EXCEPT !.mnt = FALSE] \in Disk
           /\ [d EXCEPT !.img = size] \in Disk
           /\ [Mounted(d, size) EXCEPT !.mnt = d.mnt] \in Disk
           /\ NoDisk \in Disk /\ [NoDisk EXCEPT !.dir = TRUE] \in Disk
<1>1. /\ [d EXCEPT !.dir = TRUE] \in Disk /\ [d EXCEPT !.mnt = FALSE] \in Disk
      /\ [d EXCEPT !.img = size] \in Disk /\ Remounted(d) \in Disk
  BY DEF Disk, Remounted
<1>2. /\ d.img \in 0..MaxSize /\ d.mnt \in BOOLEAN /\ d.files \union {"img"} \in SUBSET {"img", "dir"}
  BY DEF Disk
<1>3. Mounted(d, size) \in Disk
  BY <1>2 DEF Disk, Mounted
<1>4. [Mounted(d, size) EXCEPT !.mnt = d.mnt] \in Disk
  BY <1>2, <1>3 DEF Disk
<1>5. NoDisk \in Disk /\ [NoDisk EXCEPT !.dir = TRUE] \in Disk
  <2>1. 0 \in 0..MaxSize
    BY VolumeAssumption
  <2>2. NoDisk \in Disk
    BY <2>1 DEF Disk, NoDisk
  <2> QED BY <2>2 DEF Disk
<1> QED BY <1>1, <1>3, <1>4, <1>5

(* What an agent that has created and mounted an image leaves behind. *)
LEMMA MountedDisk ==
    ASSUME NEW d \in Disk, NEW size \in 0..MaxSize
    PROVE  LET m == Mounted(d, size)
           IN  /\ m.mnt /\ m.img = (IF d.img = 0 THEN size ELSE d.img) /\ "img" \in m.files
               /\ [m EXCEPT !.mnt = d.mnt].mnt = d.mnt
               /\ [m EXCEPT !.mnt = d.mnt].img = m.img
               /\ [m EXCEPT !.mnt = d.mnt].files = m.files
<1> DEFINE n == IF d.img = 0 THEN size ELSE d.img
           f == d.files \union {"img"}
           d1 == [d EXCEPT !.dir = TRUE]
           d2 == [d1 EXCEPT !.mnt = TRUE]
           d3 == [d2 EXCEPT !.img = n]
           d4 == [d3 EXCEPT !.files = f]
<1>1. Mounted(d, size) = d4
  BY DEF Mounted
<1>2. n \in 0..MaxSize /\ f \in SUBSET {"img", "dir"} /\ "img" \in f
  BY DEF Disk
<1> HIDE DEF n, f
<1>3. d1 \in Disk
  BY DEF Disk
<1> HIDE DEF d1
<1>4. d2 \in Disk /\ d2.mnt
  BY <1>3 DEF Disk
<1> HIDE DEF d2
<1>5. d3 \in Disk /\ d3.mnt /\ d3.img = n
  BY <1>2, <1>4 DEF Disk
<1> HIDE DEF d3
<1>6. d4 \in Disk /\ d4.mnt /\ d4.img = n /\ d4.files = f
  BY <1>2, <1>5 DEF Disk
<1> HIDE DEF d4
<1> QED BY <1>1, <1>2, <1>6 DEF Disk, n

(* What a call that begins is. *)
NewCall(j, op, pc) ==
    /\ j \in Jobs /\ j.op = op /\ j.pc = pc /\ j.res = "none"

(* GetVolume hands the call the row as it is. *)
LEMMA GetVolumeReads ==
    ASSUME TypeOK, NEW op \in Ops, NEW pc \in Active
    PROVE  LET j == GetVolume(op, pc)
           IN  /\ NewCall(j, op, pc) /\ j.prev = row.status
               /\ j.server = row.server /\ j.path = row.path
<1> DEFINE j0 == NoCall
           j1 == [j0 EXCEPT !.op = op]
           j2 == [j1 EXCEPT !.pc = pc]
           j3 == [j2 EXCEPT !.prev = row.status]
           j4 == [j3 EXCEPT !.server = row.server]
           j5 == [j4 EXCEPT !.path = row.path]
<1>1. /\ row.status \in Statuses \union {"none", "deleted"}
      /\ row.server \in Servers \union {NoServer} /\ row.path \in {"/", "own"}
  BY DEF TypeOK
<1>2. GetVolume(op, pc) = j5
  BY DEF GetVolume
<1>3. 0 \in 0..MaxSize
  BY VolumeAssumption
<1>4. j0 \in Jobs /\ j0.res = "none"
  BY <1>3 DEF NoCall, Jobs, Over
<1> HIDE DEF j0
<1>5. j1 \in Jobs /\ j1.res = "none" /\ j1.op = op
  BY <1>4 DEF Jobs
<1> HIDE DEF j1
<1>6. j2 \in Jobs /\ j2.res = "none" /\ j2.op = op /\ j2.pc = pc
  BY <1>5 DEF Jobs
<1> HIDE DEF j2
<1>7. j3 \in Jobs /\ j3.res = "none" /\ j3.op = op /\ j3.pc = pc /\ j3.prev = row.status
  BY <1>1, <1>6 DEF Jobs
<1> HIDE DEF j3
<1>8. /\ j4 \in Jobs /\ j4.res = "none" /\ j4.op = op /\ j4.pc = pc /\ j4.prev = row.status
      /\ j4.server = row.server
  BY <1>1, <1>7 DEF Jobs
<1> HIDE DEF j4
<1>9. /\ j5 \in Jobs /\ j5.res = "none" /\ j5.op = op /\ j5.pc = pc /\ j5.prev = row.status
      /\ j5.server = row.server /\ j5.path = row.path
  BY <1>1, <1>8 DEF Jobs
<1> QED BY <1>2, <1>9 DEF NewCall

(* UPDATE of the status alone. *)
LEMMA StatusEffect ==
    ASSUME TypeOK, NEW st \in Statuses \union {"none", "deleted"}, SetStatus(st)
    PROVE  /\ row' \in Rows /\ row'.status = (IF Exists THEN st ELSE row.status)
           /\ row'.server = row.server /\ row'.path = row.path
           /\ row'.container = row.container
<1>1. row \in Rows
  BY DEF TypeOK, Rows
<1>2. CASE Exists
  BY <1>1, <1>2 DEF SetStatus, Rows
<1>3. CASE ~Exists
  BY <1>1, <1>3 DEF SetStatus, Rows
<1> QED BY <1>2, <1>3

-----------------------------------------------------------------------------
(* What a call is depends on no other call. *)
LEMMA ShapeKept ==
    ASSUME NEW c, Shape(c), call'[c] = call[c],
           cmd'[c] \in {cmd[c], "none"}, snap'[c] \in {snap[c], "none"}
    PROVE  Shape(c)'
BY DEF Shape, Success

(* Created stays when a call that has begun goes on. *)
LEMMA CreatedKept ==
    ASSUME Created, NEW c \in Calls, call[c].pc # "idle",
           row'.status # "none", row'.server \in Servers, call'[c].op = call[c].op,
           \A d \in Calls : d # c => call'[d] = call[d]
    PROVE  Created'
BY DEF Created

(* A step of one call is checked on that call. *)
LEMMA WiringKept ==
    ASSUME Wiring, NEW c \in Calls, call[c].pc # "idle", Shape(c)',
           row'.status # "none", row'.server \in Servers, call'[c].op = call[c].op,
           \A d \in Calls : d # c => /\ call'[d] = call[d] /\ cmd'[d] = cmd[d]
                                    /\ snap'[d] \in {snap[d], "none"}
    PROVE  Wiring'
<1>1. Created'
  BY CreatedKept DEF Wiring
<1>2. \A d \in Calls : Shape(d)'
  BY ShapeKept DEF Wiring
<1> QED BY <1>1, <1>2 DEF Wiring

(* A statement of call c, seen by the invariant: what is left to show of it is
   about the call itself, since no other one runs. *)
Going(c) ==
    /\ call[c].pc \in Active /\ call'[c].op = call[c].op
    /\ \A d \in Calls : d # c => /\ call'[d] = call[d] /\ cmd'[d] = cmd[d]
                               /\ snap'[d] \in {snap[d], "none"}
    /\ disk' = disk /\ calm' = calm

(* Reduces a statement of call c to what it does to the row and to c. *)
LEMMA CallStepKeeps ==
    ASSUME IInv, NEW c \in Calls, TypeOK', Going(c), Shape(c)',
           row.status # "none" /\ row.server \in Servers =>
              row'.status # "none" /\ row'.server \in Servers,
           Orderly /\ Alone(c) => /\ Running(c)' => Alone(c)'
                                 /\ Settled'
                                 /\ \A d \in Calls : Placed(d)'
                                 /\ (call[c].op = "create" /\ Running(c) /\ call[c].res = "ok" =>
                                        Seen(disk[row.server]))'
           ,
           Orderly /\ Alone(c) /\ Wanted' /\ (Wanted => Kept) => Kept'
    PROVE  IInv'
<1>1. Wiring'
  <2>1. row.status # "none" /\ row.server \in Servers /\ call[c].pc # "idle"
    BY DEF IInv, Wiring, Created, Active, Going
  <2> QED BY <2>1, WiringKept DEF IInv, Going
<1>2. ASSUME calm PROVE Orderly /\ Alone(c)
  BY <1>2 DEF IInv, Orderly, Running, Going
<1>3. ASSUME calm' PROVE Orderly'
  <2>0. Orderly /\ Alone(c)
    BY <1>2, <1>3 DEF Going
  <2>1. \A d \in Calls : Running(d)' => d = c
    BY <2>0 DEF Orderly, Alone, Running, Going
  <2>2. Disks'
    BY <2>0 DEF Orderly, Disks, Going
  <2> QED BY <2>0, <2>1, <2>2 DEF Orderly
<1>4. ASSUME calm', Wanted' PROVE Kept'
  BY <1>2, <1>4 DEF IInv, Going
<1> QED BY <1>1, <1>3, <1>4 DEF IInv

(* A client that goes away leaves the row as it stands. *)
LEMMA CutOffKeeps ==
    ASSUME IInv, NEW c \in Calls, CutOff(c)
    PROVE  IInv'
<1>1. call' \in [Calls -> Jobs] /\ Moved(c, "cut", call[c].res)
  BY GotoEffect DEF CutOff, IInv, Over
<1>2. row' = row /\ cmd' = cmd /\ disk' = disk /\ snap' = snap /\ calm' = calm
  BY DEF CutOff
<1>3. TypeOK' /\ Going(c) /\ ~Running(c)'
  BY <1>1, <1>2 DEF IInv, TypeOK, Jobs, Going, CutOff, Running, Moved, Active
<1>4. Shape(c)'
  BY <1>1, <1>2 DEF IInv, Wiring, Shape, Moved, Active, CutOff, Running
<1>5. ASSUME Orderly, Alone(c) PROVE Settled' /\ \A d \in Calls : Placed(d)'
  BY <1>1, <1>2, <1>5 DEF Orderly, Settled, Placed, Moved, Running
<1>6. ASSUME Orderly, Alone(c), Wanted', Wanted => Kept PROVE Kept'
  <2>1. Kept
    BY <1>1, <1>6 DEF Wanted, CreatedOk, At, Moved
  <2>2. Good => Good'
    BY <1>1, <1>2 DEF Good, NoMoveUnderWay, Seen, Moved
  <2>3. \A d \in Calls : ~Running(d)'
    BY <1>3, <1>6 DEF Orderly, Alone, Running, Going
  <2> QED BY <1>1, <1>2, <2>1, <2>2, <2>3 DEF Kept, Moved
<1> QED BY <1>2, <1>3, <1>4, <1>5, <1>6, CallStepKeeps

(* A refused statement leaves the row as it stands: settled still, if none had
   marked it, and otherwise the call counts as refused. *)
LEMMA StatementRefusedKeeps ==
    ASSUME IInv, NEW c \in Calls, StatementRefused(c)
    PROVE  IInv'
<1> DEFINE marked == \/ call[c].pc = "restore"
                     \/ call[c].pc = "finish" /\ call[c].op \in {"move", "resize"}
           pc == IF marked THEN "refused" ELSE "done"
<1>1. call' \in [Calls -> Jobs] /\ Moved(c, pc, call[c].res)
  <2>1. Goto(c, pc)
    BY DEF StatementRefused, At
  <2> QED BY <2>1, GotoEffect DEF IInv, Over
<1>2. /\ row' = row /\ cmd' = cmd /\ disk' = disk /\ snap' = snap /\ calm' = calm
      /\ call[c].pc \in Active
      /\ \/ marked
         \/ call[c].pc \in {"path", "write", "mark"}
         \/ call[c].pc = "finish" /\ call[c].op = "create" /\ call[c].res = "error"
         \/ call[c].pc = "finish" /\ call[c].op = "delete"
  BY DEF StatementRefused, At, Active
<1>3. TypeOK' /\ Going(c) /\ ~Running(c)'
  BY <1>1, <1>2 DEF IInv, TypeOK, Jobs, Going, Running, Moved, Active
<1>4. Shape(c)'
  BY <1>1, <1>2 DEF IInv, Wiring, Shape, Moved, Active
<1>5. ASSUME Orderly, Alone(c) PROVE Settled' /\ \A d \in Calls : Placed(d)'
  <2>1. marked \/ call[c].op = "create" \/ row.status = call[c].prev
    BY <1>2, <1>5 DEF Alone, IInv, Wiring, Shape
  <2>2. Settled'
    <3>1. (\A d \in Calls : call'[d].pc \notin {"refused", "cut"}) =>
              ~marked /\ \A d \in Calls : call[d].pc \notin {"refused", "cut"}
      BY <1>1, <1>2 DEF Moved, Active
    <3>2. ~marked => row.status \notin Transients \/ \E d \in Calls : call[d].pc \in {"refused", "cut"}
      BY <1>2, <1>5, <2>1 DEF Orderly, Settled, Alone, Running, Transients
    <3> QED BY <1>1, <1>2, <1>3, <1>5, <3>1, <3>2 DEF Orderly, Settled, Alone, Running, Going
  <2>3. \A d \in Calls : Placed(d)'
    <3>1. ASSUME NEW d \in Calls, d # c PROVE Placed(d)'
      BY <1>1, <1>2, <1>5, <3>1 DEF Orderly, Placed, Moved
    <3>2. CASE call[c].op # "create"
      BY <1>1, <3>1, <3>2 DEF Placed, Moved
    <3>3. CASE call[c].op = "create"
      <4>1. \A d \in Calls : d # c => call[d].op = "none"
        BY <1>5, <3>3 DEF Alone, IInv, Wiring, Shape, NoCall
      <4>2. ~marked /\ (call[c].res = "none" \/ row.path = "own")
        BY <1>2, <1>5, <3>3 DEF Orderly, Placed, IInv, Wiring, Shape
      <4> QED BY <1>1, <1>2, <3>1, <3>3, <4>1, <4>2 DEF Placed, Moved
    <3> QED BY <3>2, <3>3
  <2> QED BY <2>2, <2>3
<1>6. ASSUME Orderly, Alone(c), Wanted', Wanted => Kept PROVE Kept'
  <2>1. Kept
    BY <1>1, <1>2, <1>6 DEF Wanted, CreatedOk, At, Moved, IInv, Wiring, Shape
  <2>2. Good => Good'
    BY <1>1, <1>2 DEF Good, NoMoveUnderWay, Seen, Moved
  <2>3. \A d \in Calls : ~Running(d)'
    BY <1>3, <1>6 DEF Orderly, Alone, Running, Going
  <2> QED BY <1>1, <1>2, <2>1, <2>2, <2>3 DEF Kept, Moved
<1> QED BY <1>2, <1>3, <1>4, <1>5, <1>6, CallStepKeeps

(* dispatch: the command is sent or not, the call waits or gives up. *)
LEMMA DispatchKeeps ==
    ASSUME IInv, NEW c \in Calls, Dispatch(c) \/ DispatchFails(c) \/ TimesOut(c)
    PROVE  IInv'
<1> DEFINE pc == IF Dispatch(c) THEN "wait" ELSE "finish"
           res == IF Dispatch(c) THEN call[c].res ELSE "error"
<1>1. /\ call' \in [Calls -> Jobs] /\ Moved(c, pc, res)
      /\ row' = row /\ disk' = disk /\ snap' = snap /\ calm' = calm
      /\ cmd' \in [Calls -> {"none", "sent", "copied", "unmounted", "grow"}]
      /\ \A d \in Calls : d # c => cmd'[d] = cmd[d]
      /\ call[c].pc \in {"send", "wait"}
  <2>1. CASE Dispatch(c)
    BY <2>1, GotoEffect DEF Dispatch, IInv, TypeOK, Active
  <2>2. CASE ~Dispatch(c)
    BY <2>2, EndEffect DEF DispatchFails, TimesOut, IInv, TypeOK
  <2> QED BY <2>1, <2>2
<1>2. \/ pc = "wait" /\ res = "none" /\ cmd'[c] = "sent" /\ call[c].pc = "send"
      \/ pc = "finish" /\ res = "error" /\ cmd'[c] = cmd[c]
  BY DEF Dispatch, DispatchFails, TimesOut, IInv, TypeOK, Wiring, Shape
<1> HIDE DEF pc, res
<1>3. TypeOK' /\ Going(c)
  BY <1>1 DEF IInv, TypeOK, Jobs, Going, Moved, Active
<1>4. Shape(c)'
  BY <1>1, <1>2 DEF IInv, Wiring, Shape, Moved, Outcomes
<1>5. ASSUME Orderly, Alone(c)
      PROVE  /\ Alone(c)' /\ Settled' /\ call'[c].res # "ok"
             /\ \A d \in Calls : Placed(d)'
  <2>1. \A d \in Calls : Running(d)' <=> Running(d)
    BY <1>1, <1>2 DEF Moved, Running, Active
  <2>2. Alone(c)'
    BY <1>1, <1>2, <1>5, <2>1 DEF Alone, Moved, Exists
  <2>3. Settled'
    BY <1>1, <1>2, <1>5, <2>1 DEF Orderly, Settled, Moved
  <2>4. \A d \in Calls : Placed(d)'
    BY <1>1, <1>2, <1>5 DEF Orderly, Placed, Moved
  <2> QED BY <1>1, <1>2, <2>2, <2>3, <2>4 DEF Moved
<1>6. ASSUME Orderly, Alone(c), Wanted', Wanted => Kept PROVE Kept'
  <2>1. Kept
    BY <1>1, <1>2, <1>6 DEF Wanted, CreatedOk, At, Moved
  <2>2. \A d \in Calls : Running(d)' => d = c
    BY <1>3, <1>6 DEF Orderly, Alone, Running, Going
  <2>3. Running(c)
    BY <1>3 DEF Going, Running
  <2>4. CASE call[c].op = "move"
    <3>1. row.status \notin Usable
      BY <1>1, <1>6, <2>4 DEF Alone, Transient, Usable
    <3>2. Moving(c)'
      BY <1>1, <1>2, <1>6, <2>1, <2>3, <2>4 DEF Kept, Moving, Moved, Good, NoMoveUnderWay, Alone,
         Success
    <3> QED BY <1>1, <1>2, <2>1, <2>2, <2>4, <3>1, <3>2 DEF Kept, Moved
  <2>5. CASE call[c].op # "move"
    <3>1. Good => Good'
      BY <1>1, <2>5 DEF Good, NoMoveUnderWay, Moved, Seen
    <3> QED BY <1>1, <1>2, <2>1, <2>2, <2>3, <2>5, <3>1 DEF Kept, Moved
  <2> QED BY <2>4, <2>5
<1> QED BY <1>1, <1>3, <1>4, <1>5, <1>6, CallStepKeeps DEF Moved

(* Create stores the path, before anything else is asked of the volume. *)
LEMMA UpdateVolumeHostPathKeeps ==
    ASSUME IInv, NEW c \in Calls, UpdateVolumeHostPath(c)
    PROVE  IInv'
<1> DEFINE j == [[call[c] EXCEPT !.pc = "send"] EXCEPT !.path = "own"]
<1>1. row \in Rows /\ call \in [Calls -> Jobs] /\ call[c] \in Jobs
  BY DEF IInv, TypeOK, Rows, Jobs
<1>2. /\ j \in Jobs /\ j.pc = "send" /\ j.path = "own" /\ j.op = call[c].op
      /\ j.res = call[c].res /\ j.prev = call[c].prev /\ j.server = call[c].server
      /\ j.target = call[c].target /\ j.size = call[c].size
  BY <1>1 DEF Jobs, Active
<1>3. call' = [call EXCEPT ![c] = j]
  BY <1>1 DEF UpdateVolumeHostPath
<1> HIDE DEF j
<1>4. call' \in [Calls -> Jobs] /\ call'[c] = j /\ \A d \in Calls : d # c => call'[d] = call[d]
  BY <1>1, <1>2, <1>3
<1>5. /\ row' \in Rows /\ row'.status = row.status /\ row'.server = row.server
      /\ row'.container = row.container /\ (Exists => row'.path = "own")
  BY <1>1 DEF UpdateVolumeHostPath, Rows
<1>6. /\ cmd' = cmd /\ disk' = disk /\ snap' = snap /\ calm' = calm
      /\ call[c].op = "create" /\ call[c].pc = "path"
  BY DEF UpdateVolumeHostPath, At
<1>7. TypeOK' /\ Going(c)
  BY <1>2, <1>4, <1>5, <1>6 DEF IInv, TypeOK, Jobs, Rows, Going, Active
<1>8. Shape(c)'
  BY <1>2, <1>4, <1>6 DEF IInv, Wiring, Shape
<1>9. ASSUME Orderly, Alone(c)
      PROVE  /\ Alone(c)' /\ Settled' /\ call'[c].res # "ok"
             /\ \A d \in Calls : Placed(d)'
  <2>1. \A d \in Calls : Running(d)' <=> Running(d)
    BY <1>2, <1>4, <1>6 DEF Running, Active
  <2>2. \A d \in Calls : d # c => call[d].op = "none"
    BY <1>6, <1>9 DEF Alone, IInv, Wiring, Shape, NoCall
  <2>3. Alone(c)'
    BY <1>2, <1>4, <1>5, <1>6, <1>9, <2>1 DEF Alone, Exists
  <2>4. Settled'
    BY <1>2, <1>4, <1>5, <1>6, <1>9, <2>1 DEF Orderly, Settled
  <2>5. \A d \in Calls : Placed(d)'
    BY <1>2, <1>4, <1>5, <1>9, <2>2 DEF Alone, Placed
  <2>6. call[c].res = "none"
    BY <1>6 DEF IInv, Wiring, Shape
  <2> QED BY <1>2, <1>4, <2>3, <2>4, <2>5, <2>6
<1>10. ~Wanted'
  BY <1>2, <1>4, <1>6 DEF IInv, Wiring, Created, Wanted, CreatedOk, At
<1> QED BY <1>5, <1>7, <1>8, <1>9, <1>10, CallStepKeeps

(* Attach and Detach write the status and the container together. *)
LEMMA UpdateVolumeAttachmentKeeps ==
    ASSUME IInv, NEW c \in Calls, UpdateVolumeAttachment(c)
    PROVE  IInv'
<1>1. call' \in [Calls -> Jobs] /\ Moved(c, "done", call[c].res)
  BY GotoEffect DEF UpdateVolumeAttachment, IInv, Over
<1>2. /\ cmd' = cmd /\ disk' = disk /\ snap' = snap /\ calm' = calm
      /\ call[c].op \in {"attach", "detach"} /\ call[c].pc = "write"
  BY DEF UpdateVolumeAttachment, At
<1>3. row \in Rows
  BY DEF IInv, TypeOK, Rows
<1>4. /\ row' \in Rows /\ row'.server = row.server /\ row'.path = row.path
      /\ Exists => row'.status = IF call[c].op = "attach" THEN "attached" ELSE "unattached"
      /\ Exists => (row'.container <=> call[c].op = "attach")
      /\ row.status # "none" => row'.status # "none"
  BY <1>3 DEF UpdateVolumeAttachment, Rows, Exists, Statuses, Usable
<1>5. TypeOK' /\ Going(c) /\ ~Running(c)'
  BY <1>1, <1>2, <1>4 DEF IInv, TypeOK, Jobs, Rows, Going, Running, Moved, Active
<1>6. Shape(c)'
  BY <1>1, <1>2 DEF IInv, Wiring, Shape, Moved
<1>7. ASSUME Orderly, Alone(c) PROVE Settled' /\ \A d \in Calls : Placed(d)'
  <2>1. row'.status \in Usable /\ (row'.container <=> row'.status = "attached")
    BY <1>4, <1>7 DEF Alone, Usable
  <2>2. \A d \in Calls : ~Running(d)'
    BY <1>5, <1>7 DEF Orderly, Alone, Running, Going
  <2>3. Settled'
    BY <2>1, <2>2 DEF Settled, Transients, Usable
  <2> QED BY <1>1, <1>2, <1>4, <1>7, <2>3 DEF Orderly, Placed, Moved
<1>8. ASSUME Orderly, Alone(c), Wanted', Wanted => Kept PROVE Kept'
  <2>1. Kept
    BY <1>1, <1>2, <1>8 DEF Wanted, CreatedOk, At, Moved
  <2>2. \A d \in Calls : ~Running(d)'
    BY <1>5, <1>8 DEF Orderly, Alone, Running, Going
  <2>3. Good
    BY <1>2, <2>1 DEF Kept, IInv, Wiring, Shape, Running, Active
  <2>4. Good'
    BY <1>1, <1>2, <1>4, <2>3 DEF Good, NoMoveUnderWay, Seen, Moved
  <2> QED BY <1>1, <1>2, <2>1, <2>2, <2>4 DEF Kept, Moved
<1> QED BY <1>4, <1>5, <1>6, <1>7, <1>8, CallStepKeeps

(* A move, a snapshot or a resize puts its own status in the row. *)
LEMMA MarkStatusKeeps ==
    ASSUME IInv, NEW c \in Calls, MarkStatus(c)
    PROVE  IInv'
<1> DEFINE pc == IF Exists THEN "send" ELSE "done"
<1>1. call[c].op \in {"move", "snapshot", "resize"} /\ call[c].pc = "mark"
  BY DEF MarkStatus, IInv, Wiring, Shape
<1>2. Transient(call[c].op) \in Transients
  BY <1>1 DEF Transient, Transients
<1>3. call' \in [Calls -> Jobs] /\ Moved(c, pc, call[c].res)
  BY GotoEffect DEF MarkStatus, IInv, Active, Over
<1>4. cmd' = cmd /\ disk' = disk /\ snap' = snap /\ calm' = calm
  BY DEF MarkStatus
<1>5. /\ row' \in Rows /\ row'.server = row.server /\ row'.path = row.path
      /\ row'.container = row.container
      /\ row'.status = IF Exists THEN Transient(call[c].op) ELSE row.status
  BY <1>2, StatusEffect DEF MarkStatus, IInv, Statuses, Transients
<1>6. TypeOK' /\ Going(c)
  BY <1>1, <1>3, <1>4, <1>5 DEF IInv, TypeOK, Jobs, Rows, Going, Moved, Active
<1>7. Shape(c)'
  BY <1>1, <1>3, <1>4 DEF IInv, Wiring, Shape, Moved
<1>8. row.status # "none" => row'.status # "none"
  BY <1>2, <1>5 DEF Transients
<1>9. ASSUME Orderly, Alone(c)
      PROVE  /\ pc = "send" /\ row'.status = Transient(call[c].op) /\ Running(c)
             /\ \A d \in Calls : Running(d)' <=> Running(d)
  BY <1>1, <1>3, <1>5, <1>9 DEF Alone, Moved, Running, Active
<1> HIDE DEF pc
<1>10. ASSUME Orderly, Alone(c)
       PROVE  /\ Alone(c)' /\ Settled' /\ call'[c].op # "create"
              /\ \A d \in Calls : Placed(d)'
  <2>1. Exists'
    BY <1>2, <1>9, <1>10 DEF Exists, Transients
  <2>2. Alone(c)'
    BY <1>1, <1>3, <1>5, <1>9, <1>10, <2>1 DEF Alone, Moved
  <2>3. row'.status \notin Usable
    BY <1>2, <1>9, <1>10 DEF Transients, Usable
  <2>4. Settled'
    BY <1>1, <1>3, <1>9, <1>10, <2>3 DEF Orderly, Settled, Moved
  <2>5. \A d \in Calls : Placed(d)'
    BY <1>1, <1>3, <1>5, <1>10 DEF Orderly, Placed, Moved
  <2> QED BY <1>1, <1>3, <2>2, <2>4, <2>5 DEF Moved
<1>11. ASSUME Orderly, Alone(c), Wanted', Wanted => Kept PROVE Kept'
  <2>1. Kept
    BY <1>1, <1>3, <1>11 DEF Wanted, CreatedOk, At, Moved
  <2>2. Good => Good'
    BY <1>3, <1>4, <1>5 DEF Good, NoMoveUnderWay, Seen, Moved
  <2>3. row'.status \notin Usable
    BY <1>2, <1>9, <1>11 DEF Transients, Usable
  <2>4. call[c].op = "move" => Moving(c)'
    BY <1>1, <1>3, <1>9, <1>11, <2>1, <2>2 DEF Kept, Moving, Moved
  <2>5. \A d \in Calls : Running(d) => d = c
    BY <1>11 DEF Alone
  <2> QED BY <1>3, <1>4, <1>9, <1>11, <2>1, <2>2, <2>3, <2>4, <2>5 DEF Kept, Moved
<1> QED BY <1>5, <1>6, <1>7, <1>8, <1>10, <1>11, CallStepKeeps

(* Create's last statement: from here on the volume is wanted, if the agent
   has confirmed it. *)
LEMMA FinishCreateKeeps ==
    ASSUME IInv, NEW c \in Calls, FinishCreate(c)
    PROVE  IInv'
<1>1. call' \in [Calls -> Jobs] /\ Moved(c, "done", call[c].res)
  BY GotoEffect DEF FinishCreate, IInv, Over
<1>2. /\ cmd' = cmd /\ disk' = disk /\ snap' = snap /\ calm' = calm
      /\ call[c].op = "create" /\ call[c].pc = "finish"
  BY DEF FinishCreate, At
<1>3. /\ row' \in Rows /\ row'.server = row.server /\ row'.path = row.path
      /\ row'.container = row.container
      /\ row'.status \in {row.status, "error"}
      /\ call[c].res # "error" => row' = row
  <2>1. row \in Rows
    BY DEF IInv, TypeOK, Rows
  <2>2. CASE call[c].res = "error"
    BY <2>2, StatusEffect DEF FinishCreate, IInv, Statuses
  <2>3. CASE call[c].res # "error"
    BY <2>1, <2>3 DEF FinishCreate
  <2> QED BY <2>2, <2>3
<1>4. TypeOK' /\ Going(c) /\ ~Running(c)'
  BY <1>1, <1>2, <1>3 DEF IInv, TypeOK, Jobs, Rows, Going, Running, Moved, Active
<1>5. Shape(c)'
  BY <1>1, <1>2 DEF IInv, Wiring, Shape, Moved
<1>6. ASSUME Orderly, Alone(c)
      PROVE  /\ \A d \in Calls : d # c => call[d].op = "none" /\ cmd[d] = "none"
             /\ \A d \in Calls : ~Running(d)'
  BY <1>2, <1>4, <1>6 DEF Orderly, Alone, Running, Going, IInv, Wiring, Shape, NoCall
<1>7. ASSUME Orderly, Alone(c) PROVE Settled' /\ \A d \in Calls : Placed(d)'
  <2>1. row.status = "unattached" /\ ~row.container
    BY <1>2, <1>7 DEF Alone
  <2>2. Settled'
    BY <1>3, <1>6, <1>7, <2>1 DEF Settled, Transients, Usable
  <2>3. row.path = "own"
    BY <1>2, <1>7 DEF Orderly, Placed
  <2> QED BY <1>1, <1>3, <1>6, <1>7, <2>2, <2>3 DEF Placed, Moved
<1>8. ASSUME Orderly, Alone(c), Wanted' PROVE Kept'
  <2>1. call[c].res = "ok"
    BY <1>1, <1>6, <1>8 DEF Wanted, CreatedOk, At, Moved
  <2>2. Seen(disk[row.server])
    BY <1>2, <1>8, <2>1 DEF Orderly, Running, Active
  <2>3. Good'
    BY <1>1, <1>2, <1>3, <1>6, <1>8, <2>2 DEF Good, NoMoveUnderWay, Moved, Seen
  <2> QED BY <1>1, <1>2, <1>6, <1>8, <2>3 DEF Kept, Moved
<1> QED BY <1>3, <1>4, <1>5, <1>7, <1>8, CallStepKeeps

(* Delete removes the row and its snapshots, whatever the agent said. *)
LEMMA FinishDeleteKeeps ==
    ASSUME IInv, NEW c \in Calls, FinishDelete(c)
    PROVE  IInv'
<1>1. call' \in [Calls -> Jobs] /\ Moved(c, "done", call[c].res)
  BY GotoEffect DEF FinishDelete, IInv, Over
<1>2. /\ cmd' = cmd /\ disk' = disk /\ calm' = calm
      /\ snap' \in [Calls -> {"none", "ok", "hollow"}]
      /\ \A d \in Calls : snap'[d] = "none"
      /\ call[c].op = "delete" /\ call[c].pc = "finish"
  BY DEF FinishDelete, At
<1>3. /\ row' \in Rows /\ row'.server = row.server /\ row'.path = row.path
      /\ row'.status \in {row.status, "deleted"} /\ (Exists => row'.status = "deleted")
  BY StatusEffect DEF FinishDelete, IInv
<1>4. TypeOK' /\ Going(c) /\ ~Running(c)'
  BY <1>1, <1>2, <1>3 DEF IInv, TypeOK, Jobs, Rows, Going, Running, Moved, Active
<1>5. Shape(c)'
  BY <1>1, <1>2 DEF IInv, Wiring, Shape, Moved
<1>6. ASSUME Orderly, Alone(c) PROVE Settled' /\ \A d \in Calls : Placed(d)'
  <2>1. row'.status = "deleted"
    BY <1>3, <1>6 DEF Alone
  <2>2. \A d \in Calls : ~Running(d)'
    BY <1>4, <1>6 DEF Orderly, Alone, Running, Going
  <2>3. Settled'
    BY <2>1, <2>2 DEF Settled, Transients, Usable
  <2> QED BY <1>1, <1>2, <1>3, <1>6, <2>3 DEF Orderly, Placed, Moved
<1>7. ~Wanted'
  BY <1>1, <1>2 DEF Wanted, Moved
<1> QED BY <1>3, <1>4, <1>5, <1>6, <1>7, CallStepKeeps

(* A move names the new server in the row when the agent has confirmed it, and
   leaves no usable status otherwise. *)
LEMMA FinishMoveKeeps ==
    ASSUME IInv, NEW c \in Calls, FinishMove(c)
    PROVE  IInv'
<1>1. call' \in [Calls -> Jobs] /\ Moved(c, "done", call[c].res)
  BY GotoEffect DEF FinishMove, IInv, Over
<1>2. /\ cmd' = cmd /\ disk' = disk /\ snap' = snap /\ calm' = calm
      /\ call[c].op = "move" /\ call[c].pc = "finish"
  BY DEF FinishMove, At
<1>3. call[c].target \in Servers /\ call[c].prev \in Usable
  BY <1>2 DEF IInv, Wiring, Shape
<1>4. /\ row' \in Rows /\ row'.path = row.path /\ row'.container = row.container
      /\ Exists /\ Success(c) => row'.status = call[c].prev /\ row'.server = call[c].target
      /\ Exists /\ ~Success(c) => row'.status = "error" /\ row'.server = row.server
      /\ ~Exists => row' = row
  <2>1. row \in Rows /\ call[c].prev \in Statuses
    BY <1>3 DEF IInv, TypeOK, Rows, Statuses
  <2>2. CASE Exists /\ Success(c)
    BY <1>3, <2>1, <2>2 DEF FinishMove, Rows
  <2>3. CASE Exists /\ ~Success(c)
    BY <2>1, <2>3 DEF FinishMove, Rows, Statuses
  <2>4. CASE ~Exists
    BY <2>1, <2>4 DEF FinishMove
  <2> QED BY <2>2, <2>3, <2>4
<1>5. TypeOK' /\ Going(c) /\ ~Running(c)'
  BY <1>1, <1>2, <1>4 DEF IInv, TypeOK, Jobs, Rows, Going, Running, Moved, Active
<1>6. Shape(c)'
  BY <1>1, <1>2 DEF IInv, Wiring, Shape, Moved
<1>7. row.status # "none" /\ row.server \in Servers =>
         row'.status # "none" /\ row'.server \in Servers
  BY <1>3, <1>4 DEF Usable
<1>8. ASSUME Orderly, Alone(c)
      PROVE  /\ \A d \in Calls : ~Running(d)'
             /\ \/ row'.status = "error"
                \/ /\ Success(c) /\ row'.status = call[c].prev
                   /\ row'.server = call[c].target
  BY <1>4, <1>5, <1>8 DEF Orderly, Alone, Running, Going
<1>9. ASSUME Orderly, Alone(c) PROVE Settled' /\ \A d \in Calls : Placed(d)'
  <2>1. Settled'
    BY <1>3, <1>4, <1>8, <1>9 DEF Settled, Transients, Usable, Alone
  <2> QED BY <1>1, <1>2, <1>4, <1>9, <2>1 DEF Orderly, Placed, Moved
<1>10. ASSUME Orderly, Alone(c), Wanted', Wanted => Kept PROVE Kept'
  <2>1. Kept
    BY <1>1, <1>2, <1>10 DEF Wanted, CreatedOk, At, Moved
  <2>2. Moving(c)
    BY <1>2, <2>1 DEF Kept, Running, Active
  <2>3. row'.status \in Usable => Good'
    <3>1. CASE row'.status = "error"
      BY <3>1 DEF Usable
    <3>2. CASE Success(c) /\ row'.server = call[c].target
      BY <1>1, <1>2, <2>2, <3>2 DEF Moving, Good, NoMoveUnderWay, Seen, Moved
    <3> QED BY <1>8, <1>10, <3>1, <3>2
  <2> QED BY <1>1, <1>2, <1>8, <1>10, <2>1, <2>3 DEF Kept, Moved
<1> QED BY <1>2, <1>5, <1>6, <1>7, <1>9, <1>10, CallStepKeeps DEF Moved

(* The snapshot's row, and the new size: both calls still have to restore the
   status that they read. *)
LEMMA FinishInPlaceKeeps ==
    ASSUME IInv, NEW c \in Calls, FinishSnapshot(c) \/ FinishResize(c)
    PROVE  IInv'
<1>1. call' \in [Calls -> Jobs] /\ Moved(c, "restore", call[c].res)
  BY GotoEffect DEF FinishSnapshot, FinishResize, IInv, Active
<1>2. /\ cmd' = cmd /\ disk' = disk /\ calm' = calm
      /\ call[c].op \in {"snapshot", "resize"} /\ call[c].pc = "finish"
  BY DEF FinishSnapshot, FinishResize, At
<1>3. /\ row' \in Rows /\ row'.path = row.path /\ row'.container = row.container
      /\ row'.status = row.status /\ row'.server = row.server
  <2>1. row \in Rows /\ call[c].size \in 0..MaxSize
    BY DEF IInv, TypeOK, Rows
  <2>2. CASE FinishSnapshot(c)
    BY <2>1, <2>2 DEF FinishSnapshot
  <2>3. CASE FinishResize(c)
    BY <2>1, <2>3 DEF FinishResize, Rows
  <2> QED BY <2>2, <2>3
<1>4. /\ snap' \in [Calls -> {"none", "ok", "hollow"}]
      /\ \A d \in Calls : d # c => snap'[d] = snap[d]
      /\ snap'[c] = snap[c] \/ (call[c].op = "snapshot" /\ snap'[c] = call[c].res)
  <2>1. snap \in [Calls -> {"none", "ok", "hollow"}]
    BY DEF IInv, TypeOK
  <2>2. CASE FinishSnapshot(c)
    BY <2>1, <2>2 DEF FinishSnapshot, Success, At
  <2>3. CASE FinishResize(c)
    BY <2>1, <2>3 DEF FinishResize
  <2> QED BY <2>2, <2>3
<1>5. TypeOK' /\ Going(c)
  BY <1>1, <1>2, <1>3, <1>4 DEF IInv, TypeOK, Jobs, Rows, Going, Moved, Active
<1>6. Shape(c)'
  BY <1>1, <1>2, <1>4 DEF IInv, Wiring, Shape, Moved
<1>7. \A d \in Calls : Running(d)' <=> Running(d)
  BY <1>1, <1>2 DEF Moved, Running, Active
<1>8. ASSUME Orderly, Alone(c)
      PROVE  /\ Alone(c)' /\ Settled' /\ call'[c].op # "create"
             /\ \A d \in Calls : Placed(d)'
  <2>1. Alone(c)'
    BY <1>1, <1>2, <1>3, <1>7, <1>8 DEF Alone, Moved, Exists
  <2>2. Settled'
    BY <1>1, <1>2, <1>3, <1>7, <1>8 DEF Orderly, Settled, Moved
  <2>3. \A d \in Calls : Placed(d)'
    BY <1>1, <1>2, <1>3, <1>8 DEF Orderly, Placed, Moved
  <2> QED BY <1>1, <1>2, <2>1, <2>2, <2>3 DEF Moved
<1>9. ASSUME Orderly, Alone(c), Wanted', Wanted => Kept PROVE Kept'
  <2>1. Kept
    BY <1>1, <1>2, <1>9 DEF Wanted, CreatedOk, At, Moved
  <2>2. Good => Good'
    BY <1>1, <1>2, <1>3 DEF Good, NoMoveUnderWay, Seen, Moved
  <2>3. \A d \in Calls : Running(d) => d = c
    BY <1>9 DEF Alone
  <2> QED BY <1>1, <1>2, <1>3, <1>4, <1>7, <2>1, <2>2, <2>3 DEF Kept, Moved
<1> QED BY <1>3, <1>5, <1>6, <1>8, <1>9, CallStepKeeps

(* The status that a snapshot or a resize read is put back. *)
LEMMA RestoreKeeps ==
    ASSUME IInv, NEW c \in Calls, Restore(c)
    PROVE  IInv'
<1>1. call' \in [Calls -> Jobs] /\ Moved(c, "done", call[c].res)
  BY GotoEffect DEF Restore, IInv, Over
<1>2. /\ cmd' = cmd /\ disk' = disk /\ snap' = snap /\ calm' = calm /\ call[c].pc = "restore"
  BY DEF Restore
<1>3. call[c].op \in {"snapshot", "resize"} /\ call[c].prev \in Statuses
  BY <1>2 DEF IInv, Wiring, Shape
<1>4. /\ row' \in Rows /\ row'.server = row.server /\ row'.path = row.path
      /\ row'.container = row.container
      /\ row'.status = IF Exists THEN call[c].prev ELSE row.status
  BY <1>3, StatusEffect DEF Restore, IInv
<1>5. TypeOK' /\ Going(c) /\ ~Running(c)'
  BY <1>1, <1>2, <1>4 DEF IInv, TypeOK, Jobs, Rows, Going, Running, Moved, Active
<1>6. Shape(c)'
  BY <1>1, <1>2, <1>3 DEF IInv, Wiring, Shape, Moved
<1>7. row.status # "none" => row'.status # "none"
  BY <1>3, <1>4 DEF Statuses, Usable
<1>8. ASSUME Orderly, Alone(c)
      PROVE  row'.status = call[c].prev /\ \A d \in Calls : ~Running(d)'
  BY <1>4, <1>5, <1>8 DEF Orderly, Alone, Running, Going
<1>9. ASSUME Orderly, Alone(c) PROVE Settled' /\ \A d \in Calls : Placed(d)'
  <2>1. row'.status \in Usable => (row'.container <=> row'.status = "attached")
    BY <1>4, <1>8, <1>9 DEF Alone
  <2>2. (\A d \in Calls : call'[d].pc \notin {"refused", "cut"}) =>
              \A d \in Calls : call[d].pc \notin {"refused", "cut"}
    BY <1>1, <1>2 DEF Moved
  <2>3. Running(c)
    BY <1>2 DEF Running, Active
  <2>4. Settled'
    BY <1>8, <1>9, <2>1, <2>2, <2>3 DEF Orderly, Settled
  <2> QED BY <1>1, <1>2, <1>3, <1>4, <1>9, <2>4 DEF Orderly, Placed, Moved
<1>10. ASSUME Orderly, Alone(c), Wanted', Wanted => Kept PROVE Kept'
  <2>1. Kept
    BY <1>1, <1>3, <1>10 DEF Wanted, CreatedOk, At, Moved
  <2>2. Good => Good'
    BY <1>1, <1>2, <1>4 DEF Good, NoMoveUnderWay, Seen, Moved
  <2>3. row'.status \in Usable => Good
    BY <1>2, <1>3, <1>8, <1>10, <2>1 DEF Kept, Running, Active
  <2> QED BY <1>1, <1>2, <1>8, <1>10, <2>1, <2>2, <2>3 DEF Kept, Moved
<1> QED BY <1>4, <1>5, <1>6, <1>7, <1>9, <1>10, CallStepKeeps

-----------------------------------------------------------------------------
(* A call that begins on a volume that exists. *)
Reads(j) == j.prev = row.status /\ j.server = row.server /\ j.path = row.path

(* Such a call finds, if calls do not overlap, a settled row. *)
LEMMA BeginKeeps ==
    ASSUME IInv, NEW c \in Calls, NEW op \in Ops \ {"create"}, NEW pc \in Active,
           NEW new, Begin(c, new), NewCall(new, op, pc), Reads(new), row' = row, Exists,
           pc = (IF op = "delete" THEN "send"
                 ELSE IF op \in {"attach", "detach"} THEN "write" ELSE "mark"),
           op \in {"move", "attach", "detach"} => row.status \in Usable,
           op = "move" => new.target \in Servers /\ new.target # row.server
    PROVE  IInv'
<1>1. /\ call' \in [Calls -> Jobs] /\ call'[c] = new
      /\ \A d \in Calls : d # c => call'[d] = call[d]
      /\ call[c].pc = "idle"
      /\ calm' \in BOOLEAN /\ (calm' => calm /\ \A d \in Calls : ~Running(d))
      /\ cmd' = cmd /\ disk' = disk /\ snap' = snap
  BY BeginEffect DEF IInv, NewCall
<1>2. cmd[c] = "none" /\ call[c].op = "none" /\ snap[c] = "none"
  BY <1>1 DEF IInv, Wiring, Shape, NoCall, TypeOK
<1>3. row.status \in Statuses /\ row.server \in Servers
  BY DEF Exists, IInv, TypeOK, Wiring, Created
<1>4. TypeOK'
  BY <1>1 DEF IInv, TypeOK, Jobs
<1>5. Wiring'
  <2>1. Shape(c)'
    BY <1>1, <1>2, <1>3 DEF Shape, NewCall, Reads, Active, Ops, Outcomes, Usable
  <2>2. \A d \in Calls : Shape(d)'
    BY <1>1, <2>1, ShapeKept DEF IInv, Wiring
  <2>3. Created'
    BY <1>1, <1>3 DEF IInv, Wiring, Created, NewCall, Exists
  <2> QED BY <2>2, <2>3 DEF Wiring
<1>6. ASSUME calm' PROVE Orderly'
  <2>0. calm /\ Orderly /\ \A d \in Calls : ~Running(d)
    BY <1>1, <1>6 DEF IInv
  <2>1. \A d \in Calls : Running(d)' => d = c
    BY <1>1, <2>0 DEF Running
  <2>2. Alone(c)'
    BY <1>1, <2>0, <2>1 DEF Alone, NewCall, Reads, Exists, Orderly, Settled
  <2>3. Settled'
    <3>1. (\A d \in Calls : call'[d].pc \notin {"refused", "cut"}) =>
              \A d \in Calls : call[d].pc \notin {"refused", "cut"}
      BY <1>1
    <3>2. Running(c)'
      BY <1>1 DEF Running, NewCall
    <3> QED BY <1>1, <2>0, <2>1, <3>1, <3>2 DEF Orderly, Settled, Reads
  <2>4. \A d \in Calls : Placed(d)'
    BY <1>1, <2>0 DEF Orderly, Placed, NewCall, Reads
  <2>5. Disks'
    BY <1>1, <2>0 DEF Orderly, Disks
  <2> QED BY <1>1, <2>1, <2>2, <2>3, <2>4, <2>5 DEF Orderly, NewCall
<1>7. ASSUME calm', Wanted' PROVE Kept'
  <2>1. Wanted
    BY <1>1, <1>2, <1>7 DEF Wanted, CreatedOk, At, NewCall
  <2>2. Kept /\ \A d \in Calls : ~Running(d)
    BY <1>1, <1>7, <2>1 DEF IInv
  <2>3. Good => Good'
    BY <1>1, <1>2 DEF Good, NoMoveUnderWay, Seen
  <2>4. \A d \in Calls : Running(d)' => d = c
    BY <1>1, <2>2 DEF Running
  <2>5. row.status \in Usable => Good'
    BY <2>2, <2>3 DEF Kept
  <2>6. op = "move" => Moving(c)'
    BY <1>1, <2>5 DEF Moving, NewCall
  <2> QED BY <1>1, <1>2, <2>2, <2>4, <2>5, <2>6 DEF Kept, NewCall, Reads
<1> QED BY <1>4, <1>5, <1>6, <1>7 DEF IInv

(* Delete, Attach, Detach and Snapshot begin. *)
LEMMA RequestKeeps ==
    ASSUME IInv, NEW c \in Calls,
           Delete(c) \/ Attach(c) \/ Detach(c) \/ Snapshot(c)
    PROVE  IInv'
<1>1. CASE Delete(c)
  BY <1>1, BeginKeeps, GetVolumeReads DEF Delete, IInv, Ops, Active, Reads
<1>2. CASE Attach(c)
  BY <1>2, BeginKeeps, GetVolumeReads DEF Attach, IInv, Ops, Active, Reads, Exists, Usable
<1>3. CASE Detach(c)
  BY <1>3, BeginKeeps, GetVolumeReads DEF Detach, IInv, Ops, Active, Reads, Exists, Usable
<1>4. CASE Snapshot(c)
  BY <1>4, BeginKeeps, GetVolumeReads DEF Snapshot, IInv, Ops, Active, Reads
<1> QED BY <1>1, <1>2, <1>3, <1>4

(* Move begins, on a volume in use nowhere else. *)
LEMMA MoveKeeps ==
    ASSUME IInv, NEW c \in Calls, NEW t \in Servers, Move(c, t)
    PROVE  IInv'
<1> DEFINE j == GetVolume("move", "mark")
           new == [j EXCEPT !.target = t]
<1>1. NewCall(j, "move", "mark") /\ Reads(j)
  BY GetVolumeReads DEF IInv, Ops, Active, Reads
<1>2. /\ Begin(c, new) /\ row' = row /\ row.status \in Usable /\ t # row.server
  BY DEF Move
<1> HIDE DEF j
<1>3. NewCall(new, "move", "mark") /\ Reads(new) /\ new.target = t
  BY <1>1 DEF NewCall, Reads, Jobs
<1> HIDE DEF new
<1> QED BY <1>2, <1>3, BeginKeeps DEF Ops, Active, Exists, Usable

(* Resize begins. *)
LEMMA ResizeKeeps ==
    ASSUME IInv, NEW c \in Calls, NEW n \in 1..MaxSize, Resize(c, n)
    PROVE  IInv'
<1> DEFINE j == GetVolume("resize", "mark")
           new == [j EXCEPT !.size = n]
<1>1. NewCall(j, "resize", "mark") /\ Reads(j)
  BY GetVolumeReads DEF IInv, Ops, Active, Reads
<1>2. /\ Begin(c, new) /\ row' = row /\ Exists
  BY DEF Resize
<1> HIDE DEF j
<1>3. n \in 0..MaxSize
  BY VolumeAssumption
<1>4. NewCall(new, "resize", "mark") /\ Reads(new)
  BY <1>1, <1>3 DEF NewCall, Reads, Jobs
<1> HIDE DEF new
<1> QED BY <1>2, <1>4, BeginKeeps DEF Ops, Active

(* The first call of all. *)
LEMMA CreateKeeps ==
    ASSUME IInv, NEW c \in Calls, NEW s \in Servers, Create(c, s)
    PROVE  IInv'
<1> DEFINE j0 == NoCall
           j1 == [j0 EXCEPT !.op = "create"]
           j2 == [j1 EXCEPT !.pc = "path"]
           j3 == [j2 EXCEPT !.server = s]
           j4 == [j3 EXCEPT !.size = 1]
<1>1. 0 \in 0..MaxSize /\ 1 \in 0..MaxSize
  BY VolumeAssumption
<1>2. Begin(c, j4)
  BY DEF Create
<1>3. j0 \in Jobs /\ j0.res = "none" /\ j0.prev = "none"
  BY <1>1 DEF NoCall, Jobs, Over
<1> HIDE DEF j0
<1>4. j1 \in Jobs /\ j1.res = "none" /\ j1.prev = "none" /\ j1.op = "create"
  BY <1>3 DEF Jobs, Ops
<1> HIDE DEF j1
<1>5. /\ j2 \in Jobs /\ j2.res = "none" /\ j2.prev = "none" /\ j2.op = "create"
      /\ j2.pc = "path"
  BY <1>4 DEF Jobs, Active
<1> HIDE DEF j2
<1>6. /\ j3 \in Jobs /\ j3.res = "none" /\ j3.prev = "none" /\ j3.op = "create"
      /\ j3.pc = "path" /\ j3.server = s
  BY <1>5 DEF Jobs
<1> HIDE DEF j3
<1>7. /\ j4 \in Jobs /\ j4.res = "none" /\ j4.prev = "none" /\ j4.op = "create"
      /\ j4.pc = "path" /\ j4.server = s /\ j4.size = 1
  BY <1>1, <1>6 DEF Jobs
<1> HIDE DEF j4
<1>8. /\ call' \in [Calls -> Jobs] /\ call'[c] = j4
      /\ \A d \in Calls : d # c => call'[d] = call[d]
      /\ calm' \in BOOLEAN /\ (calm' => calm)
      /\ cmd' = cmd /\ disk' = disk /\ snap' = snap
  BY <1>2, <1>7, BeginEffect DEF IInv
<1>9. \A d \in Calls : /\ call[d].pc = "idle" /\ call[d].op = "none" /\ cmd[d] = "none"
                      /\ call[d].prev = "none" /\ snap[d] = "none"
  BY DEF Create, IInv, Wiring, Created, Shape, NoCall, TypeOK
<1>10. /\ row' \in Rows /\ row'.status = "unattached" /\ row'.server = s /\ ~row'.container
  BY <1>1 DEF Create, Rows, Statuses, Usable
<1>11. TypeOK'
  BY <1>8, <1>10 DEF IInv, TypeOK, Jobs, Rows
<1>12. Wiring'
  <2>1. Shape(c)'
    BY <1>7, <1>8, <1>9 DEF Shape, Outcomes
  <2>2. \A d \in Calls : Shape(d)'
    BY <1>8, <2>1, ShapeKept DEF IInv, Wiring
  <2>3. Created'
    BY <1>7, <1>8, <1>9, <1>10 DEF Created
  <2> QED BY <2>2, <2>3 DEF Wiring
<1>13. ASSUME calm' PROVE Orderly'
  <2>0. calm /\ Orderly
    BY <1>8, <1>13 DEF IInv
  <2>1. \A d \in Calls : Running(d)' => d = c
    BY <1>8, <1>9 DEF Running, Active
  <2>2. Alone(c)'
    BY <1>7, <1>8, <1>9, <1>10, <2>1 DEF Alone, Exists, Usable
  <2>3. Settled'
    BY <1>7, <1>8, <1>10, <2>1 DEF Settled, Transients, Running
  <2>4. \A d \in Calls : Placed(d)'
    BY <1>7, <1>8, <1>9 DEF Placed
  <2>5. Disks'
    BY <1>8, <2>0 DEF Orderly, Disks
  <2> QED BY <1>7, <1>8, <2>1, <2>2, <2>3, <2>4, <2>5 DEF Orderly
<1>14. ~Wanted'
  BY <1>7, <1>8, <1>9 DEF Wanted, CreatedOk, At
<1> QED BY <1>11, <1>12, <1>13, <1>14 DEF IInv

-----------------------------------------------------------------------------
(* A step of the agent that has call c's command: the row is not touched, and
   the call either goes on waiting (or has gone) or gets its answer. *)
Commands == {"none", "sent", "copied", "unmounted", "grow"}

Working(c) ==
    /\ cmd[c] # "none"
    /\ row' = row /\ snap' = snap /\ (calm' => calm) /\ calm' \in BOOLEAN
    /\ disk' \in [Servers -> Disk] /\ cmd' \in [Calls -> Commands]
    /\ \A d \in Calls : d # c => cmd'[d] = cmd[d]
    /\ call' \in [Calls -> Jobs]
    /\ \/ call' = call
       \/ /\ call[c].pc = "wait" /\ cmd'[c] = "none"
          /\ \E o \in Outcomes : Moved(c, "finish", o)

(* Reduces it to the disks, and to what the contents rest on. *)
LEMMA AgentStepKeeps ==
    ASSUME IInv, NEW c \in Calls, Working(c), Shape(c)',
           calm' /\ Orderly =>
              /\ Disks'
              /\ call[c].op = "create" /\ call[c].pc = "wait" /\ call'[c].res = "ok" =>
                    Seen(disk'[row.server]),
           calm' /\ Orderly /\ Wanted /\ Kept => Kept'
    PROVE  IInv'
<1>1. TypeOK'
  BY DEF IInv, TypeOK, Working, Commands, Jobs, Disk
<1>2. \A d \in Calls : d # c => call'[d] = call[d]
  BY DEF Working, Moved
<1>3. /\ call'[c].op = call[c].op /\ call'[c].prev = call[c].prev
      /\ call'[c].server = call[c].server /\ call'[c].path = call[c].path
      /\ \/ call'[c] = call[c]
         \/ call[c].pc = "wait" /\ call'[c].pc = "finish"
  BY DEF Working, Moved
<1>4. \A d \in Calls : Running(d)' <=> Running(d)
  BY <1>2, <1>3 DEF Running, Active
<1>5. Wiring'
  <2>1. call[c].pc # "idle"
    BY DEF Working, IInv, Wiring, Shape
  <2>2. row.status # "none" /\ row.server \in Servers
    BY <2>1 DEF IInv, Wiring, Created
  <2> QED BY <1>2, <1>3, <2>1, <2>2, WiringKept DEF IInv, Working
<1>6. ASSUME calm' PROVE Orderly'
  <2>0. calm /\ Orderly
    BY <1>6 DEF IInv, Working
  <2>1. ASSUME NEW d \in Calls, Running(d)' PROVE Alone(d)'
    <3>1. Alone(d)
      BY <1>4, <2>0, <2>1 DEF Orderly
    <3>2. call'[d] = call[d] \/ (d = c /\ call[c].pc = "wait" /\ call'[c].pc = "finish")
      BY <1>2, <1>3
    <3>3. \A e \in Calls : call[e].pc = "idle" => call'[e].pc = "idle"
      BY <1>2, <1>3
    <3> QED BY <1>2, <1>3, <1>4, <3>1, <3>2, <3>3 DEF Alone, Working, Exists
  <2>2. Settled'
    BY <1>2, <1>3, <1>4, <2>0 DEF Orderly, Settled, Working
  <2>3. \A d \in Calls : Placed(d)'
    BY <1>2, <1>3, <2>0 DEF Orderly, Placed, Working
  <2>4. ASSUME NEW d \in Calls, call'[d].op = "create", Running(d)', call'[d].res = "ok"
        PROVE  Seen(disk'[row.server])
    <3>1. Alone(d) /\ call[d].op = "create"
      BY <1>2, <1>3, <1>4, <2>0, <2>4 DEF Orderly
    <3>2. d = c
      BY <3>1 DEF Alone, Working, IInv, Wiring, Shape
    <3>3. call'[c] # call[c]
      BY <2>4, <3>2 DEF Working, IInv, Wiring, Shape, Outcomes
    <3> QED BY <1>3, <1>6, <2>0, <2>4, <3>1, <3>2, <3>3
  <2> QED BY <1>6, <2>0, <2>1, <2>2, <2>3, <2>4 DEF Orderly, Working, Seen
<1>7. ASSUME calm', Wanted' PROVE Kept'
  <2>1. Wanted
    <3>1. PICK d \in Calls : call'[d].op = "create" /\ call'[d].pc = "done" /\ call'[d].res = "ok"
      BY <1>7 DEF Wanted, CreatedOk, At
    <3>2. call'[d] = call[d]
      BY <1>2, <1>3, <3>1
    <3> QED BY <1>2, <1>3, <1>7, <3>1, <3>2 DEF Wanted, CreatedOk, At
  <2> QED BY <1>7, <2>1 DEF IInv, Working
<1> QED BY <1>1, <1>5, <1>6, <1>7 DEF IInv

(* The handler's last step. *)
LEMMA AnswerWorks ==
    ASSUME IInv, NEW c \in Calls, NEW o \in Outcomes, cmd[c] # "none", Answer(c, o),
           row' = row, snap' = snap, calm' => calm, calm' \in BOOLEAN,
           disk' \in [Servers -> Disk]
    PROVE  /\ Working(c) /\ Shape(c)' /\ cmd'[c] = "none"
           /\ call' = call \/ (call[c].pc = "wait" /\ Moved(c, "finish", o))
<1>1. /\ call' \in [Calls -> Jobs]
      /\ call' = call \/ (call[c].pc = "wait" /\ Moved(c, "finish", o))
      /\ cmd' \in [Calls -> Commands]
      /\ cmd'[c] = "none" /\ \A d \in Calls : d # c => cmd'[d] = cmd[d]
  BY AnswerEffect DEF IInv, Commands
<1>2. Working(c)
  BY <1>1 DEF Working
<1>3. CASE call' = call
  BY <1>1, <1>2, <1>3, ShapeKept DEF IInv, Wiring
<1>4. CASE call[c].pc = "wait" /\ Moved(c, "finish", o)
  BY <1>1, <1>2, <1>4 DEF IInv, Wiring, Shape, Moved, Outcomes
<1> QED BY <1>1, <1>2, <1>3, <1>4

(* Once the agent has confirmed the creation, Create's command is done. *)
LEMMA CreateIsOver ==
    ASSUME IInv, Wanted, NEW c \in Calls, cmd[c] # "none"
    PROVE  call[c].op \notin {"create", "delete"}
BY DEF Wanted, CreatedOk, At, IInv, Wiring, Created, Shape, Outcomes

(* The agent creates: an image is never there without a file system in it. *)
LEMMA HandleVolumeCreateKeeps ==
    ASSUME IInv, NEW c \in Calls, HandleVolumeCreate(c)
    PROVE  IInv'
<1> DEFINE h == Host(c)
           d == Here(c)
<1>1. call[c].op = "create" /\ cmd[c] = "sent" /\ row' = row /\ snap' = snap /\ calm' = calm
  BY DEF HandleVolumeCreate, GotCommand
<1>2. h \in Servers /\ call[c].size = 1 /\ 1 \in 0..MaxSize /\ d \in Disk /\ d = disk[h]
  BY <1>1, VolumeAssumption DEF IInv, Wiring, Shape, Host, Here, TypeOK, Disk
<1>3. PICK o \in {"ok", "failed"} :
        /\ Answer(c, o)
        /\ \/ o = "ok" /\ SetDisk(h, Mounted(d, 1))
           \/ o = "failed" /\ SetDisk(h, [d EXCEPT !.dir = TRUE])
           \/ o = "failed" /\ SetDisk(h, [Mounted(d, 1) EXCEPT !.mnt = d.mnt])
  BY <1>2 DEF HandleVolumeCreate
<1> HIDE DEF h, d
<1>4. /\ Mounted(d, 1) \in Disk /\ [d EXCEPT !.dir = TRUE] \in Disk
      /\ [Mounted(d, 1) EXCEPT !.mnt = d.mnt] \in Disk
  BY <1>2, DiskOps
<1>5. /\ disk' \in [Servers -> Disk]
      /\ \A t \in Servers : t # h => disk'[t] = disk[t]
      /\ \/ o = "ok" /\ disk'[h] = Mounted(d, 1)
         \/ o = "failed" /\ disk'[h] = [d EXCEPT !.dir = TRUE]
         \/ o = "failed" /\ disk'[h] = [Mounted(d, 1) EXCEPT !.mnt = d.mnt]
  BY <1>2, <1>3, <1>4, SetDiskEffect DEF IInv
<1>6. o \in Outcomes /\ calm' \in BOOLEAN
  BY <1>1, <1>3 DEF Outcomes, IInv, TypeOK
<1>7. /\ Working(c) /\ Shape(c)'
      /\ call' = call \/ (call[c].pc = "wait" /\ Moved(c, "finish", o))
  BY <1>1, <1>3, <1>5, <1>6, AnswerWorks
<1>8. ASSUME Disks PROVE Disks'
  <2>1. (disk'[h].mnt => disk'[h].img > 0) /\ (disk'[h].img > 0 => "img" \in disk'[h].files)
    <3>1. (d.mnt => d.img > 0) /\ (d.img > 0 => "img" \in d.files) /\ d.img \in Nat
      BY <1>2, <1>8, VolumeAssumption DEF Disks, Disk
    <3>2. CASE disk'[h] = [d EXCEPT !.dir = TRUE]
      BY <1>2, <3>1, <3>2 DEF Disk
    <3> DEFINE m == Mounted(d, 1)
    <3>3. /\ m.mnt /\ m.img = (IF d.img = 0 THEN 1 ELSE d.img) /\ "img" \in m.files
          /\ [m EXCEPT !.mnt = d.mnt].mnt = d.mnt
          /\ [m EXCEPT !.mnt = d.mnt].img = m.img
          /\ [m EXCEPT !.mnt = d.mnt].files = m.files
      BY <1>2, MountedDisk
    <3> HIDE DEF m
    <3>4. CASE disk'[h] = m
      BY <3>1, <3>3, <3>4
    <3>5. CASE disk'[h] = [m EXCEPT !.mnt = d.mnt]
      BY <3>1, <3>3, <3>5
    <3> QED BY <1>5, <3>2, <3>4, <3>5 DEF m
  <2> QED BY <1>2, <1>5, <1>8, <2>1 DEF Disks
<1>9. ASSUME Orderly, call[c].pc = "wait", call'[c].res = "ok" PROVE Seen(disk'[row.server])
  <2>1. o = "ok"
    BY <1>7, <1>9 DEF Moved, IInv, Wiring, Shape
  <2>2. row.server = h
    BY <1>9 DEF h, Host, Orderly, Alone, Running, Active
  <2> QED BY <1>2, <1>5, <2>1, <2>2, MountedDisk DEF Seen
<1>10. ~Wanted
  BY <1>1, CreateIsOver
<1> QED BY <1>7, <1>8, <1>9, <1>10, AgentStepKeeps DEF Orderly

(* The agent deletes, for a call after which nobody wants the volume. *)
LEMMA HandleVolumeDeleteKeeps ==
    ASSUME IInv, NEW c \in Calls, HandleVolumeDelete(c)
    PROVE  IInv'
<1> DEFINE h == Host(c)
<1>1. call[c].op = "delete" /\ cmd[c] = "sent" /\ row' = row /\ snap' = snap /\ calm' = calm
  BY DEF HandleVolumeDelete, GotCommand
<1>2. h \in Servers /\ 0 \in 0..MaxSize /\ disk \in [Servers -> Disk]
  BY <1>1, VolumeAssumption DEF IInv, Wiring, Shape, Host, TypeOK, Disk
<1>3. PICK o \in {"ok", "failed"} :
        /\ Answer(c, o)
        /\ \/ disk' = disk
           \/ SetDisk(h, NoDisk)
           \/ SetDisk(h, [NoDisk EXCEPT !.dir = TRUE])
  BY DEF HandleVolumeDelete
<1> HIDE DEF h
<1>4. /\ disk' \in [Servers -> Disk]
      /\ \A t \in Servers : t # h => disk'[t] = disk[t]
      /\ \/ disk' = disk \/ disk'[h] = NoDisk \/ disk'[h] = [NoDisk EXCEPT !.dir = TRUE]
  <2>1. NoDisk \in Disk /\ [NoDisk EXCEPT !.dir = TRUE] \in Disk
    <3>1. PICK d \in Disk : TRUE
      BY <1>2
    <3> QED BY <1>2, <3>1, DiskOps
  <2> QED BY <1>2, <1>3, <2>1, SetDiskEffect DEF IInv
<1>5. o \in Outcomes /\ calm' \in BOOLEAN
  BY <1>1, <1>3 DEF Outcomes, IInv, TypeOK
<1>6. Working(c) /\ Shape(c)'
  BY <1>1, <1>3, <1>4, <1>5, AnswerWorks
<1>7. ASSUME Disks PROVE Disks'
  BY <1>2, <1>4, <1>7 DEF Disks, NoDisk
<1>8. ~Wanted
  BY <1>1 DEF Wanted
<1> QED BY <1>1, <1>6, <1>7, <1>8, AgentStepKeeps DEF Orderly

(* Snapshot's tarball is made where the contents are seen. *)
LEMMA HandleVolumeSnapshotKeeps ==
    ASSUME IInv, NEW c \in Calls, HandleVolumeSnapshot(c)
    PROVE  IInv'
<1>1. /\ call[c].op = "snapshot" /\ cmd[c] = "sent"
      /\ row' = row /\ snap' = snap /\ calm' = calm /\ disk' = disk
  BY DEF HandleVolumeSnapshot, GotCommand
<1>2. PICK o \in Outcomes :
        Answer(c, o) /\ (o = "hollow" => ~(call[c].path = "own" /\ Seen(Here(c))))
  BY DEF HandleVolumeSnapshot, Outcomes
<1>3. calm' \in BOOLEAN /\ disk' \in [Servers -> Disk]
  BY <1>1 DEF IInv, TypeOK, Disk
<1>4. /\ Working(c) /\ Shape(c)' /\ cmd'[c] = "none"
      /\ call' = call \/ (call[c].pc = "wait" /\ Moved(c, "finish", o))
  BY <1>1, <1>2, <1>3, AnswerWorks
<1>5. ASSUME Disks PROVE Disks'
  BY <1>1, <1>5 DEF Disks
<1>6. ASSUME calm', Orderly, Wanted, Kept PROVE Kept'
  <2>1. Good => Good'
    BY <1>1, <1>4 DEF Good, NoMoveUnderWay, Seen, Moved, Working
  <2>2. \A d \in Calls : d # c => call'[d] = call[d] /\ cmd'[d] = cmd[d]
    BY <1>4 DEF Working, Moved
  <2>3. call'[c].op = "snapshot" /\ call'[c].prev = call[c].prev /\ (Running(c)' <=> Running(c))
    BY <1>1, <1>4 DEF Moved, Running, Active
  <2>4. call[c].pc = "wait" /\ call[c].prev \in Usable => o # "hollow"
    <3> SUFFICES ASSUME call[c].pc = "wait", call[c].prev \in Usable PROVE o # "hollow"
      OBVIOUS
    <3>1. Running(c)
      BY DEF Running, Active
    <3>2. Alone(c) /\ Good
      BY <1>1, <1>6, <3>1 DEF Orderly, Kept
    <3>3. call[c].path = row.path /\ call[c].server = row.server
      BY <1>1, <3>2 DEF Alone
    <3>4. row.path = "own"
      BY <1>6 DEF Wanted, CreatedOk, At, Orderly, Placed
    <3> QED BY <1>2, <3>2, <3>3, <3>4 DEF Good, Here, Host
  <2>5. call[c].prev \in Usable => call'[c].res # "hollow"
    BY <1>1, <1>4, <1>6, <2>4 DEF Kept, Moved
  <2>6. \A d \in Calls : Moving(d) /\ d # c => Moving(d)'
    BY <1>1, <2>1, <2>2, <2>3 DEF Moving, NoMoveUnderWay, Success, Seen
  <2>7. ASSUME NEW d \in Calls, Running(d)'
        PROVE  /\ call'[d].op # "move" /\ call'[d].prev \in Usable => Good'
               /\ call'[d].op = "move" => Moving(d)'
    BY <1>1, <1>6, <2>1, <2>2, <2>3, <2>6, <2>7 DEF Kept, Running
  <2>8. row'.status \in Usable => Good'
    BY <1>1, <1>6, <2>1 DEF Kept
  <2>9. \A d \in Calls : call'[d].op = "snapshot" /\ call'[d].prev \in Usable =>
                          call'[d].res # "hollow" /\ snap'[d] # "hollow"
    BY <1>1, <1>6, <2>2, <2>3, <2>5 DEF Kept
  <2> QED BY <2>7, <2>8, <2>9 DEF Kept
<1> QED BY <1>1, <1>4, <1>5, <1>6, AgentStepKeeps DEF Orderly

(* The check of a resize, and the growing of the image, which keeps the image
   and what it holds where it found an image to grow. *)
LEMMA ResizeCommandKeeps ==
    ASSUME IInv, NEW c \in Calls, HandleVolumeResize(c) \/ GrowLoopbackVolume(c)
    PROVE  IInv'
<1>1. /\ call[c].op = "resize" /\ cmd[c] # "none"
      /\ row' = row /\ snap' = snap /\ (calm' => calm) /\ calm' \in BOOLEAN
  <2>1. /\ call[c].op = "resize" /\ cmd[c] # "none" /\ row' = row /\ snap' = snap
    BY DEF HandleVolumeResize, GrowLoopbackVolume, GotCommand, IInv, Wiring, Shape
  <2>2. calm \in BOOLEAN
    BY DEF IInv, TypeOK
  <2>3. (calm' => calm) /\ calm' \in BOOLEAN
    <3>1. CASE HandleVolumeResize(c)
      BY <2>2, <3>1 DEF HandleVolumeResize
    <3>2. CASE GrowLoopbackVolume(c)
      BY <3>2, Zenon DEF GrowLoopbackVolume
    <3> QED BY <3>1, <3>2
  <2> QED BY <2>1, <2>3
<1>2. /\ Host(c) \in Servers /\ disk \in [Servers -> Disk]
      /\ Here(c) = disk[Host(c)] /\ Here(c) \in Disk /\ call[c].size \in 0..MaxSize
  BY <1>1 DEF IInv, Wiring, Shape, Host, Here, TypeOK, Disk
<1>3. /\ disk' \in [Servers -> Disk]
      /\ \A s \in Servers : disk'[s].mnt = disk[s].mnt /\ disk'[s].files = disk[s].files
      /\ calm' => \A s \in Servers : disk'[s].img = disk[s].img
                                      \/ (disk'[s].img > 0 /\ disk[s].img > 0)
  <2>1. CASE HandleVolumeResize(c)
    BY <1>2, <2>1 DEF HandleVolumeResize
  <2>2. CASE GrowLoopbackVolume(c)
    <3> DEFINE g == [Here(c) EXCEPT !.img = call[c].size]
    <3>1. g \in Disk /\ g.mnt = Here(c).mnt /\ g.files = Here(c).files /\ g.img = call[c].size
      BY <1>2 DEF Disk
    <3>2. SetDisk(Host(c), g)
      BY <2>2 DEF GrowLoopbackVolume
    <3> HIDE DEF g
    <3>3. /\ disk' \in [Servers -> Disk] /\ disk'[Host(c)] = g
          /\ \A t \in Servers : t # Host(c) => disk'[t] = disk[t]
      BY <1>2, <3>1, <3>2, SetDiskEffect DEF IInv
    <3>4. calm' => Here(c).img > 0 /\ call[c].size > 0
      <4>1. Here(c).img \in Nat /\ call[c].size \in Nat
        BY <1>2, VolumeAssumption DEF Disk
      <4>2. calm' => HasImage(c) /\ call[c].size > Here(c).img
        BY <2>2, Zenon DEF GrowLoopbackVolume
      <4> QED BY <4>1, <4>2 DEF HasImage
    <3> QED BY <1>2, <3>1, <3>3, <3>4
  <2> QED BY <2>1, <2>2
<1>4. /\ Working(c) /\ Shape(c)'
      /\ \A d \in Calls : d # c => call'[d] = call[d] /\ cmd'[d] = cmd[d]
      /\ call'[c].op = "resize" /\ call'[c].prev = call[c].prev /\ (Running(c)' <=> Running(c))
  <2>1. CASE \E o \in Outcomes : Answer(c, o)
    <3>1. PICK o \in Outcomes : Answer(c, o)
      BY <2>1
    <3>2. /\ Working(c) /\ Shape(c)'
          /\ call' = call \/ (call[c].pc = "wait" /\ Moved(c, "finish", o))
      BY <1>1, <1>3, <3>1, AnswerWorks
    <3> QED BY <1>1, <3>2 DEF Working, Moved, Running, Active
  <2>2. CASE ~\E o \in Outcomes : Answer(c, o)
    <3>1. /\ cmd' = [cmd EXCEPT ![c] = "grow"] /\ call' = call
          /\ call[c].size > Here(c).img /\ cmd[c] = "sent"
      BY <2>2 DEF HandleVolumeResize, GrowLoopbackVolume, GotCommand, Outcomes
    <3>2. call[c].size > 0
      BY <1>2, <3>1, VolumeAssumption DEF Disk
    <3>3. call \in [Calls -> Jobs] /\ cmd' \in [Calls -> Commands] /\ cmd'[c] = "grow"
      BY <3>1 DEF IInv, TypeOK, Jobs, Commands
    <3>4. Working(c)
      BY <1>1, <1>3, <3>1, <3>3 DEF Working, IInv, TypeOK
    <3>5. Shape(c)'
      BY <1>1, <3>1, <3>2, <3>3 DEF IInv, Wiring, Shape
    <3> QED BY <1>1, <3>1, <3>4, <3>5 DEF Working, Running
  <2> QED BY <2>1, <2>2
<1>5. ASSUME calm', Disks PROVE Disks'
  BY <1>3, <1>5 DEF Disks
<1>6. ASSUME calm', Orderly, Wanted, Kept PROVE Kept'
  <2>0. row.server \in Servers /\ \A s \in Servers : Seen(disk'[s]) <=> Seen(disk[s])
    BY <1>1, <1>3 DEF Seen, IInv, Wiring, Created, Shape
  <2>1. Good => Good'
    BY <1>1, <1>4, <2>0 DEF Good, NoMoveUnderWay, Seen
  <2>2. \A d \in Calls : Moving(d) /\ call[d].op = "move" => Moving(d)'
    <3>1. \A d \in Calls : call[d].op = "move" =>
             d # c /\ call[d].server \in Servers /\ call[d].target \in Servers
      BY <1>1 DEF IInv, Wiring, Shape
    <3> QED BY <1>1, <1>4, <2>0, <2>1, <3>1 DEF Moving, NoMoveUnderWay, Success, Seen
  <2>3. ASSUME NEW d \in Calls, Running(d)'
        PROVE  /\ call'[d].op # "move" /\ call'[d].prev \in Usable => Good'
               /\ call'[d].op = "move" => Moving(d)'
    BY <1>1, <1>4, <1>6, <2>1, <2>2, <2>3 DEF Kept, Running
  <2>4. row'.status \in Usable => Good'
    BY <1>1, <1>6, <2>1 DEF Kept
  <2>5. \A d \in Calls : call'[d].op = "snapshot" /\ call'[d].prev \in Usable =>
                          call'[d].res # "hollow" /\ snap'[d] # "hollow"
    BY <1>1, <1>4, <1>6 DEF Kept
  <2> QED BY <2>3, <2>4, <2>5 DEF Kept
<1> QED BY <1>1, <1>4, <1>5, <1>6, AgentStepKeeps DEF Orderly

-----------------------------------------------------------------------------
(* While a move's command is at its agent, no status and no other call takes
   the contents for granted. *)
LEMMA StrayMove ==
    ASSUME Kept, NEW c \in Calls, call[c].op = "move", cmd[c] # "none"
    PROVE  /\ row.status \notin Usable
           /\ \A d \in Calls : Running(d) =>
                /\ call[d].op # "move" => call[d].prev \notin Usable
                /\ call[d].op = "move" /\ d # c =>
                      /\ call[d].pc \notin {"mark", "send", "wait"}
                      /\ call[d].pc = "finish" => ~Success(d)
BY DEF Kept, Good, NoMoveUnderWay, Moving

(* So a step of it is to be looked at for the sake of the move itself. *)
LEMMA MoveStepKeeps ==
    ASSUME IInv, NEW c \in Calls, call[c].op = "move", Working(c), Shape(c)',
           calm' /\ Orderly => Disks',
           calm' /\ Orderly /\ Alone(c) /\ Wanted /\ Moving(c) /\ call[c].pc = "wait" => Moving(c)'
    PROVE  IInv'
<1>1. ASSUME calm', Orderly, Wanted, Kept PROVE Kept'
  <2>1. /\ row.status \notin Usable
        /\ \A d \in Calls : Running(d) =>
              /\ call[d].op # "move" => call[d].prev \notin Usable
              /\ call[d].op = "move" /\ d # c =>
                    /\ call[d].pc \notin {"mark", "send", "wait"}
                    /\ call[d].pc = "finish" => ~Success(d)
    BY <1>1, StrayMove DEF Working
  <2>2. \A d \in Calls : d # c => call'[d] = call[d]
    BY DEF Working, Moved
  <2>3. call'[c].op = "move" /\ (Running(c)' <=> Running(c))
    BY DEF Working, Moved, Running, Active
  <2>4. \A d \in Calls : d # c /\ Running(d)' /\ call'[d].op = "move" => Moving(d)'
    BY <2>1, <2>2 DEF Moving, Running, Success
  <2>5. Running(c)' => Moving(c)'
    <3> SUFFICES ASSUME Running(c)' PROVE Moving(c)'
      OBVIOUS
    <3>1. Running(c) /\ Alone(c) /\ Moving(c)
      BY <1>1, <2>3 DEF Orderly, Kept
    <3>2. CASE call[c].pc = "wait"
      BY <1>1, <3>1, <3>2
    <3>3. CASE call[c].pc # "wait"
      <4>1. call[c].pc = "finish" /\ call' = call
        BY <3>1, <3>3 DEF IInv, Wiring, Shape, Running, Active, Working
      <4>2. ~Success(c)
        BY <3>1, <4>1 DEF Moving, NoMoveUnderWay, Working
      <4> QED BY <4>1, <4>2 DEF Moving, Success
    <3> QED BY <3>2, <3>3
  <2>6. \A d \in Calls : Running(d)' /\ call'[d].op # "move" => call'[d].prev \notin Usable
    BY <2>1, <2>2, <2>3 DEF Running
  <2>7. \A d \in Calls : call'[d].op = "snapshot" /\ call'[d].prev \in Usable =>
                          call'[d].res # "hollow" /\ snap'[d] # "hollow"
    BY <1>1, <2>2, <2>3 DEF Kept, Working
  <2> QED BY <2>1, <2>3, <2>4, <2>5, <2>6, <2>7 DEF Kept, Working
<1> QED BY <1>1, AgentStepKeeps

(* mkdir or rsync fails: the source is as it was. *)
LEMMA MoveFailsKeeps ==
    ASSUME IInv, NEW c \in Calls, MoveFails(c)
    PROVE  IInv'
<1> DEFINE t == call[c].target
           d == disk[t]
<1>1. /\ call[c].op = "move" /\ cmd[c] = "sent" /\ Answer(c, "failed")
      /\ row' = row /\ snap' = snap /\ calm' = calm
  BY DEF MoveFails, GotCommand
<1>2. t \in Servers /\ disk \in [Servers -> Disk] /\ d \in Disk /\ calm' \in BOOLEAN
  BY <1>1 DEF IInv, Wiring, Shape, TypeOK, Disk
<1>3. PICK made \in BOOLEAN : SetDisk(t, [d EXCEPT !.dir = @ \/ made])
  BY DEF MoveFails
<1>4. /\ disk' \in [Servers -> Disk]
      /\ \A s \in Servers : /\ disk'[s].mnt = disk[s].mnt /\ disk'[s].files = disk[s].files
                            /\ disk'[s].img = disk[s].img
  <2> DEFINE e == [d EXCEPT !.dir = d.dir \/ made]
  <2>1. e \in Disk /\ e.mnt = d.mnt /\ e.files = d.files /\ e.img = d.img
    BY <1>2 DEF Disk
  <2>2. SetDisk(t, e)
    BY <1>3
  <2> HIDE DEF e, t
  <2>3. disk' \in [Servers -> Disk] /\ disk'[t] = e /\ \A s \in Servers : s # t => disk'[s] = disk[s]
    BY <1>2, <2>1, <2>2, SetDiskEffect DEF IInv
  <2> QED BY <2>1, <2>3
<1>5. /\ Working(c) /\ Shape(c)' /\ cmd'[c] = "none"
      /\ call' = call \/ (call[c].pc = "wait" /\ Moved(c, "finish", "failed"))
  BY <1>1, <1>2, <1>4, AnswerWorks DEF Outcomes
<1>6. ASSUME Disks PROVE Disks'
  BY <1>4, <1>6 DEF Disks
<1>7. ASSUME Moving(c), call[c].pc = "wait" PROVE Moving(c)'
  BY <1>5, <1>7 DEF Moving, Moved, Working, Success
<1> QED BY <1>1, <1>5, <1>6, <1>7, MoveStepKeeps DEF Orderly

(* A command that has not answered yet goes on to its next step. *)
LEMMA NextStepWorks ==
    ASSUME IInv, NEW c \in Calls, call[c].op = "move", NEW k \in {"copied", "unmounted"},
           cmd[c] \in {"sent", "copied"}, cmd' = [cmd EXCEPT ![c] = k], call' = call,
           row' = row, snap' = snap, calm' = calm, disk' \in [Servers -> Disk]
    PROVE  Working(c) /\ Shape(c)' /\ cmd'[c] = k
<1>1. call \in [Calls -> Jobs] /\ cmd' \in [Calls -> Commands] /\ cmd'[c] = k
      /\ (\A d \in Calls : d # c => cmd'[d] = cmd[d]) /\ calm \in BOOLEAN
  BY DEF IInv, TypeOK, Jobs, Commands
<1>2. Working(c)
  BY <1>1 DEF Working
<1>3. Shape(c)'
  BY <1>1 DEF IInv, Wiring, Shape
<1> QED BY <1>1, <1>2, <1>3

(* rsync: the contents are seen on the target from now on. *)
LEMMA MoveRsyncKeeps ==
    ASSUME IInv, NEW c \in Calls, MoveRsync(c)
    PROVE  IInv'
<1> DEFINE t == call[c].target
           d == disk[t]
           copied == call[c].path = "own" /\ Seen(Here(c))
           f == d.files \union IF copied THEN {IF d.mnt THEN "img" ELSE "dir"} ELSE {}
           e1 == [d EXCEPT !.dir = TRUE]
           e == [e1 EXCEPT !.files = f]
<1>1. /\ call[c].op = "move" /\ cmd[c] = "sent" /\ cmd' = [cmd EXCEPT ![c] = "copied"]
      /\ row' = row /\ snap' = snap /\ calm' = calm /\ call' = call
  BY DEF MoveRsync, GotCommand
<1>2. t \in Servers /\ t # Host(c) /\ disk \in [Servers -> Disk] /\ d \in Disk
  BY <1>1 DEF IInv, Wiring, Shape, TypeOK, Disk, Host
<1>3. SetDisk(t, e)
  BY <1>2 DEF MoveRsync, Disk
<1>4. f \in SUBSET {"img", "dir"} /\ d.files \subseteq f
      /\ (copied => (IF d.mnt THEN "img" ELSE "dir") \in f)
  BY <1>2 DEF Disk
<1> HIDE DEF f, copied
<1>5. e1 \in Disk /\ e1.mnt = d.mnt /\ e1.img = d.img
  BY <1>2 DEF Disk
<1> HIDE DEF e1
<1>6. e \in Disk /\ e.mnt = d.mnt /\ e.img = d.img /\ e.files = f
  BY <1>4, <1>5 DEF Disk
<1> HIDE DEF e, t
<1>7. disk' \in [Servers -> Disk] /\ disk'[t] = e /\ \A s \in Servers : s # t => disk'[s] = disk[s]
  BY <1>2, <1>3, <1>6, SetDiskEffect DEF IInv
<1>8. Working(c) /\ Shape(c)' /\ cmd'[c] = "copied"
  BY <1>1, <1>7, NextStepWorks
<1>9. ASSUME Disks PROVE Disks'
  BY <1>2, <1>4, <1>6, <1>7, <1>9 DEF Disks
<1>10. ASSUME Orderly, Alone(c), Wanted, Moving(c), call[c].pc = "wait" PROVE Moving(c)'
  <2>1. call[c].path = "own"
    BY <1>1, <1>10 DEF Alone, Wanted, CreatedOk, At, Orderly, Placed
  <2>2. copied
    BY <1>1, <1>10, <2>1 DEF copied, Moving, Here, Host
  <2>3. Seen(disk'[t])
    BY <1>4, <1>6, <1>7, <2>2 DEF Seen
  <2> QED BY <1>1, <1>8, <1>10, <2>3 DEF Moving, Working, t, Seen
<1> QED BY <1>1, <1>8, <1>9, <1>10, MoveStepKeeps DEF Orderly

(* The source is unmounted; the target is another server. *)
LEMMA MoveUnmountKeeps ==
    ASSUME IInv, NEW c \in Calls, MoveUnmount(c)
    PROVE  IInv'
<1>1. /\ call[c].op = "move" /\ cmd[c] = "copied" /\ cmd' = [cmd EXCEPT ![c] = "unmounted"]
      /\ row' = row /\ snap' = snap /\ calm' = calm /\ call' = call
  BY DEF MoveUnmount, IInv, Wiring, Shape
<1>2. /\ Host(c) \in Servers /\ call[c].target \in Servers /\ call[c].target # Host(c)
      /\ disk \in [Servers -> Disk] /\ Here(c) = disk[Host(c)] /\ Here(c) \in Disk
  BY <1>1 DEF IInv, Wiring, Shape, TypeOK, Disk, Host, Here
<1>3. /\ disk' \in [Servers -> Disk]
      /\ \A s \in Servers : s # Host(c) => disk'[s] = disk[s]
      /\ disk'[Host(c)].files = Here(c).files /\ disk'[Host(c)].img = Here(c).img
      /\ disk'[Host(c)].mnt => Here(c).mnt
  <2>1. CASE disk' = disk
    BY <1>2, <2>1
  <2>2. CASE SetDisk(Host(c), [Here(c) EXCEPT !.mnt = FALSE])
    <3> DEFINE e == [Here(c) EXCEPT !.mnt = FALSE]
    <3>1. e \in Disk /\ e.files = Here(c).files /\ e.img = Here(c).img /\ e.mnt = FALSE
      BY <1>2 DEF Disk
    <3>2. SetDisk(Host(c), e)
      BY <2>2
    <3> HIDE DEF e
    <3> QED BY <1>2, <3>1, <3>2, SetDiskEffect DEF IInv
  <2> QED BY <2>1, <2>2 DEF MoveUnmount
<1>4. Working(c) /\ Shape(c)' /\ cmd'[c] = "unmounted"
  BY <1>1, <1>3, NextStepWorks
<1>5. ASSUME Disks PROVE Disks'
  BY <1>2, <1>3, <1>5 DEF Disks
<1>6. ASSUME Moving(c), call[c].pc = "wait" PROVE Moving(c)'
  BY <1>1, <1>2, <1>3, <1>4, <1>6 DEF Moving, Working, Seen
<1> QED BY <1>1, <1>4, <1>5, <1>6, MoveStepKeeps DEF Orderly

(* The source is removed, and the move confirmed. *)
LEMMA MoveRemoveKeeps ==
    ASSUME IInv, NEW c \in Calls, MoveRemove(c)
    PROVE  IInv'
<1>1. /\ call[c].op = "move" /\ cmd[c] = "unmounted" /\ Answer(c, "ok")
      /\ row' = row /\ snap' = snap /\ calm' = calm
  BY DEF MoveRemove, IInv, Wiring, Shape
<1>2. /\ Host(c) \in Servers /\ call[c].target \in Servers /\ call[c].target # Host(c)
      /\ disk[Host(c)] \in Disk /\ calm' \in BOOLEAN
  BY <1>1 DEF IInv, Wiring, Shape, TypeOK, Disk, Host
<1>3. /\ disk' \in [Servers -> Disk] /\ disk'[Host(c)] = NoDisk
      /\ \A s \in Servers : s # Host(c) => disk'[s] = disk[s]
  <2>1. NoDisk \in Disk
    <3>1. 0 \in 0..MaxSize
      BY VolumeAssumption
    <3> QED BY <1>2, <3>1, DiskOps
  <2> QED BY <1>2, <2>1, SetDiskEffect DEF MoveRemove, IInv
<1>4. /\ Working(c) /\ Shape(c)' /\ cmd'[c] = "none"
      /\ call' = call \/ (call[c].pc = "wait" /\ Moved(c, "finish", "ok"))
  BY <1>1, <1>2, <1>3, AnswerWorks DEF Outcomes
<1>5. ASSUME Disks PROVE Disks'
  BY <1>2, <1>3, <1>5 DEF Disks, NoDisk
<1>6. ASSUME Moving(c), call[c].pc = "wait" PROVE Moving(c)'
  <2>1. \A d \in Calls : call'[d].op = "move" => cmd'[d] = "none"
    BY <1>4, <1>6 DEF Moving, Working, Moved
  <2>2. Seen(disk'[call[c].target])
    BY <1>1, <1>2, <1>3, <1>6 DEF Moving
  <2>3. call'[c].target = call[c].target /\ call'[c].pc \in {"wait", "finish"}
    BY <1>4, <1>6 DEF Moved
  <2> QED BY <1>4, <2>1, <2>2, <2>3 DEF Moving, NoMoveUnderWay, Seen
<1> QED BY <1>1, <1>4, <1>5, <1>6, MoveStepKeeps DEF Orderly

(* A restart that mounts what was mounted shows the same contents: an image is
   never there without them, and never mounted without being there. *)
LEMMA RestartEffect ==
    ASSUME IInv, NEW s \in Servers, AgentRestarts(s)
    PROVE  /\ row' = row /\ call' = call /\ snap' = snap /\ (calm' => calm) /\ calm' \in BOOLEAN
           /\ cmd' \in [Calls -> Commands]
           /\ \A c \in Calls : cmd'[c] \in {cmd[c], "none"}
           /\ disk' \in [Servers -> Disk]
           /\ calm' /\ Disks =>
                 /\ Disks'
                 /\ \A t \in Servers : Seen(disk[t]) => Seen(disk'[t])
<1>1. PICK reboot \in BOOLEAN, mounts \in BOOLEAN :
        LET d == disk[s]
            up == [d EXCEPT !.mnt = d.mnt /\ ~reboot]
            lost == up.img > 0 /\ ~up.mnt /\ ~mounts
        IN  /\ SetDisk(s, IF up.img = 0 THEN up
                          ELSE IF lost THEN [up EXCEPT !.dir = TRUE]
                          ELSE Remounted(up))
            /\ calm' = (calm /\ ~lost)
  BY DEF AgentRestarts
<1> DEFINE d == disk[s]
           up == [d EXCEPT !.mnt = d.mnt /\ ~reboot]
           lost == up.img > 0 /\ ~up.mnt /\ ~mounts
           new == IF up.img = 0 THEN up ELSE IF lost THEN [up EXCEPT !.dir = TRUE]
                  ELSE Remounted(up)
<1>2. SetDisk(s, new) /\ calm' = (calm /\ ~lost)
  BY <1>1
<1>3. d \in Disk /\ calm \in BOOLEAN /\ cmd \in [Calls -> Commands]
  BY DEF IInv, TypeOK, Disk, Commands
<1>4. up \in Disk /\ up.img = d.img /\ up.files = d.files /\ up.img \in Nat /\ (up.mnt => d.mnt)
  <2> DEFINE b == d.mnt /\ ~reboot
  <2>1. d.img \in Nat
    BY <1>3, VolumeAssumption DEF Disk
  <2>2. b \in BOOLEAN /\ (b => d.mnt)
    OBVIOUS
  <2>3. up = [d EXCEPT !.mnt = b]
    OBVIOUS
  <2> HIDE DEF b, d, up
  <2>4. up \in Disk /\ up.img = d.img /\ up.files = d.files /\ up.mnt = b
    BY <1>3, <2>2, <2>3 DEF Disk
  <2> QED BY <2>1, <2>2, <2>4
<1> HIDE DEF up, d
<1>5. /\ [up EXCEPT !.dir = TRUE] \in Disk /\ Remounted(up) \in Disk
      /\ Remounted(up).mnt /\ Remounted(up).img = up.img /\ Remounted(up).files = up.files
  BY <1>4 DEF Disk, Remounted
<1>6. /\ new \in Disk
      /\ ~lost => /\ new.img = d.img /\ new.files = d.files
                  /\ up.img = 0 => new = up
                  /\ up.img # 0 => new.mnt
  BY <1>4, <1>5 DEF lost
<1>7. (calm' => calm) /\ calm' \in BOOLEAN /\ (calm' => ~lost)
  BY <1>2, <1>3, Zenon
<1> HIDE DEF lost, new
<1>8. disk' \in [Servers -> Disk] /\ disk'[s] = new /\ \A t \in Servers : t # s => disk'[t] = disk[t]
  BY <1>2, <1>6, SetDiskEffect DEF IInv
<1>9. cmd' \in [Calls -> Commands] /\ \A c \in Calls : cmd'[c] \in {cmd[c], "none"}
  BY <1>3 DEF AgentRestarts, Commands
<1>10. row' = row /\ call' = call /\ snap' = snap
  BY DEF AgentRestarts
<1>11. ASSUME calm', Disks
       PROVE  Disks' /\ \A t \in Servers : Seen(disk[t]) => Seen(disk'[t])
  <2>1. (d.mnt => d.img > 0) /\ (d.img > 0 => "img" \in d.files)
    BY <1>11 DEF Disks, d
  <2>2. (new.mnt => new.img > 0) /\ (new.img > 0 => "img" \in new.files)
    BY <1>4, <1>6, <1>7, <1>11, <2>1
  <2>3. Seen(d) => Seen(new)
    BY <1>4, <1>6, <1>7, <1>11, <2>1 DEF Seen
  <2> QED BY <1>8, <1>11, <2>2, <2>3 DEF Disks, d
<1> QED BY <1>7, <1>8, <1>9, <1>10, <1>11

(* An agent or its server restarts, and its commands are gone. *)
LEMMA AgentRestartsKeeps ==
    ASSUME IInv, NEW s \in Servers, AgentRestarts(s)
    PROVE  IInv'
<1>1. /\ row' = row /\ call' = call /\ snap' = snap /\ (calm' => calm) /\ calm' \in BOOLEAN
      /\ cmd' \in [Calls -> Commands]
      /\ \A c \in Calls : cmd'[c] \in {cmd[c], "none"}
      /\ disk' \in [Servers -> Disk]
      /\ calm' /\ Disks =>
            /\ Disks'
            /\ \A t \in Servers : Seen(disk[t]) => Seen(disk'[t])
  BY RestartEffect
<1>2. TypeOK'
  BY <1>1 DEF IInv, TypeOK, Commands, Disk
<1>3. Wiring'
  <2>1. \A c \in Calls : Shape(c)'
    BY <1>1, ShapeKept DEF IInv, Wiring
  <2> QED BY <1>1, <2>1 DEF IInv, Wiring, Created
<1>4. \A c \in Calls : Running(c) => row.server \in Servers
  BY DEF IInv, Wiring, Created, Running, Active
<1>5. ASSUME calm' PROVE Orderly'
  <2>0. Orderly
    BY <1>1, <1>5 DEF IInv
  <2>1. \A c \in Calls : Running(c)' => Alone(c)'
    BY <1>1, <2>0 DEF Orderly, Running, Alone, Exists
  <2>2. Settled' /\ \A c \in Calls : Placed(c)'
    BY <1>1, <2>0 DEF Orderly, Settled, Placed, Running
  <2>3. Disks'
    BY <1>1, <1>5, <2>0 DEF Orderly
  <2>4. \A c \in Calls : (call[c].op = "create" /\ Running(c) /\ call[c].res = "ok")' =>
           Seen(disk'[row.server])
    BY <1>1, <1>4, <1>5, <2>0 DEF Orderly, Running
  <2> QED BY <1>1, <2>1, <2>2, <2>3, <2>4 DEF Orderly, Seen
<1>6. ASSUME calm', Wanted' PROVE Kept'
  <2>1. Kept /\ Disks
    BY <1>1, <1>6 DEF IInv, Wanted, CreatedOk, At, Orderly
  <2>2. row.server \in Servers
    BY <1>1, <1>6 DEF IInv, Wiring, Created, Wanted, CreatedOk, At
  <2>3. Good => Good'
    BY <1>1, <1>6, <2>1, <2>2 DEF Good, NoMoveUnderWay, Seen
  <2>4. \A c \in Calls : Moving(c) /\ call[c].op = "move" => Moving(c)'
    <3>1. \A c \in Calls : call[c].op = "move" =>
             call[c].server \in Servers /\ call[c].target \in Servers
      BY DEF IInv, Wiring, Shape
    <3> QED BY <1>1, <1>6, <2>1, <2>3, <3>1 DEF Moving, NoMoveUnderWay, Success, Seen
  <2> QED BY <1>1, <2>1, <2>3, <2>4 DEF Kept, Running
<1> QED BY <1>2, <1>3, <1>5, <1>6 DEF IInv

-----------------------------------------------------------------------------
(* No volume, no call: the invariant holds at the start. *)
LEMMA InitIInv == Init => IInv
<1> SUFFICES ASSUME Init PROVE IInv
  OBVIOUS
<1>1. 0 \in 0..MaxSize
  BY VolumeAssumption
<1>2. NoCall \in Jobs
  BY <1>1 DEF NoCall, Jobs, Over
<1>3. NoDisk \in Disk
  BY <1>1 DEF NoDisk, Disk
<1>4. TypeOK
  <2>1. row \in Rows
    BY <1>1 DEF Init, Rows
  <2>2. call \in [Calls -> Jobs] /\ disk \in [Servers -> Disk]
    BY <1>2, <1>3 DEF Init
  <2>3. /\ cmd \in [Calls -> Commands] /\ snap \in [Calls -> {"none", "ok", "hollow"}]
        /\ calm \in BOOLEAN
    BY DEF Init, Commands
  <2> QED BY <2>1, <2>2, <2>3 DEF TypeOK, Rows, Jobs, Disk, Commands
<1>5. \A c \in Calls : /\ call[c] = NoCall /\ cmd[c] = "none" /\ snap[c] = "none"
                      /\ call[c].op = "none" /\ call[c].pc = "idle" /\ call[c].res = "none"
  BY DEF Init, NoCall
<1>6. row.status = "none"
  BY DEF Init
<1>7. Wiring
  BY <1>5, <1>6 DEF Wiring, Shape, Created, Outcomes
<1>8. Orderly
  <2>1. Disks
    <3>1. \A s \in Servers : disk[s].mnt = FALSE /\ disk[s].img = 0
      BY DEF Init, NoDisk
    <3>2. ~(0 > 0)
      OBVIOUS
    <3> QED BY <3>1, <3>2 DEF Disks
  <2> QED BY <1>5, <1>6, <2>1 DEF Orderly, Running, Active, Settled, Placed, Usable, Transients
<1>9. ~Wanted
  BY <1>5 DEF Wanted, CreatedOk, At
<1> QED BY <1>4, <1>7, <1>8, <1>9 DEF IInv

(* Every step keeps it. *)
LEMMA NextIInv == IInv /\ [Next]_vars => IInv'
<1> SUFFICES ASSUME IInv, [Next]_vars PROVE IInv'
  OBVIOUS
<1>1. ASSUME NEW c \in Calls, CallStep(c) PROVE IInv'
  BY <1>1, UpdateVolumeHostPathKeeps, UpdateVolumeAttachmentKeeps, MarkStatusKeeps, DispatchKeeps,
     FinishCreateKeeps, FinishDeleteKeeps, FinishMoveKeeps, FinishInPlaceKeeps, RestoreKeeps
     DEF CallStep
<1>2. ASSUME NEW c \in Calls, AgentStep(c) PROVE IInv'
  BY <1>2, HandleVolumeCreateKeeps, HandleVolumeDeleteKeeps, MoveFailsKeeps, MoveRsyncKeeps,
     MoveUnmountKeeps, MoveRemoveKeeps, HandleVolumeSnapshotKeeps, ResizeCommandKeeps
     DEF AgentStep
<1>3. CASE UNCHANGED vars
  BY <1>3 DEF vars, IInv, TypeOK, Wiring, Shape, Created, Orderly, Alone, Running, Exists, Settled,
     Placed, Disks, Seen, Kept, Good, NoMoveUnderWay, Moving, Success, Wanted, CreatedOk, At
<1> QED
  BY <1>1, <1>2, <1>3, CreateKeeps, MoveKeeps, RequestKeeps, ResizeKeeps, CutOffKeeps,
     StatementRefusedKeeps, AgentRestartsKeeps DEF Next

(* The whole invariant, for any number of calls, servers and sizes, and with or
   without overlapping calls. *)
THEOREM Invariance == Spec => []IInv
BY InitIInv, NextIInv, PTL DEF Spec

(* The row, the calls, the commands and the disks keep their types: in
   particular a size never leaves its range and a status is a status of the
   volumes table. *)
THEOREM TypeOKHolds == Spec => []TypeOK
<1>1. IInv => TypeOK
  BY DEF IInv
<1> QED BY <1>1, Invariance, PTL

(* Service's Move, Resize, Snapshot, Attach and Detach leave a usable status
   only where the contents are: whatever was lost, timed out, cut off, restarted
   or finished late. *)
THEOREM UsableMeansDataHolds == Spec => []UsableMeansData
<1>1. IInv => UsableMeansData
  BY DEF IInv, Kept, Good, Seen, UsableMeansData, Held
<1> QED BY <1>1, Invariance, PTL

(* Calls that have returned have settled the status, and "attached" goes with a
   container. *)
THEOREM IdleIsSettledHolds == Spec => []IdleIsSettled
<1>1. IInv => IdleIsSettled
  BY DEF IInv, Orderly, Settled, Transients, TypeOK, Statuses, Running, Active, IdleIsSettled
<1> QED BY <1>1, Invariance, PTL

(* The snapshots that volume_snapshots records of a usable volume are whole. *)
THEOREM SnapshotsWholeHolds == Spec => []SnapshotsWhole
<1>1. IInv => SnapshotsWhole
  BY DEF IInv, Wiring, Shape, Kept, SnapshotsWhole, TypeOK
<1> QED BY <1>1, Invariance, PTL
=============================================================================
