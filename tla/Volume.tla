------------------------------- MODULE Volume -------------------------------
(***************************************************************************)
(* One volume: its row, the API calls of internal/volume/service.go, and   *)
(* the commands they send to the agents of the servers that hold its       *)
(* directory and its loopback image (apps/agent/volume.go).                *)
(*                                                                         *)
(* Every call reads the row once and works on what it read; between its    *)
(* statements other calls, agents and restarts take their steps.  An agent *)
(* starts a goroutine for each command, so commands to one server          *)
(* interleave, and a command goes on after its call has given up.          *)
(*                                                                         *)
(* disk[s] is the volume's place on server s: img, the size of <id>.img    *)
(* (0 without a file); mnt, whether it is mounted on <id>/; dir, whether   *)
(* <id>/ exists; files, where the volume's contents are: in the image      *)
(* ("img") or in the directory under the mount ("dir").                    *)
(*                                                                         *)
(* Abstracted: used_bytes, names, snapshot paths, the list queries, and    *)
(* arguments the HTTP handler refuses.  The rm and umount commands of an   *)
(* agent on its own disk succeed unless the code handles their failure.    *)
(***************************************************************************)
EXTENDS Naturals

CONSTANTS
    Servers,    \* the members of the volume's cluster
    NoServer,
    MaxCalls,   \* bound on API calls
    MaxSize,    \* bound on size_gb
    Overlap     \* whether clients call while an earlier call is running

ASSUME VolumeAssumption ==
    /\ NoServer \notin Servers
    /\ MaxCalls \in Nat /\ MaxSize \in Nat \ {0}
    /\ Overlap \in BOOLEAN

VARIABLES
    row,        \* the volumes row; status "none" before, "deleted" after
    call,       \* the API calls
    cmd,        \* the command of each call, at the agent
    disk,       \* the volume on each server
    snap,       \* volume_snapshots row of each call, and what its tarball holds
    calm        \* history: no two calls have overlapped, no remount failed, and every
                \* image was grown as its resize had found it

vars == <<row, call, cmd, disk, snap, calm>>

Calls == 1..MaxCalls
Ops == {"create", "delete", "attach", "detach", "move", "snapshot", "resize"}
Usable == {"unattached", "attached"}
Statuses == Usable \union {"moving", "snapshotting", "resizing", "error"}
Active == {"path", "write", "mark", "send", "wait", "finish", "restore"}
Outcomes == {"ok", "hollow", "failed"}

(* A call that is not running: not begun, returned, returned because the
   UPDATE that was to settle the row was refused, or cut off. *)
Over == {"idle", "done", "refused", "cut"}

NoDisk == [img |-> 0, mnt |-> FALSE, dir |-> FALSE, files |-> {}]
NoCall == [op |-> "none", pc |-> "idle", prev |-> "none", server |-> NoServer,
           path |-> "/", target |-> NoServer, size |-> 0, res |-> "none"]

TypeOK ==
    /\ row \in [status : Statuses \union {"none", "deleted"},
                server : Servers \union {NoServer}, path : {"/", "own"},
                size : 0..MaxSize, container : BOOLEAN]
    /\ call \in [Calls -> [op : Ops \union {"none"},
                           pc : Active \union Over,
                           prev : Statuses \union {"none", "deleted"},
                           server : Servers \union {NoServer},
                           path : {"/", "own"},
                           target : Servers \union {NoServer},
                           size : 0..MaxSize,
                           res : Outcomes \union {"none", "error"}]]
    /\ cmd \in [Calls -> {"none", "sent", "copied", "unmounted", "grow"}]
    /\ disk \in [Servers -> [img : 0..MaxSize, mnt : BOOLEAN, dir : BOOLEAN,
                             files : SUBSET {"img", "dir"}]]
    /\ snap \in [Calls -> {"none", "ok", "hollow"}]
    /\ calm \in BOOLEAN

Init ==
    /\ row = [status |-> "none", server |-> NoServer, path |-> "/",
              size |-> 0, container |-> FALSE]
    /\ call = [c \in Calls |-> NoCall]
    /\ cmd = [c \in Calls |-> "none"]
    /\ disk = [s \in Servers |-> NoDisk]
    /\ snap = [c \in Calls |-> "none"]
    /\ calm = TRUE

-----------------------------------------------------------------------------
Exists == row.status \notin {"none", "deleted"}
Running(c) == call[c].pc \in Active
At(c, op, pc) == call[c].op = op /\ call[c].pc = pc

Goto(c, pc) == call' = [call EXCEPT ![c].pc = pc]
End(c, res) == call' = [call EXCEPT ![c].pc = "finish", ![c].res = res]

(* UPDATE ... WHERE id: nothing happens once the row is gone. *)
SetStatus(st) == row' = IF Exists THEN [row EXCEPT !.status = st] ELSE row

(* GetVolume: a call, with what it reads of the row. *)
GetVolume(op, pc) ==
    [NoCall EXCEPT !.op = op, !.pc = pc, !.prev = row.status,
                   !.server = row.server, !.path = row.path]

Begin(c, new) ==
    /\ call[c].pc = "idle" /\ \A d \in 1..(c - 1) : call[d].pc # "idle"
    /\ Overlap \/ \A d \in Calls : ~Running(d)
    /\ call' = [call EXCEPT ![c] = new]
    /\ calm' = (calm /\ \A d \in Calls : ~Running(d))
    /\ UNCHANGED <<cmd, disk, snap>>

Create(c, s) ==
    /\ row.status = "none"
    /\ row' = [status |-> "unattached", server |-> s, path |-> "/",
               size |-> 1, container |-> FALSE]
    /\ Begin(c, [NoCall EXCEPT !.op = "create", !.pc = "path",
                           !.server = s, !.size = 1])

UpdateVolumeHostPath(c) ==
    /\ At(c, "create", "path")
    /\ row' = IF Exists THEN [row EXCEPT !.path = "own"] ELSE row
    /\ call' = [call EXCEPT ![c].pc = "send", ![c].path = "own"]
    /\ UNCHANGED <<cmd, disk, snap, calm>>

Delete(c) ==
    /\ Exists /\ row.status # "attached"
    /\ Begin(c, GetVolume("delete", "send"))
    /\ UNCHANGED row

Attach(c) ==
    /\ row.status = "unattached"
    /\ Begin(c, GetVolume("attach", "write"))
    /\ UNCHANGED row

Detach(c) ==
    /\ row.status = "attached"
    /\ Begin(c, GetVolume("detach", "write"))
    /\ UNCHANGED row

(* UPDATE ... RETURNING of Attach and Detach. *)
UpdateVolumeAttachment(c) ==
    /\ At(c, "attach", "write") \/ At(c, "detach", "write")
    /\ LET on == call[c].op = "attach"
       IN  row' = IF Exists
                    THEN [row EXCEPT !.container = on,
                            !.status = IF on THEN "attached" ELSE "unattached"]
                    ELSE row
    /\ Goto(c, "done")
    /\ UNCHANGED <<cmd, disk, snap, calm>>

Move(c, t) ==
    /\ row.status \in Usable
    /\ t # row.server
    /\ Begin(c, [GetVolume("move", "mark") EXCEPT !.target = t])
    /\ UNCHANGED row

Snapshot(c) ==
    /\ Exists
    /\ Begin(c, GetVolume("snapshot", "mark"))
    /\ UNCHANGED row

Resize(c, size) ==
    /\ Exists /\ size > row.size
    /\ Begin(c, [GetVolume("resize", "mark") EXCEPT !.size = size])
    /\ UNCHANGED row

Transient(op) == [move |-> "moving", snapshot |-> "snapshotting",
                  resize |-> "resizing"][op]

(* UpdateVolumeStatus to the operation's own status; no row is an error. *)
MarkStatus(c) ==
    /\ call[c].pc = "mark"
    /\ SetStatus(Transient(call[c].op))
    /\ Goto(c, IF Exists THEN "send" ELSE "done")
    /\ UNCHANGED <<cmd, disk, snap, calm>>

-----------------------------------------------------------------------------
(* dispatch: look the agent up, register the channel, send, wait.  A command
   that is lost is one its agent never gets to. *)

Dispatch(c) ==
    /\ call[c].pc = "send"
    /\ Goto(c, "wait")
    /\ cmd' = [cmd EXCEPT ![c] = "sent"]
    /\ UNCHANGED <<row, disk, snap, calm>>

(* No agent on record, or SendToAgent refuses. *)
DispatchFails(c) ==
    /\ call[c].pc = "send"
    /\ End(c, "error")
    /\ UNCHANGED <<row, cmd, disk, snap, calm>>

(* A result reaches the call that still waits for it, unless it is lost on
   the way; one that nobody waits for any more is dropped. *)
HandleResult(c, outcome) ==
    \/ call[c].pc = "wait" /\ End(c, outcome)
    \/ UNCHANGED call

\* Bug: a timeout only when the caller's context has a deadline, which a
\* request's has not.
TimesOutWithDeadline(c) ==
    /\ call[c].pc = "wait" /\ call[c].op \notin Ops
    /\ End(c, "error")
    /\ UNCHANGED <<row, cmd, disk, snap, calm>>

TimesOut(c) ==
    /\ call[c].pc = "wait"
    /\ End(c, "error")
    /\ UNCHANGED <<row, cmd, disk, snap, calm>>

(* The request's context is cancelled, or the control plane stops: none of
   the call's further statements takes effect. *)
CutOff(c) ==
    /\ Running(c)
    /\ Goto(c, "cut")
    /\ UNCHANGED <<row, cmd, disk, snap, calm>>

Success(c) == call[c].res \in {"ok", "hollow"}

(* Create looks at dispatch's error only, not at the agent's verdict. *)
FinishCreate(c) ==
    /\ At(c, "create", "finish")
    /\ IF call[c].res = "error" THEN SetStatus("error") ELSE UNCHANGED row
    /\ Goto(c, "done")
    /\ UNCHANGED <<cmd, disk, snap, calm>>

(* "removing record anyway": whatever the agent said; snapshots go with it. *)
FinishDelete(c) ==
    /\ At(c, "delete", "finish")
    /\ SetStatus("deleted")
    /\ snap' = [d \in Calls |-> "none"]
    /\ Goto(c, "done")
    /\ UNCHANGED <<cmd, disk, calm>>

\* Bug: a failed move restores the status, as a failed resize does.
FinishMoveRestores(c) ==
    /\ At(c, "move", "finish")
    /\ row' = IF ~Exists THEN row
              ELSE IF Success(c) THEN [row EXCEPT !.server = call[c].target,
                                                  !.status = call[c].prev]
              ELSE [row EXCEPT !.status = call[c].prev]
    /\ Goto(c, "done")
    /\ UNCHANGED <<cmd, disk, snap, calm>>

FinishMove(c) ==
    /\ At(c, "move", "finish")
    /\ row' = IF ~Exists THEN row
              ELSE IF Success(c) THEN [row EXCEPT !.server = call[c].target,
                                                  !.status = call[c].prev]
              ELSE [row EXCEPT !.status = "error"]
    /\ Goto(c, "done")
    /\ UNCHANGED <<cmd, disk, snap, calm>>

\* Bug: only dispatch's error is looked at, as in Create.
FinishSnapshotUnchecked(c) ==
    /\ At(c, "snapshot", "finish")
    /\ snap' = IF call[c].res # "error" /\ Exists
                 THEN [snap EXCEPT ![c] = IF call[c].res = "ok" THEN "ok"
                                          ELSE "hollow"]
                 ELSE snap
    /\ Goto(c, "restore")
    /\ UNCHANGED <<row, cmd, disk, calm>>

(* CreateVolumeSnapshot, which may be refused; its row needs the volume's. *)
FinishSnapshot(c) ==
    /\ At(c, "snapshot", "finish")
    /\ \/ snap' = IF Success(c) /\ Exists
                    THEN [snap EXCEPT ![c] = call[c].res] ELSE snap
       \/ UNCHANGED snap
    /\ Goto(c, "restore")
    /\ UNCHANGED <<row, cmd, disk, calm>>

\* Bug: the new size is taken for an increment.
FinishResizeAdds(c) ==
    /\ At(c, "resize", "finish")
    /\ row' = IF Exists /\ Success(c) THEN [row EXCEPT !.size = @ + call[c].size]
              ELSE row
    /\ Goto(c, "restore")
    /\ UNCHANGED <<cmd, disk, snap, calm>>

\* Bug: an early return after a failure forgets the status.
FinishResizeForgets(c) ==
    /\ At(c, "resize", "finish")
    /\ row' = IF Exists /\ Success(c) THEN [row EXCEPT !.size = call[c].size]
              ELSE row
    /\ Goto(c, IF Success(c) THEN "restore" ELSE "done")
    /\ UNCHANGED <<cmd, disk, snap, calm>>

FinishResize(c) ==
    /\ At(c, "resize", "finish")
    /\ row' = IF Exists /\ Success(c) THEN [row EXCEPT !.size = call[c].size]
              ELSE row
    /\ Goto(c, "restore")
    /\ UNCHANGED <<cmd, disk, snap, calm>>

(* Snapshot's deferred and Resize's last UpdateVolumeStatus. *)
Restore(c) ==
    /\ call[c].pc = "restore"
    /\ SetStatus(call[c].prev)
    /\ Goto(c, "done")
    /\ UNCHANGED <<cmd, disk, snap, calm>>

(* The database refuses the statement, and the call returns with the row as it
   stands: host_path, attachment and mark before a command was sent, "error"
   and DELETE after it; Move's last UPDATE, Resize's of the size, and the one
   that restores the status, which leave the operation's own status behind. *)
StatementRefused(c) ==
    /\ \/ call[c].pc \in {"path", "write", "mark"} /\ Goto(c, "done")
       \/ At(c, "create", "finish") /\ call[c].res = "error" /\ Goto(c, "done")
       \/ At(c, "delete", "finish") /\ Goto(c, "done")
       \/ At(c, "move", "finish") /\ Goto(c, "refused")
       \/ At(c, "resize", "finish") /\ Success(c) /\ Goto(c, "refused")
       \/ call[c].pc = "restore" /\ Goto(c, "refused")
    /\ UNCHANGED <<row, cmd, disk, snap, calm>>

-----------------------------------------------------------------------------
(* The agent of call[c].server. *)

Host(c) == call[c].server
Here(c) == disk[Host(c)]
GotCommand(c, op) == call[c].op = op /\ cmd[c] = "sent"

(* What a reader of <id>/ sees, and so what rsync and tar copy. *)
Seen(d) == IF d.mnt THEN "img" \in d.files ELSE "dir" \in d.files

(* The handler ends and sends its result. *)
Answer(c, outcome) ==
    /\ cmd' = [cmd EXCEPT ![c] = "none"]
    /\ HandleResult(c, outcome)

SetDisk(s, d) == disk' = [disk EXCEPT ![s] = d]

(* ensureLoopbackVolume with a size: truncate, mkfs.ext4, mount. *)
Mounted(d, size) ==
    [d EXCEPT !.dir = TRUE, !.mnt = TRUE,
              !.img = IF d.img = 0 THEN size ELSE d.img,
              !.files = d.files \union {"img"}]

HandleVolumeCreate(c) ==
    /\ GotCommand(c, "create")
    /\ \/ SetDisk(Host(c), Mounted(Here(c), call[c].size)) /\ Answer(c, "ok")
       \/ SetDisk(Host(c), [Here(c) EXCEPT !.dir = TRUE]) /\ Answer(c, "failed")
       \/ SetDisk(Host(c), [Mounted(Here(c), call[c].size)
                               EXCEPT !.mnt = Here(c).mnt])
            /\ Answer(c, "failed")
    /\ UNCHANGED <<row, snap, calm>>

(* A path outside the volumes root is refused; RemoveAll may fail. *)
HandleVolumeDelete(c) ==
    /\ GotCommand(c, "delete")
    /\ \/ call[c].path = "/" /\ UNCHANGED disk /\ Answer(c, "failed")
       \/ call[c].path = "own" /\ SetDisk(Host(c), NoDisk) /\ Answer(c, "ok")
       \/ /\ call[c].path = "own"
          /\ SetDisk(Host(c), [NoDisk EXCEPT !.dir = TRUE])
          /\ Answer(c, "failed")
    /\ UNCHANGED <<row, snap, calm>>

(* mkdir on the target or rsync fails; a part of the contents is none. *)
MoveFails(c) ==
    /\ GotCommand(c, "move")
    /\ \E made \in BOOLEAN :
         SetDisk(call[c].target, [disk[call[c].target] EXCEPT !.dir = @ \/ made])
    /\ Answer(c, "failed")
    /\ UNCHANGED <<row, snap, calm>>

(* rsync of the directory's contents, without the image, into the target's
   directory.  rsync fails when the source does not exist. *)
MoveRsync(c) ==
    /\ GotCommand(c, "move")
    /\ call[c].path = "/" \/ Here(c).dir
    /\ LET t == disk[call[c].target]
           place == IF t.mnt THEN "img" ELSE "dir"
           copied == call[c].path = "own" /\ Seen(Here(c))
       IN  SetDisk(call[c].target,
                   [t EXCEPT !.dir = TRUE,
                             !.files = @ \union IF copied THEN {place} ELSE {}])
    /\ cmd' = [cmd EXCEPT ![c] = "copied"]
    /\ UNCHANGED <<row, call, snap, calm>>

MoveUnmount(c) ==
    /\ cmd[c] = "copied"
    /\ IF call[c].path = "own" THEN SetDisk(Host(c), [Here(c) EXCEPT !.mnt = FALSE])
                               ELSE UNCHANGED disk
    /\ cmd' = [cmd EXCEPT ![c] = "unmounted"]
    /\ UNCHANGED <<row, call, snap, calm>>

(* os.Remove(image) and os.RemoveAll(source): with the placeholder path, all
   that the server has. *)
MoveRemove(c) ==
    /\ cmd[c] = "unmounted"
    /\ SetDisk(Host(c), NoDisk)
    /\ Answer(c, "ok")
    /\ UNCHANGED <<row, snap, calm>>

HandleVolumeSnapshot(c) ==
    /\ GotCommand(c, "snapshot")
    /\ \/ Answer(c, "failed")
       \/ /\ call[c].path = "/" \/ Here(c).dir
          /\ Answer(c, IF call[c].path = "own" /\ Seen(Here(c))
                         THEN "ok" ELSE "hollow")
    /\ UNCHANGED <<row, disk, snap, calm>>

(* Without an image the declared size is a soft quota. *)
HasImage(c) == call[c].path = "own" /\ Here(c).img > 0

HandleVolumeResize(c) ==
    /\ GotCommand(c, "resize")
    /\ \/ ~HasImage(c) /\ Answer(c, "ok")
       \/ HasImage(c) /\ call[c].size <= Here(c).img /\ Answer(c, "failed")
       \/ /\ HasImage(c) /\ call[c].size > Here(c).img
          /\ cmd' = [cmd EXCEPT ![c] = "grow"]
          /\ UNCHANGED call
    /\ UNCHANGED <<row, disk, snap, calm>>

(* truncate -s, then losetup and resize2fs, which may fail.  truncate creates
   a file that is gone, and shrinks one that has become larger. *)
GrowLoopbackVolume(c) ==
    /\ cmd[c] = "grow"
    /\ SetDisk(Host(c), [Here(c) EXCEPT !.img = call[c].size])
    /\ \E outcome \in {"ok", "failed"} : Answer(c, outcome)
    /\ calm' = (calm /\ HasImage(c) /\ call[c].size > Here(c).img)
    /\ UNCHANGED <<row, snap>>

(* ensureLoopbackVolume on an image that exists: one without a file system is
   formatted first, and what the directory holds is hidden by the mount. *)
Remounted(d) == [d EXCEPT !.dir = TRUE, !.mnt = TRUE]

(* The agent, or its whole server, restarts: its handlers are gone, and
   reconcileVolumeMounts mounts the image again, if it can. *)
AgentRestarts(s) ==
    /\ cmd' = [c \in Calls |-> IF Host(c) = s THEN "none" ELSE cmd[c]]
    /\ \E reboot, mounts \in BOOLEAN :
         LET d == disk[s]
             up == [d EXCEPT !.mnt = d.mnt /\ ~reboot]
             lost == up.img > 0 /\ ~up.mnt /\ ~mounts
         IN  /\ SetDisk(s, IF up.img = 0 THEN up
                           ELSE IF lost THEN [up EXCEPT !.dir = TRUE]
                           ELSE Remounted(up))
             /\ calm' = (calm /\ ~lost)
    /\ UNCHANGED <<row, call, snap>>

-----------------------------------------------------------------------------
CallStep(c) ==
    \/ UpdateVolumeHostPath(c)
    \/ UpdateVolumeAttachment(c)
    \/ MarkStatus(c)
    \/ Dispatch(c)
    \/ DispatchFails(c)
    \/ TimesOut(c)
    \/ FinishCreate(c)
    \/ FinishDelete(c)
    \/ FinishMove(c)
    \/ FinishSnapshot(c)
    \/ FinishResize(c)
    \/ Restore(c)

AgentStep(c) ==
    \/ HandleVolumeCreate(c)
    \/ HandleVolumeDelete(c)
    \/ MoveFails(c)
    \/ MoveRsync(c)
    \/ MoveUnmount(c)
    \/ MoveRemove(c)
    \/ HandleVolumeSnapshot(c)
    \/ HandleVolumeResize(c)
    \/ GrowLoopbackVolume(c)

Next ==
    \/ \E c \in Calls :
         \/ \E s \in Servers : Create(c, s) \/ Move(c, s)
         \/ Delete(c)
         \/ Attach(c)
         \/ Detach(c)
         \/ Snapshot(c)
         \/ \E size \in 1..MaxSize : Resize(c, size)
         \/ CallStep(c)
         \/ AgentStep(c)
         \/ StatementRefused(c)
         \/ CutOff(c)
    \/ \E s \in Servers : AgentRestarts(s)

Spec == Init /\ [][Next]_vars

FairSpec == Spec /\ \A c \in Calls : WF_vars(CallStep(c))

-----------------------------------------------------------------------------
(* The agent confirmed the creation, and nobody has asked for the volume to be
   deleted. *)
CreatedOk == \E c \in Calls : At(c, "create", "done") /\ call[c].res = "ok"
Wanted == CreatedOk /\ \A c \in Calls : call[c].op # "delete"

Held(s) == "img" \in disk[s].files \/ ("dir" \in disk[s].files /\ ~disk[s].mnt)

(* A volume whose status lets it be attached or moved has its contents on the
   server its row names, whatever calls were lost, timed out, cut off or
   finished late by an agent, as long as calls did not overlap and no late
   resize met another image: an operation that may have taken the contents
   elsewhere leaves no usable status. *)
UsableMeansData ==
    calm /\ Wanted /\ row.status \in Usable => Held(row.server)

(* A call that has returned, after a success, an error of the agent, a timeout
   or a refused first statement, has left no status of an operation in progress
   behind, and "attached" goes with a container.  Exempt are calls that were cut
   off or overlapped, and those whose settling UPDATE was itself refused: they
   return with "moving", "resizing" or "snapshotting" in the row, and no later
   call but a delete, a snapshot or a resize accepts it. *)
IdleIsSettled ==
    calm /\ (\A c \in Calls : call[c].pc \in {"idle", "done"}) =>
        /\ row.status \in Usable \union {"error", "none", "deleted"}
        /\ row.status \in Usable =>
              (row.container <=> row.status = "attached")

(* A recorded snapshot of a volume that was usable when Snapshot read it is a
   tarball of its contents, not of an empty mount point. *)
SnapshotsWhole ==
    calm /\ Wanted =>
        \A c \in Calls : call[c].prev \in Usable => snap[c] # "hollow"

(* Every call returns, although commands and results are lost and agents
   restart: dispatch does not wait for ever. *)
CallReturns == \A c \in Calls : Running(c) ~> ~Running(c)

-----------------------------------------------------------------------------
(* Statements of the repository that the code does not keep. *)

(* "placeholder; rewritten immediately" (host_path "/" in Create): no agent
   moves what is at the placeholder. *)
PlaceholderNeverMoved ==
    \A c \in Calls : cmd[c] \in {"copied", "unmounted"} => call[c].path = "own"
=============================================================================
