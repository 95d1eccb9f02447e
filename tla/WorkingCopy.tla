---------------------------- MODULE WorkingCopy -----------------------------
(***************************************************************************)
(* The files of a working copy and what the svn processes that svn_curses  *)
(* starts do to them: "svn st", "svn add", "svn rm" and "svn up" of the    *)
(* Subversion client.  Paths are files of one directory, without           *)
(* properties; a conflict is postponed and its mark is left out.           *)
(*                                                                         *)
(* One process runs at a time.  It looks at the files and writes them in   *)
(* several steps, between which other programs may change them too.        *)
(*                                                                         *)
(* Definitions marked "Fault" are wrong variants of the one that follows.  *)
(***************************************************************************)
EXTENDS Naturals

CONSTANT Path

VARIABLES
  node,  \* what the database of the working copy says of each path
  disk,  \* what is on the disk: nothing, the repository's text, or another
  job,   \* the svn process: its step, its targets, those it has still to
         \* deal with, and whether a target was found on the disk
  queue  \* its work queue: what it has still to do to each file

files == <<node, disk>>
vars  == <<node, disk, job, queue>>

Node == {"none", "normal", "added", "deleted", "replaced"}
Disk == {"absent", "base", "edited"}
Work == {"none", "install", "merge", "remove"}
Job  == [step : {"idle", "add", "check", "restore", "edit", "work", "done"},
         targets : SUBSET Path, todo : SUBSET Path, exists : BOOLEAN]

process(step, ts, todo, exists) ==
  [step |-> step, targets |-> ts, todo |-> todo, exists |-> exists]
Idle == process("idle", {}, {}, FALSE)

\* The first column of "svn st"; nothing is printed for " ".  A file of the
\* recorded size and time is taken to be unmodified: "base" is every file
\* that svn takes for the recorded text, "edited" every other.
letter(n, d) ==
  CASE n = "deleted"                         -> "D"
    [] n = "none" /\ d = "absent"            -> " "
    [] n = "none" /\ d # "absent"            -> "?"
    [] n \notin {"none", "deleted"} /\ d = "absent" -> "!"
    [] n = "added" /\ d # "absent"           -> "A"
    [] n = "replaced" /\ d # "absent"        -> "R"
    [] n = "normal" /\ d = "base"            -> " "
    [] n = "normal" /\ d = "edited"          -> "M"
status(p) == letter(node[p], disk[p])

\* The same for a path whose entries in the database and in the directory
\* were n and d when they were read: only a file that did not have the
\* recorded size and time is looked at again, and not if it has gone.
reported(p, n, d) ==
  letter(n, IF n = "normal" /\ d = "edited" /\ disk[p] # "edited"
            THEN "base" ELSE d)

\* A text that is nowhere but in this file.
unsaved(p) == disk[p] = "edited"

Init ==
  /\ node \in [Path -> {"none", "normal"}]
  /\ disk \in [Path -> {"absent", "edited"}]
  /\ job = Idle /\ queue = [p \in Path |-> "none"]

-----------------------------------------------------------------------------
(***************************************************************************)
(* svn add deals with one target after the other and passes over those     *)
(* that are not there or are under version control.                        *)
(***************************************************************************)
StartAdd(ts) ==
  /\ job.step = "idle"
  /\ job' = process(IF ts = {} THEN "done" ELSE "add", ts, ts, FALSE)
  /\ UNCHANGED <<files, queue>>

\* The process after it has dealt with p.
done(p) ==
  process(IF job.todo = {p} THEN "done" ELSE job.step, job.targets,
          job.todo \ {p}, job.exists)

canAdd(p) == disk[p] # "absent" /\ node[p] \in {"none", "deleted"}

AddOne(p) ==
  /\ job.step = "add" /\ p \in job.todo
  /\ node' = IF canAdd(p)
             THEN [node EXCEPT ![p] = IF @ = "none" THEN "added" ELSE "replaced"]
             ELSE node
  /\ job' = done(p)
  /\ UNCHANGED <<disk, queue>>

-----------------------------------------------------------------------------
(***************************************************************************)
(* svn rm without --force checks all targets, unless it keeps the files,   *)
(* then marks all of them in the database and queues the removal of their  *)
(* files, and then runs the queue.                                         *)
(***************************************************************************)
afterDelete(n) == IF n \in {"none", "added"} THEN "none" ELSE "deleted"

\* Marks in one transaction; erases nothing if no target was on the disk.
mark(ts, keep) ==
  /\ node' = [p \in Path |-> IF p \in ts THEN afterDelete(node[p]) ELSE node[p]]
  /\ queue' = [p \in Path |-> IF p \in ts /\ ~keep THEN "remove" ELSE queue[p]]
  /\ job' = process("work", ts, {}, FALSE)
  /\ UNCHANGED disk

StartRemove(ts, keepLocal) ==
  /\ job.step = "idle"
  /\ IF keepLocal /\ ts # {}
     THEN mark(ts, TRUE)
     ELSE /\ job' = process(IF ts = {} THEN "done" ELSE "check", ts, ts, FALSE)
          /\ UNCHANGED <<files, queue>>

\* Fault: modified files may be deleted too.
deletableIfVersioned(p) == status(p) \notin {"?", "A", "R"} /\ node[p] # "none"

\* find_undeletables: deleted paths pass, whatever is on the disk.
deletable(p) == node[p] # "none" /\ status(p) \notin {"A", "R", "M"}

\* Fault: each target is marked as soon as it is checked.
CheckAndMarkOne(p) ==
  /\ job.step = "check" /\ p \in job.todo
  /\ IF deletable(p)
     THEN /\ node' = [node EXCEPT ![p] = afterDelete(@)]
          /\ job' = done(p)
     ELSE job' = process("done", job.targets, {}, FALSE) /\ UNCHANGED node
  /\ UNCHANGED <<disk, queue>>

CheckOne(p) ==
  /\ job.step = "check" /\ p \in job.todo
  /\ job' = IF deletable(p)
            THEN process("check", job.targets, job.todo \ {p},
                         job.exists \/ status(p) # "!")
            ELSE process("done", job.targets, {}, FALSE)
  /\ UNCHANGED <<files, queue>>

MarkAll ==
  /\ job.step = "check" /\ job.todo = {}
  /\ mark(job.targets, ~job.exists)

-----------------------------------------------------------------------------
(***************************************************************************)
(* The work queue.  An item was decided upon when svn looked at the file;  *)
(* it is run without another look.                                         *)
(***************************************************************************)
queued(p, work) == queue' = [queue EXCEPT ![p] = work]
idleQueue == \A p \in Path : queue[p] = "none"

\* What an item leaves on the disk.  A merge has the text svn has looked at
\* in it.
written(work) ==
  CASE work = "remove"  -> "absent"
    [] work = "install" -> "base"
    [] work = "merge"   -> "edited"

RunItem(p) ==
  /\ queue[p] # "none"
  /\ disk' = [disk EXCEPT ![p] = written(queue[p])]
  /\ queued(p, "none")
  /\ UNCHANGED <<node, job>>

EndWork ==
  /\ job.step = "work" /\ idleQueue
  /\ job' = process("done", job.targets, {}, FALSE)
  /\ UNCHANGED <<files, queue>>

\* svn has looked at the file and may still write it.
looked(p) ==
  \/ job.step = "check" /\ p \in job.targets \ job.todo
  \/ queue[p] # "none"

-----------------------------------------------------------------------------
(***************************************************************************)
(* svn up.  It first restores the files that are missing: those that are   *)
(* not in the directory when it is read and not there when they are looked *)
(* for once more.                                                          *)
(***************************************************************************)
StartUpdate ==
  /\ job.step = "idle"
  /\ job' = process("restore", {},
                    {p \in Path : node[p] = "normal" /\ disk[p] = "absent"},
                    FALSE)
  /\ UNCHANGED <<files, queue>>

Restore(p) ==
  /\ job.step = "restore" /\ p \in job.todo /\ idleQueue
  /\ queued(p, IF disk[p] = "absent" THEN "install" ELSE "none")
  /\ job' = process("restore", {}, job.todo \ {p}, FALSE)
  /\ UNCHANGED files

\* Everything is reported to the repository, which answers with changes.
Report ==
  /\ job.step = "restore" /\ job.todo = {} /\ idleQueue
  /\ job' = process("edit", {}, Path, FALSE)
  /\ UNCHANGED <<files, queue>>

\* A change of the repository to p makes its entry n and queues work.
edit(p, n, work) ==
  /\ job.step = "edit" /\ p \in job.todo
  /\ node' = [node EXCEPT ![p] = n]
  /\ queued(p, work)
  /\ job' = process("edit", {}, job.todo \ {p}, FALSE)
  /\ UNCHANGED disk

\* Deleted in the repository.  An edited file is kept, as a copy of what
\* was deleted; a replacement is kept as an addition.
delete_entry(p) ==
  \/ /\ node[p] = "normal"
     /\ IF unsaved(p) THEN edit(p, "added", "none") ELSE edit(p, "none", "remove")
  \/ node[p] = "deleted"  /\ edit(p, "none", "none")
  \/ node[p] = "replaced" /\ edit(p, "added", "none")

\* Added in the repository.  A file that is in the way is kept.
add_file(p) ==
  \/ /\ node[p] = "none"
     /\ IF disk[p] = "absent" THEN edit(p, "normal", "install")
                              ELSE edit(p, "deleted", "none")
  \/ node[p] = "added" /\ edit(p, "replaced", "none")

\* Changed in the repository.  Below a local deletion or replacement only
\* the entry in the database changes.
merge_file(p) ==
  /\ node[p] \in {"normal", "deleted", "replaced"}
  /\ edit(p, node[p], IF node[p] # "normal" THEN "none"
                      ELSE IF unsaved(p) THEN "merge" ELSE "install")

\* No more changes.
CloseEdit ==
  /\ job.step = "edit"
  /\ job' = process("work", {}, {}, FALSE)
  /\ UNCHANGED <<files, queue>>

Step ==
  \/ \E p \in Path : \/ AddOne(p) \/ CheckOne(p) \/ Restore(p) \/ RunItem(p)
                    \/ delete_entry(p) \/ add_file(p) \/ merge_file(p)
  \/ MarkAll \/ Report \/ CloseEdit \/ EndWork

\* Fault: the process is not waited for.
NoReap == job.step = "done" /\ UNCHANGED vars

\* The process has ended and its caller takes note.
Reap == job.step = "done" /\ job' = Idle /\ UNCHANGED <<files, queue>>

-----------------------------------------------------------------------------
(***************************************************************************)
(* Other programs.                                                         *)
(***************************************************************************)
\* A save changes the size or the time of the file.
Save(p) ==
  /\ disk' = [disk EXCEPT ![p] = "edited"]
  /\ UNCHANGED <<node, job, queue>>

Erase(p) ==
  /\ disk[p] # "absent"
  /\ disk' = [disk EXCEPT ![p] = "absent"]
  /\ UNCHANGED <<node, job, queue>>

\* svn ci, not while another svn process holds the lock.
Commit(p) ==
  /\ job.step = "idle"
  /\ \/ /\ node[p] = "deleted"
        /\ node' = [node EXCEPT ![p] = "none"] /\ UNCHANGED disk
     \/ /\ status(p) \in {"A", "R", "M"}
        /\ node' = [node EXCEPT ![p] = "normal"]
        /\ disk' = [disk EXCEPT ![p] = "base"]
  /\ UNCHANGED <<job, queue>>

-----------------------------------------------------------------------------
TypeOK ==
  /\ node \in [Path -> Node] /\ disk \in [Path -> Disk]
  /\ job \in Job /\ queue \in [Path -> Work]
=============================================================================
