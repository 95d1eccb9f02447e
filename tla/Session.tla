------------------------------ MODULE Session -------------------------------
(***************************************************************************)
(* svn_curses at work on a working copy that other programs change at the  *)
(* same time: the program SvnCurses, with its "svn" processes and their    *)
(* listings as WorkingCopy describes them.                                 *)
(***************************************************************************)
EXTENDS SvnCurses

CONSTANTS
  Names,      \* the paths, in the order of "svn st"
  Torn,       \* what split makes of a line whose end is missing
  MaxChanges  \* bound: changes made by other programs

VARIABLES
  node, disk, job, queue,  \* see WorkingCopy
  st,       \* the step of the "svn st" process
  dirents,  \* the directory as it has read it
  info,     \* the database as it has read it
  next,     \* the name it deals with next
  out,      \* what it has printed
  changes,  \* changes other programs have made
  listed,   \* history: whether the list is whole, cut, or cut within a line
  stale,    \* history: paths they changed since the listing was begun
  raced,    \* history: files they changed since svn has looked at them
  before    \* history: node when the svn process was started

Path == Range(Names)

WC == INSTANCE WorkingCopy

wc     == <<node, disk, job, queue>>
walk   == <<st, dirents, info, next, out>>
others == <<changes, listed, stale, raced, before>>
sessionVars == <<vars, wc, walk, others>>

Letter == {"?", "A", "D", "M", "R", "!"}
entry(p, letter) == [path |-> p, status |-> letter]

\* What is left of an output if its end is missing, after a line and within
\* one.
cuts(o)  == {SubSeq(o, 1, k) : k \in 0..Len(o)}
tears(o) ==
  UNION {{Append(SubSeq(o, 1, k - 1), l) : l \in Torn[o[k]]} : k \in DOMAIN o}

\* Names has every path that may be listed, and every word that may be an
\* argument: one that is no file is a path that is neither known nor there.
\* Outputs has what "svn st" may print for them, and its beginnings.
ASSUME SessionAssumption ==
  /\ Names \in Seq(Path)
  /\ \A i, j \in DOMAIN Names : Names[i] = Names[j] => i = j
  /\ Torn \in [Line -> SUBSET Line]
  /\ <<>> \in Outputs
  /\ \A o \in Outputs : cuts(o) \cup tears(o) \subseteq Outputs
  /\ \A o \in Outputs, i \in DOMAIN Names, l \in Letter :
       Len(o) < i /\ (\A k \in DOMAIN o : \E j \in 1..(i - 1) : o[k].path = Names[j])
         => Append(o, entry(Names[i], l)) \in Outputs
  /\ \A l \in Line : Words[l] \subseteq Path
  /\ MaxChanges \in Nat

SessionInit ==
  /\ Init /\ WC!Init
  /\ st = "none" /\ dirents = <<>> /\ info = <<>> /\ next = 1 /\ out = <<>>
  /\ changes = 0 /\ listed = "whole" /\ stale = {} /\ raced = {} /\ before = <<>>

-----------------------------------------------------------------------------
(***************************************************************************)
(* exec("svn st").  svn reads the directory, then the database, and then   *)
(* deals with one name after the other.  It holds no lock.                 *)
(***************************************************************************)
StartStatus ==
  /\ pc = "st" /\ st = "none"
  /\ st' = "dirents" /\ dirents' = disk
  /\ stale' = {}
  /\ UNCHANGED <<vars, wc, info, next, out, changes, listed, raced, before>>

ReadInfo ==
  /\ st = "dirents"
  /\ st' = "walk" /\ info' = node
  /\ UNCHANGED <<vars, wc, dirents, next, out, others>>

one_child_status ==
  /\ st = "walk" /\ next <= Len(Names)
  /\ LET name == Names[next]
         letter == WC!reported(name, info[name], dirents[name])
     IN  out' = IF letter = " " THEN out ELSE Append(out, entry(name, letter))
  /\ next' = next + 1
  /\ UNCHANGED <<vars, wc, st, dirents, info, others>>

\* What exec returns: all that svn prints; or, if a read is interrupted or
\* svn fails, the lines up to there; or, if svn is killed or the read of a
\* long line interrupted, with a line that has lost its end.
returns(got, kind) ==
  \/ kind = "whole" /\ st = "walk" /\ next = Len(Names) + 1 /\ got = out
  \/ kind = "cut"   /\ got \in cuts(out)
  \/ kind = "torn"  /\ got \in tears(out)

SvnStatus ==
  /\ st # "none"
  /\ \E kind \in {"whole", "cut", "torn"}, got \in {out} \cup cuts(out) \cup tears(out) :
       /\ returns(got, kind)
       /\ IF got = <<>> THEN EmptyListing ELSE ListingDone(got)
       /\ listed' = kind
  /\ st' = "none" /\ dirents' = <<>> /\ info' = <<>> /\ next' = 1 /\ out' = <<>>
  /\ UNCHANGED <<wc, changes, stale, raced, before>>

-----------------------------------------------------------------------------
\* exec of the command of the handler: popen starts svn ...
StartSvn ==
  /\ pc = "run"
  /\ \/ handler.op = "a" /\ WC!StartAdd(targets(handler.items))
     \/ handler.op = "r" /\ WC!StartRemove(targets(handler.items),
                                           handler.keepLocal)
     \/ handler.op = "u" /\ WC!StartUpdate
  /\ before' = node
  /\ UNCHANGED <<vars, walk, changes, listed, stale, raced>>

\* ... which works on its own ...
SvnStep ==
  /\ WC!Step
  /\ raced' = {p \in raced : WC!looked(p)'}
  /\ UNCHANGED <<vars, walk, changes, listed, stale, before>>

\* ... and its end lets exec return.  Whether it failed is not looked at.
EndSvn ==
  /\ RunDone /\ WC!Reap
  /\ before' = <<>>
  /\ UNCHANGED <<walk, changes, listed, stale, raced>>

\* popen can only fail before there is a process.
Program ==
  /\ \/ Boot \/ User \/ Timeout \/ Terminated
     \/ PopenFails /\ job = WC!Idle /\ st = "none"
  /\ UNCHANGED <<wc, walk, others>>

OtherProgram ==
  /\ changes < MaxChanges
  /\ changes' = changes + 1
  /\ \E p \in Path :
       /\ WC!Save(p) \/ WC!Erase(p) \/ WC!Commit(p)
       /\ stale' = stale \cup {p}
       /\ raced' = IF WC!looked(p) THEN raced \cup {p} ELSE raced
  /\ UNCHANGED <<vars, walk, listed, before>>

SvnRuns ==
  \/ StartStatus \/ ReadInfo \/ one_child_status \/ SvnStatus
  \/ StartSvn \/ SvnStep \/ EndSvn

SessionNext == Program \/ SvnRuns \/ OtherProgram

SessionSpec == SessionInit /\ [][SessionNext]_sessionVars

-----------------------------------------------------------------------------
\* Also: there is an svn process only while exec waits for it.
SessionTypeOK ==
  /\ WC!TypeOK
  /\ changes \in Nat /\ listed \in {"whole", "cut", "torn"}
  /\ stale \subseteq Path /\ raced \subseteq Path
  /\ st \in {"none", "dirents", "walk"} /\ next \in 1..(Len(Names) + 1)
  /\ Len(out) < next
  /\ st # "none" => pc = "st" /\ dirents \in [Path -> WC!Disk]
  /\ st = "walk" => info \in [Path -> WC!Node]
  /\ job # WC!Idle => pc = "run" /\ before \in [Path -> WC!Node]

\* The line is what "svn st" would print for its path now, unless another
\* program has changed the path.
tells(l) ==
  \E p \in Path :
    l.path = p /\ (p \in stale \/ l = entry(p, WC!status(p)))

(***************************************************************************)
(* Whenever a key of the main loop is awaited, the list says the truth of  *)
(* every path that no other program has changed since its listing was      *)
(* begun: every line is what "svn st" would print now, also if the listing *)
(* was cut short, except for a line that has lost its end; and if the      *)
(* listing was whole, no path that has a status is left out.  Every        *)
(* command, run, refused or failed, is followed by a listing, so that the  *)
(* next selection is made from what the command has left.                  *)
(***************************************************************************)
ListIsCurrent ==
  pc = "key" /\ ~undefined =>
    /\ \A i \in DOMAIN statusItems :
         (listed = "torn" => i < Len(statusItems)) => tells(statusItems[i].line)
    /\ listed = "whole" =>
         \A p \in Path \ stale : WC!status(p) # " " =>
           \E i \in DOMAIN statusItems :
             statusItems[i].line = entry(p, WC!status(p))

\* An svn process erases or overwrites a text that is nowhere else.  A
\* merge keeps the text that it has read.
loses(p) ==
  /\ WC!unsaved(p) /\ UNCHANGED changes
  /\ \/ ~WC!unsaved(p)'
     \/ queue[p] = "merge" /\ queue'[p] # "merge" /\ p \in raced

(***************************************************************************)
(* The program makes away with the unsaved text of a file only if the user *)
(* agreed to the command, and either the file was saved after svn had      *)
(* looked at it and before svn wrote it, or the user removes it, did not   *)
(* ask to keep the local files, and it was scheduled for deletion already. *)
(* In every other case svn refuses, keeps or merges the text, also if the  *)
(* list on the screen shows something else than the working copy has by    *)
(* then, and also if the "Keep local files?" question has run out of time. *)
(* svn add never does, and svn rm only to files that were selected.        *)
(***************************************************************************)
UnsavedTextSurvives ==
  [][\A p \in Path : loses(p) =>
       /\ handler.agreed
       /\ \/ handler.op = "u" /\ p \in raced
          \/ /\ handler.op = "r" /\ ~handler.keepLocal
             /\ p \in targets(handler.items)
             /\ p \in raced \/ before[p] = "deleted"]_sessionVars

(***************************************************************************)
(* svn rm removes all selected paths or, if one of them must not be        *)
(* removed, none, whatever other programs do meanwhile: 'r' never leaves   *)
(* half of a selection removed.                                            *)
(***************************************************************************)
RemovesAllOrNone ==
  handler.op = "r" /\ job.step = "done" =>
    \/ node = before
    \/ \A p \in Path :
         p \in targets(handler.items) => node[p] = WC!afterDelete(before[p])

=============================================================================
