---------------------------- MODULE FileWatcher -----------------------------
(***************************************************************************)
(* filewatcher/filewatcher.cpp: the lines that appear in one file, which   *)
(* other programs append to, truncate, rename, replace and move back.      *)
(*                                                                         *)
(* QFileSystemWatcher watches the inode that the path had when it was      *)
(* added, and the directory.  Its signals are queued: they tell that       *)
(* something changed, several changes may share one, the signals of the    *)
(* file and of the directory come in either order, and the slots look at   *)
(* the file as it is by then.                                              *)
(*                                                                         *)
(* Sizes count half lines: a write may end in the middle of a line.        *)
(***************************************************************************)
EXTENDS Naturals, Sequences

CONSTANTS
  Kinds,                \* what a line may say
  Inodes,               \* inode numbers, 0 is none
  MaxLines,             \* bound: lines written to the path
  MaxReturns,           \* bound: how often a file that was renamed away comes back
  Changes               \* what happens to the file besides whole lines appended:
                        \*   see ChangeKinds

NoFile == [inode |-> 0, lines |-> <<>>, torn |-> FALSE]

(***************************************************************************)
(* "torn"     a line is written in two pieces                              *)
(* "truncate" the file is emptied                                          *)
(* "rename"   it is renamed away, and perhaps an empty one created         *)
(* "replace"  another file, with a line in it, is moved to the path        *)
(***************************************************************************)
ChangeKinds == {"torn", "truncate", "rename", "replace"}

ASSUME InodesAssumption == Inodes \subseteq Nat \ {0}
ASSUME BoundsAssumption == MaxLines \in Nat /\ MaxReturns \in Nat
ASSUME ChangesAssumption == Changes \subseteq ChangeKinds

VARIABLES
  file,                 \* the file at the path: inode, its lines, each with its
                        \*   number no and kind, and whether the last is half written
  aside,                \* the file that was last renamed away, if it may come back
  returns,              \* how often such a file was moved back
  written,              \* lines written so far
  free,                 \* inode numbers not in use
  fileEvent,            \* "none", "changed" or "removed": fileChanged(path) is due
  dirEvent,             \* directoryChanged(path) is due
  watching,             \* watcher.files() holds the path
  watched,              \* the inode that inotify watches for it, 0 if it is gone
  currSize, inode,      \* what the slots remember
  emitted,              \* newLine() signals: line numbers and what part was read
  happened              \* history: "torn", "truncate", and "overtaken" when a file came
                        \*   to the path before the signal of the old one's going was over

disk == <<file, aside, returns, written, free, happened>>
slotVars == <<watching, currSize, inode, emitted>>
fileWatcherVars == <<disk, fileEvent, dirEvent, watched, slotVars>>

Exists == file.inode # 0
Size == 2 * Len(file.lines) - (IF file.torn THEN 1 ELSE 0)

-----------------------------------------------------------------------------
(* The file *)

\* An event of the watched inode, if that is the one that changed.
Signal(event) ==
  fileEvent' = IF watched # file.inode \/ fileEvent = "removed" THEN fileEvent ELSE event

Happens(change) == change \in Changes /\ happened' = happened \cup {change}

NextLine(kind) == [no |-> written + 1, kind |-> kind]

Write(kind, torn) ==
  /\ Exists /\ ~file.torn
  /\ written < MaxLines
  /\ written' = written + 1
  /\ file' = [file EXCEPT !.lines = Append(@, NextLine(kind)), !.torn = torn]
  /\ Signal("changed")
  /\ UNCHANGED <<aside, returns, free, dirEvent, watched, slotVars>>

WriteLine(kind) == Write(kind, FALSE) /\ UNCHANGED happened
WriteHead(kind) == Write(kind, TRUE) /\ Happens("torn")

WriteTail ==
  /\ file.torn
  /\ file' = [file EXCEPT !.torn = FALSE]
  /\ Signal("changed")
  /\ UNCHANGED <<aside, returns, written, free, happened, dirEvent, watched, slotVars>>

\* `>kern.log`, or logrotate's copytruncate.
Truncate ==
  /\ Happens("truncate")
  /\ Exists /\ file.lines # <<>>
  /\ file' = [file EXCEPT !.lines = <<>>, !.torn = FALSE]
  /\ Signal("changed")
  /\ UNCHANGED <<aside, returns, written, free, dirEvent, watched, slotVars>>

\* The path's inode is another, or none; inotify stops watching it.
Leaves ==
  /\ Exists /\ ~file.torn
  /\ Signal("removed")
  /\ watched' = IF watched = file.inode THEN 0 ELSE watched
  /\ dirEvent' = TRUE
  /\ UNCHANGED slotVars

\* The file is renamed away.  Its inode stays in use, and what it holds matters if
\* it may come back.
Rename ==
  /\ "rename" \in Changes
  /\ Leaves
  /\ file' = NoFile
  /\ aside' = IF returns < MaxReturns THEN file ELSE NoFile
  /\ UNCHANGED <<returns, written, free, happened>>

\* A file comes to the path: over the one that is there, or where there is none.
Arrives(f) ==
  /\ file' = f
  /\ \/ Leaves
     \/ ~Exists /\ dirEvent' = TRUE /\ UNCHANGED <<fileEvent, watched, slotVars>>
  /\ happened' = IF fileEvent' # "none" THEN happened \cup {"overtaken"} ELSE happened

\* The inode of the file that is overwritten, if any, can be used again.
Frees == IF Exists THEN {file.inode} ELSE {}

\* A new, empty file where the old one was renamed away.
Create ==
  /\ ~Exists
  /\ \E i \in free : Arrives([NoFile EXCEPT !.inode = i]) /\ free' = free \ {i}
  /\ UNCHANGED <<aside, returns, written>>

\* `mv kern.log x; mv x kern.log`.
Return ==
  /\ aside # NoFile
  /\ returns < MaxReturns /\ returns' = returns + 1
  /\ Arrives(aside) /\ aside' = NoFile
  /\ free' = free \cup Frees
  /\ UNCHANGED written

Replace(kind) ==
  /\ "replace" \in Changes
  /\ written < MaxLines
  /\ written' = written + 1
  /\ \E i \in free :
       /\ Arrives([NoFile EXCEPT !.inode = i, !.lines = <<NextLine(kind)>>])
       /\ free' = (free \ {i}) \cup Frees
  /\ UNCHANGED <<aside, returns>>

-----------------------------------------------------------------------------
(* The slots *)

getINode == file.inode

isFileNewer == getINode # inode \/ Size < currSize

\* What readLine() returns from position from to the end of the file: its lines,
\* the first and the last perhaps in part.
LinesFrom(from) ==
  LET first == from \div 2 + 1
      Part(i) == IF from = 2 * i - 1 THEN "tail" ELSE IF Size = 2 * i - 1 THEN "head" ELSE "whole"
  IN [k \in 1 .. Len(file.lines) + 1 - first |->
        [no |-> file.lines[first + k - 1].no, kind |-> file.lines[first + k - 1].kind,
         part |-> Part(first + k - 1)]]

\* (mutant) currSize is not brought up to date.
ScanKeepsSize(from) ==
  IF Exists /\ from < Size
  THEN emitted' = emitted \o LinesFrom(from) /\ currSize' = from
  ELSE emitted' = emitted /\ currSize' = from

scan(from) ==
  IF Exists /\ from < Size
  THEN emitted' = emitted \o LinesFrom(from) /\ currSize' = Size
  ELSE emitted' = emitted /\ currSize' = from

\* Qt takes the path off its list before the slot runs, when the file is gone.
watchedFileChanged ==
  /\ fileEvent # "none"
  /\ watching' = (watching /\ fileEvent = "changed")
  /\ fileEvent' = "none"
  /\ scan(IF isFileNewer THEN 0 ELSE currSize)
  /\ UNCHANGED <<disk, dirEvent, watched, inode>>

\* (mutants) currSize is not reset; the new file is read and not watched.
ResumesAtCurrSize ==
  /\ dirEvent
  /\ dirEvent' = FALSE
  /\ IF Exists /\ ~watching
     THEN watching' = TRUE /\ watched' = file.inode /\ inode' = getINode /\ scan(currSize)
     ELSE UNCHANGED <<watching, watched, inode, currSize, emitted>>
  /\ UNCHANGED <<disk, fileEvent>>
ScansOnly ==
  /\ dirEvent
  /\ dirEvent' = FALSE
  /\ IF Exists /\ ~watching THEN inode' = getINode /\ scan(0)
     ELSE UNCHANGED <<inode, currSize, emitted>>
  /\ UNCHANGED <<disk, fileEvent, watching, watched>>

watchedDirChanged ==
  /\ dirEvent
  /\ dirEvent' = FALSE
  /\ IF Exists /\ ~watching
     THEN /\ watching' = TRUE /\ watched' = file.inode
          /\ inode' = getINode
          /\ scan(0)
     ELSE UNCHANGED <<watching, watched, inode, currSize, emitted>>
  /\ UNCHANGED <<disk, fileEvent>>

-----------------------------------------------------------------------------
\* The constructor, on an empty file: what is in the file is not read.
Init ==
  /\ \E i \in Inodes :
       /\ file = [NoFile EXCEPT !.inode = i]
       /\ watched = i /\ inode = i /\ free = Inodes \ {i}
  /\ aside = NoFile /\ returns = 0 /\ written = 0 /\ currSize = 0
  /\ fileEvent = "none" /\ dirEvent = FALSE
  /\ watching = TRUE
  /\ emitted = <<>> /\ happened = {}

Disk ==
  \/ \E kind \in Kinds : WriteLine(kind) \/ WriteHead(kind) \/ Replace(kind)
  \/ WriteTail \/ Truncate \/ Rename \/ Create \/ Return
Slots == watchedFileChanged \/ watchedDirChanged

-----------------------------------------------------------------------------
(* Properties *)

\* Lines are sent in the order they were written and none is sent twice, however
\* writes, truncation, renaming and signals interleave: a line that was half
\* written when it was read comes in two parts.  There are two exceptions to "without
\* producing duplicate lines" (filewatcher.cpp:9): a file that comes to the path
\* before the signal of the old one's going is over, which watchedFileChanged()
\* scans without recording its inode and watchedDirChanged() scans again, and a file
\* that comes back, which watchedDirChanged() reads from the start (NoLineTwice).
LinesOnceInOrder ==
  returns = 0 /\ "overtaken" \notin happened =>
    \A j \in 1 .. Len(emitted) : \A i \in 1 .. j - 1 :
      \/ emitted[i].no < emitted[j].no
      \/ emitted[i].no = emitted[j].no /\ emitted[i].part = "head" /\ emitted[j].part = "tail"

\* filewatcher.cpp:9, "Handle things like move delete touch, while keep watching for
\* new lines without producing duplicate lines", of a file that is moved away and
\* back between two whole lines.
NoLineTwice ==
  \A j \in 1 .. Len(emitted) : \A i \in 1 .. j - 1 : emitted[i].no # emitted[j].no

\* No signal is due, and there is a file.
Settled == fileEvent = "none" /\ ~dirEvent /\ Exists

\* The file at the path is being watched once no signal is due, unless one took the
\* place of another before the signal of the old one's going was over.
KeepsWatching == Settled /\ "overtaken" \notin happened => watching

\* While the path is listed, the entry is for the file that is there, none of its
\* lines is left unsent when no signal is due, and the next will be noticed: even
\* files that replace each other.  (A file that shrank and grew again is not
\* recognised, filewatcher.cpp:91.)
ListedMissesNothing ==
  Settled /\ watching =>
    /\ watched = file.inode
    /\ "truncate" \notin happened =>
         \A i \in 1 .. Len(file.lines) :
           \E k \in 1 .. Len(emitted) : emitted[k].no = file.lines[i].no
=============================================================================
