------------------------- MODULE QuotaBeaconProofs --------------------------
(***************************************************************************)
(* FileWatcher and QuotaBeacon for any number of lines, inodes and kinds   *)
(* of line, as the log is written, torn, truncated, renamed, replaced and  *)
(* moved back.                                                             *)
(*                                                                         *)
(* The argument: the slots know the file that is there unless a signal is  *)
(* due that will make them look again; and what they would read next was   *)
(* not sent before, but for the first half of the line they stopped in.    *)
(***************************************************************************)
EXTENDS QuotaBeacon, FiniteSetTheorems, SequenceTheorems, TLAPS

Parts == {"head", "tail", "whole"}
Lines == [no : Nat, kind : Kinds]
Signals == [no : Nat, kind : Kinds, part : Parts]

-----------------------------------------------------------------------------
(* The invariant *)

FileTypes ==
  /\ file \in [inode : Inodes \cup {0}, lines : Seq(Lines), torn : BOOLEAN]
  /\ aside \in [inode : Inodes \cup {0}, lines : Seq(Lines), torn : BOOLEAN]
  /\ free \subseteq Inodes /\ returns \in Nat
  /\ written \in 0 .. MaxLines /\ currSize \in Nat
  /\ watched \in Nat /\ inode \in Nat
  /\ fileEvent \in {"none", "changed", "removed"} /\ dirEvent \in BOOLEAN /\ watching \in BOOLEAN
  /\ happened \subseteq Changes \cup {"overtaken"}
  /\ emitted \in Seq(Signals)

\* Lines are numbered as they are written, and only the last may be half written.
Numbered ==
  /\ file.torn => file.lines # <<>>
  /\ ~Exists => file.lines = <<>>
  /\ \A i \in 1 .. Len(file.lines) : file.lines[i].no \in 1 .. written
  /\ \A j \in 1 .. Len(file.lines) : \A i \in 1 .. j - 1 : file.lines[i].no < file.lines[j].no
  /\ \A k \in 1 .. Len(emitted) : emitted[k].no \in 1 .. written
  /\ \A k \in 1 .. Len(emitted), i \in 1 .. Len(file.lines) :
       emitted[k].no = file.lines[i].no => emitted[k].kind = file.lines[i].kind

\* So are the lines of the file that may come back.
AsideNumbered ==
  /\ aside.torn = FALSE
  /\ aside.inode = 0 => aside.lines = <<>>
  /\ \A i \in 1 .. Len(aside.lines) : aside.lines[i].no \in 1 .. written
  /\ \A j \in 1 .. Len(aside.lines) : \A i \in 1 .. j - 1 : aside.lines[i].no < aside.lines[j].no
  /\ \A k \in 1 .. Len(emitted), i \in 1 .. Len(aside.lines) :
       emitted[k].no = aside.lines[i].no => emitted[k].kind = aside.lines[i].kind
  /\ \A k \in 1 .. Len(file.lines), i \in 1 .. Len(aside.lines) :
       file.lines[k].no = aside.lines[i].no => file.lines[k].kind = aside.lines[i].kind

\* The slots know which file is there, or a signal is due.
Known ==
  /\ watching => (Exists /\ watched = file.inode /\ inode = file.inode) \/ fileEvent = "removed"
  /\ ~watching => fileEvent = "none" /\ watched = 0
  /\ fileEvent = "removed" => watched = 0
  /\ "overtaken" \notin happened =>
       /\ fileEvent = "removed" => ~Exists
       /\ Exists /\ ~watching => dirEvent

\* Where the slots would go on reading.
ReadFrom == IF watching /\ ~isFileNewer THEN currSize ELSE 0

\* A line that ends after from was not sent, but for the half that ends there.
Before(e, i, from) ==
  \/ e.no < file.lines[i].no
  \/ e.no = file.lines[i].no /\ e.part = "head" /\ from = 2 * i - 1
Unread(from) ==
  \A k \in 1 .. Len(emitted), i \in 1 .. Len(file.lines) :
    from < 2 * i => Before(emitted[k], i, from)

Follows(e, f) ==
  \/ e.no < f.no
  \/ e.no = f.no /\ e.kind = f.kind /\ e.part = "head" /\ f.part = "tail"

\* No file came back, none came too early.
Straight == returns = 0 /\ "overtaken" \notin happened

InOrder ==
  Straight =>
    /\ Exists => Unread(ReadFrom)
    /\ \A j \in 1 .. Len(emitted) : \A i \in 1 .. j - 1 : Follows(emitted[i], emitted[j])

\* What was read was sent, where nothing was truncated.
NoneMissed ==
  "truncate" \notin happened /\ watching /\ fileEvent # "removed" =>
    /\ currSize <= Size
    /\ fileEvent = "none" => currSize = Size
    /\ \A i \in 1 .. Len(file.lines) :
         2 * i - 1 <= currSize => \E k \in 1 .. Len(emitted) : emitted[k].no = file.lines[i].no

\* Only a half written line is ever read in parts.
WholeLines ==
  "torn" \notin happened =>
    /\ ~file.torn
    /\ \E m \in 0 .. currSize : currSize = 2 * m
    /\ \A k \in 1 .. Len(emitted) : emitted[k].part = "whole"

FInv == FileTypes /\ Numbered /\ AsideNumbered /\ Known /\ InOrder /\ NoneMissed /\ WholeLines

\* A host is charged for each of the signals that match.
Counted ==
  charged = [n \in 1 .. MaxLines |->
    Cardinality({k \in 1 .. Len(emitted) : Captures(emitted[k]) /\ emitted[k].no = n})]

BInv == FInv /\ Counted

-----------------------------------------------------------------------------
(* What happens to the file *)

LEMMA FileIs ==
  ASSUME FileTypes
  PROVE  /\ file.inode \in Inodes \cup {0} /\ file.lines \in Seq(Lines) /\ file.torn \in BOOLEAN
         /\ Len(file.lines) \in Nat
         /\ \A i \in 1 .. Len(file.lines) :
              /\ file.lines[i] \in Lines
              /\ file.lines[i].no \in Nat /\ file.lines[i].kind \in Kinds
         /\ emitted \in Seq(Signals) /\ Len(emitted) \in Nat
         /\ \A k \in 1 .. Len(emitted) :
              /\ emitted[k] \in Signals
              /\ emitted[k].no \in Nat /\ emitted[k].kind \in Kinds /\ emitted[k].part \in Parts
<1>1. file.inode \in Inodes \cup {0} /\ file.lines \in Seq(Lines) /\ file.torn \in BOOLEAN
      /\ emitted \in Seq(Signals)
  BY DEF FileTypes
<1>2. Len(file.lines) \in Nat /\ \A i \in 1 .. Len(file.lines) : file.lines[i] \in Lines
  BY <1>1, LenProperties, ElementOfSeq
<1>3. Len(emitted) \in Nat /\ \A k \in 1 .. Len(emitted) : emitted[k] \in Signals
  BY <1>1, LenProperties, ElementOfSeq
<1>4. \A i \in 1 .. Len(file.lines) : file.lines[i].no \in Nat /\ file.lines[i].kind \in Kinds
  BY <1>2 DEF Lines
<1>5. \A k \in 1 .. Len(emitted) :
        emitted[k].no \in Nat /\ emitted[k].kind \in Kinds /\ emitted[k].part \in Parts
  BY <1>3 DEF Signals
<1> QED BY <1>1, <1>2, <1>3, <1>4, <1>5

LEMMA SizeIs ==
  ASSUME FileTypes, Numbered
  PROVE  /\ Size \in Nat
         /\ file.torn => Size = 2 * Len(file.lines) - 1
         /\ ~file.torn => Size = 2 * Len(file.lines)
<1>1. file.torn \in BOOLEAN /\ Len(file.lines) \in Nat /\ file.lines \in Seq(Lines)
  BY FileIs
<1>2. file.torn => Len(file.lines) # 0
  BY <1>1, EmptySeq DEF Numbered
<1>3. PICK n \in Nat : n = Len(file.lines)
  BY <1>1
<1>4. CASE file.torn = TRUE
  <2>1. Size = 2 * n - 1 /\ n # 0
    BY <1>2, <1>3, <1>4 DEF Size
  <2> QED BY <1>3, <1>4, <2>1
<1>5. CASE file.torn = FALSE
  <2>1. Size = 2 * n - 0
    BY <1>3, <1>5 DEF Size
  <2> QED BY <1>3, <1>5, <2>1
<1> QED BY <1>1, <1>4, <1>5

\* The lines of a file that is changed: those that were there, each at its
\* place, and perhaps one more.
Old(i) == i \in 1 .. Len(file.lines) /\ file'.lines[i] = file.lines[i]
New(i) == file'.lines[i].no = written' /\ written' = written + 1 /\ i = Len(file'.lines)

LEMMA DiskNumbered ==
  ASSUME FInv, file'.lines \in Seq(Lines), emitted' = emitted, written' \in {written, written + 1},
         \A i \in 1 .. Len(file'.lines) : Old(i) \/ New(i),
         file'.torn => file'.lines # <<>>, file'.inode = 0 => file'.lines = <<>>
  PROVE  Numbered'
<1>1. /\ FileTypes /\ Numbered /\ written \in Nat /\ Len(file'.lines) \in Nat
  BY LenProperties DEF FInv, FileTypes
<1>2. /\ \A i \in 1 .. Len(file.lines) : file.lines[i].no \in 1 .. written
      /\ \A j \in 1 .. Len(file.lines) : \A i \in 1 .. j - 1 : file.lines[i].no < file.lines[j].no
      /\ \A k \in 1 .. Len(emitted) : emitted[k].no \in 1 .. written
      /\ \A k \in 1 .. Len(emitted), i \in 1 .. Len(file.lines) :
           emitted[k].no = file.lines[i].no => emitted[k].kind = file.lines[i].kind
  BY <1>1 DEF Numbered
<1>3. \A i \in 1 .. Len(file'.lines) : file'.lines[i].no \in 1 .. written'
  BY <1>1, <1>2 DEF Old, New
<1>4. ASSUME NEW j \in 1 .. Len(file'.lines), NEW i \in 1 .. j - 1
      PROVE  file'.lines[i].no < file'.lines[j].no
  <2>1. i \in 1 .. Len(file'.lines) /\ i # Len(file'.lines)
    BY <1>1, <1>4
  <2>2. Old(i)
    BY <2>1 DEF New
  <2>3. CASE Old(j)
    BY <1>2, <2>2, <2>3 DEF Old
  <2>4. CASE New(j)
    <3>1. file'.lines[i].no \in 1 .. written /\ file'.lines[j].no = written + 1
      BY <1>2, <2>2, <2>4 DEF Old, New
    <3> QED BY <1>1, <3>1
  <2> QED BY <2>3, <2>4
<1>5. \A k \in 1 .. Len(emitted') : emitted'[k].no \in 1 .. written'
  BY <1>1, <1>2
<1>6. ASSUME NEW k \in 1 .. Len(emitted'), NEW i \in 1 .. Len(file'.lines),
             emitted'[k].no = file'.lines[i].no
      PROVE  emitted'[k].kind = file'.lines[i].kind
  <2>1. emitted'[k].no \in 1 .. written
    BY <1>2
  <2>2. ~New(i)
    BY <1>1, <1>6, <2>1 DEF New
  <2> QED BY <1>2, <1>6, <2>2 DEF Old
<1> QED BY <1>3, <1>4, <1>5, <1>6 DEF Numbered, Exists

LEMMA AsideKept ==
  ASSUME FInv, aside' = aside, emitted' = emitted, written' \in {written, written + 1},
         \A i \in 1 .. Len(file'.lines) : Old(i) \/ New(i)
  PROVE  AsideNumbered'
<1>1. /\ AsideNumbered /\ written \in Nat
  BY DEF FInv, FileTypes
<1>2. \A i \in 1 .. Len(aside.lines) : aside.lines[i].no \in 1 .. written
  BY <1>1 DEF AsideNumbered
<1>3. ASSUME NEW k \in 1 .. Len(file'.lines), NEW i \in 1 .. Len(aside.lines),
             file'.lines[k].no = aside.lines[i].no
      PROVE  file'.lines[k].kind = aside.lines[i].kind
  <2>1. ~New(k)
    BY <1>1, <1>2, <1>3 DEF New
  <2>2. k \in 1 .. Len(file.lines) /\ file'.lines[k] = file.lines[k]
    BY <2>1 DEF Old
  <2>3. \A h \in 1 .. Len(file.lines), j \in 1 .. Len(aside.lines) :
          file.lines[h].no = aside.lines[j].no => file.lines[h].kind = aside.lines[j].kind
    BY <1>1 DEF AsideNumbered
  <2> QED BY <1>3, <2>2, <2>3
<1>4. \A i \in 1 .. Len(aside.lines) : aside.lines[i].no \in 1 .. written'
  BY <1>1, <1>2
<1>5. /\ aside.torn = FALSE
      /\ aside.inode = 0 => aside.lines = <<>>
      /\ \A j \in 1 .. Len(aside.lines) :
           \A i \in 1 .. j - 1 : aside.lines[i].no < aside.lines[j].no
      /\ \A k \in 1 .. Len(emitted), i \in 1 .. Len(aside.lines) :
           emitted[k].no = aside.lines[i].no => emitted[k].kind = aside.lines[i].kind
  BY <1>1 DEF AsideNumbered
<1> QED BY <1>3, <1>4, <1>5 DEF AsideNumbered

\* The slots read on where they would have, or from the start; and where
\* something was there to read on after, nothing of it is.
LEMMA DiskInOrder ==
  ASSUME FInv, emitted' = emitted, happened \subseteq happened', returns' = returns,
         \A i \in 1 .. Len(file'.lines) : Old(i) \/ New(i),
         (ReadFrom' = ReadFrom /\ ReadFrom \in Nat) \/ ReadFrom = 0
           \/ \A i \in 1 .. Len(file'.lines) : New(i)
  PROVE  InOrder'
<1> SUFFICES ASSUME Straight'
             PROVE  /\ Exists' => Unread(ReadFrom)'
                    /\ \A j \in 1 .. Len(emitted) : \A i \in 1 .. j - 1 : Follows(emitted[i], emitted[j])
  BY DEF InOrder
<1>1. /\ Straight /\ Numbered /\ written \in Nat
      /\ \A k \in 1 .. Len(emitted) : emitted[k].no \in 1 .. written
      /\ Exists => Unread(ReadFrom)
  <2>1. Straight
    BY DEF Straight
  <2>2. FileTypes /\ Numbered /\ InOrder
    BY DEF FInv
  <2>3. Exists => Unread(ReadFrom)
    BY <2>1, <2>2 DEF InOrder
  <2>4. written \in Nat
    BY <2>2 DEF FileTypes
  <2>5. \A k \in 1 .. Len(emitted) : emitted[k].no \in 1 .. written
    BY <2>2 DEF Numbered
  <2> QED BY <2>1, <2>2, <2>3, <2>4, <2>5
<1>2. ASSUME NEW k \in 1 .. Len(emitted), NEW i \in 1 .. Len(file'.lines), ReadFrom' < 2 * i
      PROVE  \/ emitted[k].no < file'.lines[i].no
             \/ emitted[k].no = file'.lines[i].no /\ emitted[k].part = "head" /\ ReadFrom' = 2 * i - 1
  <2>1. CASE New(i)
    BY <1>1, <2>1 DEF New
  <2>2. CASE Old(i) /\ ~New(i)
    <3>1. i \in 1 .. Len(file.lines) /\ file'.lines[i] = file.lines[i]
      BY <2>2 DEF Old
    <3>2. Exists
      BY <1>1, <3>1 DEF Numbered
    <3>3. ReadFrom < 2 * i
      BY <1>2, <2>2, <3>1
    <3>4. Before(emitted[k], i, ReadFrom)
      BY <1>1, <3>1, <3>2, <3>3 DEF Unread
    <3> QED BY <2>2, <3>1, <3>4 DEF Before
  <2> QED BY <2>1, <2>2
<1> QED BY <1>1, <1>2 DEF InOrder, FInv, Unread, Before

\* A write makes the file longer; if the file is the one the slots know, they
\* will hear of it.
LEMMA WriteStep ==
  ASSUME FInv, NEW kind \in Kinds, WriteLine(kind) \/ WriteHead(kind)
  PROVE  FInv'
<1>1. PICK torn \in BOOLEAN :
        /\ Write(kind, torn)
        /\ happened' \subseteq Changes \cup {"overtaken"} /\ happened \subseteq happened'
        /\ torn => "torn" \in happened'
        /\ happened' \subseteq happened \cup {"torn"}
  BY DEF WriteLine, WriteHead, Happens, FInv, FileTypes
<1> DEFINE n == Len(file.lines)
           new == Append(file.lines, NextLine(kind))
<1>2. /\ FileTypes /\ Numbered /\ AsideNumbered /\ Known /\ InOrder /\ NoneMissed /\ WholeLines
      /\ n \in Nat /\ written \in Nat /\ currSize \in Nat /\ MaxLines \in Nat
  BY FileIs, BoundsAssumption DEF FInv, FileTypes
<1>3. /\ Exists /\ file.torn = FALSE /\ written < MaxLines /\ written' = written + 1
      /\ file' = [file EXCEPT !.lines = new, !.torn = torn]
      /\ fileEvent' = IF watched # file.inode \/ fileEvent = "removed" THEN fileEvent ELSE "changed"
      /\ UNCHANGED <<aside, returns, free, dirEvent, watched, watching, currSize, inode, emitted>>
  BY <1>1, <1>2, FileIs DEF Write, Signal, slotVars
<1>4. /\ new \in Seq(Lines) /\ Len(new) = n + 1
      /\ \A i \in 1 .. n : new[i] = file.lines[i]
      /\ new[n + 1].no = written + 1
  <2>1. NextLine(kind) \in Lines /\ NextLine(kind).no = written + 1
    BY <1>2 DEF NextLine, Lines
  <2> HIDE DEF n, Lines
  <2>2. file.lines \in Seq(Lines)
    BY <1>2, FileIs
  <2> QED BY <2>1, <2>2, AppendProperties DEF n
<1> HIDE DEF new, n
<1>5. /\ file' \in [inode : Inodes \cup {0}, lines : Seq(Lines), torn : BOOLEAN]
      /\ file'.inode = file.inode /\ file'.lines = new /\ file'.torn = torn
  BY <1>2, <1>3, <1>4 DEF FileTypes
<1>6. FileTypes'
  BY <1>1, <1>2, <1>3, <1>5 DEF FileTypes
<1>7. \A i \in 1 .. Len(file'.lines) : Old(i) \/ New(i)
  BY <1>2, <1>3, <1>4, <1>5 DEF Old, New, n
<1>8. Numbered'
  <2>1. new # <<>>
    BY <1>2, <1>4
  <2> QED BY <1>2, <1>3, <1>4, <1>5, <1>7, <2>1, DiskNumbered DEF Exists
<1>8a. AsideNumbered'
  BY <1>3, <1>7, AsideKept
<1>9. Known'
  BY <1>1, <1>2, <1>3, <1>5 DEF Known, Exists, FileTypes
<1>10. Size \in Nat /\ Size = 2 * n /\ Size' \in Nat /\ Size' > Size
  <2>1. Size = 2 * n
    BY <1>2, <1>3, SizeIs DEF n
  <2>2. Size' = 2 * (n + 1) - (IF torn THEN 1 ELSE 0)
    BY <1>4, <1>5 DEF Size
  <2> QED BY <1>2, <2>1, <2>2
<1>11. InOrder'
  <2>1. (ReadFrom' = ReadFrom /\ ReadFrom \in Nat) \/ ReadFrom = 0
    BY <1>2, <1>3, <1>5, <1>10 DEF ReadFrom, isFileNewer, getINode
  <2> QED BY <1>1, <1>3, <1>7, <2>1, DiskInOrder
<1>12. NoneMissed'
  <2> SUFFICES ASSUME "truncate" \notin happened', watching', fileEvent' # "removed"
               PROVE  /\ currSize <= Size' /\ (fileEvent' = "none" => currSize = Size')
                      /\ \A i \in 1 .. Len(new) : 2 * i - 1 <= currSize =>
                           \E k \in 1 .. Len(emitted) : emitted[k].no = new[i].no
    BY <1>3, <1>5 DEF NoneMissed
  <2>1. fileEvent # "removed" /\ fileEvent' = "changed" /\ "truncate" \notin happened /\ watching
    BY <1>1, <1>2, <1>3 DEF Known
  <2>2. currSize <= Size
    BY <1>2, <2>1 DEF NoneMissed
  <2>3. ASSUME NEW i \in 1 .. Len(new), 2 * i - 1 <= currSize
        PROVE  \E k \in 1 .. Len(emitted) : emitted[k].no = new[i].no
    <3>1. i \in 1 .. n
      BY <1>2, <1>4, <1>10, <2>2, <2>3
    <3>2. \E k \in 1 .. Len(emitted) : emitted[k].no = file.lines[i].no
      BY <1>2, <2>1, <2>3, <3>1 DEF NoneMissed, n
    <3> QED BY <1>4, <3>1, <3>2
  <2> QED BY <1>2, <1>10, <2>1, <2>2, <2>3
<1>13. WholeLines'
  BY <1>1, <1>2, <1>3, <1>5 DEF WholeLines
<1> QED BY <1>6, <1>8, <1>8a, <1>9, <1>11, <1>12, <1>13 DEF FInv

\* The other half of a line.
LEMMA WriteTailStep ==
  ASSUME FInv, WriteTail
  PROVE  FInv'
<1> DEFINE n == Len(file.lines)
<1>1. /\ FileTypes /\ Numbered /\ AsideNumbered /\ Known /\ InOrder /\ NoneMissed /\ WholeLines
      /\ n \in Nat /\ written \in Nat /\ currSize \in Nat /\ MaxLines \in Nat
  BY FileIs, BoundsAssumption DEF FInv, FileTypes
<1>2. /\ file.torn = TRUE /\ Exists
      /\ file' = [file EXCEPT !.torn = FALSE]
      /\ fileEvent' = IF watched # file.inode \/ fileEvent = "removed" THEN fileEvent ELSE "changed"
      /\ UNCHANGED <<aside, returns, written, free, dirEvent, watched, watching, currSize, inode,
                     emitted, happened>>
  BY <1>1, FileIs DEF WriteTail, Signal, slotVars, Numbered
<1>3. /\ file' \in [inode : Inodes \cup {0}, lines : Seq(Lines), torn : BOOLEAN]
      /\ file'.inode = file.inode /\ file'.lines = file.lines /\ file'.torn = FALSE
      /\ file'.lines \in Seq(Lines)
  BY <1>1, <1>2 DEF FileTypes
<1>4. FileTypes'
  BY <1>1, <1>2, <1>3 DEF FileTypes
<1>5. \A i \in 1 .. Len(file'.lines) : Old(i) \/ New(i)
  BY <1>3 DEF Old
<1>6. Numbered'
  <2>1. file'.inode = 0 => file'.lines = <<>>
    BY <1>1, <1>3 DEF Numbered, Exists
  <2> QED BY <1>2, <1>3, <1>5, <2>1, DiskNumbered
<1>6a. AsideNumbered'
  BY <1>2, <1>5, AsideKept
<1>7. Known'
  BY <1>1, <1>2, <1>3 DEF Known, Exists, FileTypes
<1>8. Size \in Nat /\ Size' = Size + 1 /\ Size = 2 * n - 1 /\ Size' = 2 * n
  <2>1. Size \in Nat /\ Size = 2 * n - 1
    BY <1>1, <1>2, SizeIs
  <2>2. Size' = 2 * n - 0
    BY <1>3 DEF Size
  <2> QED BY <1>1, <2>1, <2>2
<1> HIDE DEF n
<1>9. InOrder'
  <2>1. (ReadFrom' = ReadFrom /\ ReadFrom \in Nat) \/ ReadFrom = 0
    BY <1>1, <1>2, <1>3, <1>8 DEF ReadFrom, isFileNewer, getINode
  <2> QED BY <1>2, <1>5, <2>1, DiskInOrder
<1>10. NoneMissed'
  <2> SUFFICES ASSUME "truncate" \notin happened, watching, fileEvent' # "removed"
               PROVE  /\ currSize <= Size' /\ (fileEvent' = "none" => currSize = Size')
                      /\ \A i \in 1 .. Len(file.lines) : 2 * i - 1 <= currSize =>
                           \E k \in 1 .. Len(emitted) : emitted[k].no = file.lines[i].no
    BY <1>2, <1>3 DEF NoneMissed
  <2>1. fileEvent # "removed" /\ fileEvent' = "changed"
    BY <1>1, <1>2 DEF Known
  <2> QED BY <1>1, <1>8, <2>1 DEF NoneMissed
<1>11. WholeLines'
  BY <1>1, <1>2 DEF WholeLines
<1> QED BY <1>4, <1>6, <1>6a, <1>7, <1>9, <1>10, <1>11 DEF FInv

LEMMA TruncateStep ==
  ASSUME FInv, Truncate
  PROVE  FInv'
<1>1. /\ FileTypes /\ Numbered /\ AsideNumbered /\ Known /\ InOrder /\ NoneMissed /\ WholeLines
  BY DEF FInv
<1>2. /\ Exists /\ file' = [file EXCEPT !.lines = <<>>, !.torn = FALSE]
      /\ fileEvent' = IF watched # file.inode \/ fileEvent = "removed" THEN fileEvent ELSE "changed"
      /\ happened' = happened \cup {"truncate"} /\ happened' \subseteq Changes \cup {"overtaken"}
      /\ UNCHANGED <<aside, returns, written, free, dirEvent, watched, watching, currSize, inode, emitted>>
  BY <1>1 DEF Truncate, Signal, Happens, slotVars, FileTypes
<1>3. /\ file' \in [inode : Inodes \cup {0}, lines : Seq(Lines), torn : BOOLEAN]
      /\ file'.inode = file.inode /\ file'.lines = <<>> /\ file'.torn = FALSE
  <2>1. <<>> \in Seq(Lines)
    OBVIOUS
  <2> QED BY <1>1, <1>2, <2>1 DEF FileTypes
<1>4. FileTypes'
  BY <1>1, <1>2, <1>3 DEF FileTypes
<1>5. file'.lines \in Seq(Lines) /\ \A i \in 1 .. Len(file'.lines) : New(i)
  <2>1. <<>> \in Seq(Lines) /\ Len(<<>>) = 0
    OBVIOUS
  <2> QED BY <1>3, <2>1
<1>6. Numbered'
  <2>1. /\ emitted' = emitted /\ written' \in {written, written + 1}
        /\ file'.torn => file'.lines # <<>>
        /\ file'.inode = 0 => file'.lines = <<>>
    BY <1>2, <1>3
  <2> QED BY <1>5, <2>1, DiskNumbered
<1>6a. AsideNumbered'
  BY <1>2, <1>5, AsideKept
<1>7. Known'
  BY <1>1, <1>2, <1>3 DEF Known, Exists, FileTypes
<1>8. InOrder'
  BY <1>2, <1>5, DiskInOrder
<1>9. NoneMissed'
  BY <1>2 DEF NoneMissed
<1>10. WholeLines'
  BY <1>1, <1>2, <1>3 DEF WholeLines
<1> QED BY <1>4, <1>6, <1>6a, <1>7, <1>8, <1>9, <1>10 DEF FInv

\* A new file, or none, takes the place of the one that the slots know.
LEMMA NewFile ==
  ASSUME FInv, NEW kind, (kind \in Kinds /\ Replace(kind)) \/ Rename \/ Create
  PROVE  /\ file' \in [inode : Inodes \cup {0}, lines : Seq(Lines), torn : BOOLEAN]
         /\ file'.torn = FALSE /\ (file'.inode = 0 => file'.lines = <<>>)
         /\ Rename => file'.inode = 0 /\ file'.lines = <<>>
         /\ \A i \in 1 .. Len(file'.lines) : New(i)
         /\ free' \subseteq Inodes
<1>1. /\ free \subseteq Inodes /\ Inodes \subseteq Nat \ {0} /\ file.inode \in Inodes \cup {0}
      /\ written \in Nat
  BY InodesAssumption DEF FInv, FileTypes
<1>2. ASSUME NEW i \in Inodes \cup {0}, file' = [inode |-> i, lines |-> <<>>, torn |-> FALSE]
      PROVE  /\ file' \in [inode : Inodes \cup {0}, lines : Seq(Lines), torn : BOOLEAN]
             /\ file'.inode = i /\ file'.torn = FALSE /\ file'.lines = <<>>
             /\ \A k \in 1 .. Len(file'.lines) : New(k)
  BY <1>2
<1>3. CASE Rename
  <2>1. file' = [inode |-> 0, lines |-> <<>>, torn |-> FALSE] /\ free' = free
    BY <1>3 DEF Rename, NoFile
  <2> QED BY <1>1, <1>2, <2>1
<1>4. CASE Create
  <2>1. PICK i \in free : file' = [NoFile EXCEPT !.inode = i] /\ free' = free \ {i}
    BY <1>4 DEF Create, Arrives
  <2>2. file' = [inode |-> i, lines |-> <<>>, torn |-> FALSE]
    BY <2>1 DEF NoFile
  <2>3. ~Rename
    BY <1>4 DEF Create, Rename, Leaves
  <2> QED BY <1>1, <1>2, <2>1, <2>2, <2>3
<1>5. ASSUME kind \in Kinds, Replace(kind)
      PROVE  /\ file' \in [inode : Inodes \cup {0}, lines : Seq(Lines), torn : BOOLEAN]
             /\ file'.torn = FALSE /\ file'.inode # 0
             /\ \A k \in 1 .. Len(file'.lines) : New(k)
             /\ free' \subseteq Inodes
  <2>1. PICK i \in free :
          /\ file' = [NoFile EXCEPT !.inode = i, !.lines = <<NextLine(kind)>>]
          /\ free' = (free \ {i}) \cup Frees /\ written' = written + 1
    BY <1>5 DEF Replace, Arrives
  <2>2. PICK line \in Lines : line = NextLine(kind) /\ line.no = written + 1
    <3>1. NextLine(kind) \in Lines
      BY <1>1, <1>5 DEF NextLine, Lines
    <3> QED BY <3>1 DEF NextLine
  <2>3. file' = [inode |-> i, lines |-> <<line>>, torn |-> FALSE]
    BY <2>1, <2>2 DEF NoFile
  <2>4. <<line>> \in Seq(Lines) /\ Len(<<line>>) = 1 /\ <<line>>[1] = line
    OBVIOUS
  <2>5. file'.lines = <<line>> /\ file'.inode = i /\ file'.torn = FALSE
    BY <2>3
  <2>6. \A k \in 1 .. Len(file'.lines) : New(k)
    BY <1>1, <2>1, <2>2, <2>4, <2>5 DEF New
  <2>7. Frees \subseteq Inodes
    BY <1>1 DEF Frees, Exists
  <2> QED BY <1>1, <2>1, <2>3, <2>4, <2>5, <2>6, <2>7
<1>6. kind \in Kinds /\ Replace(kind) => ~Rename
  BY <1>5 DEF Rename, NoFile
<1> QED BY <1>3, <1>4, <1>5, <1>6

\* What the slots are told of it: the file that they watch is gone, and the
\* directory changed.
LEMMA Told ==
  ASSUME FInv, Rename \/ \E f : Arrives(f)
  PROVE  /\ UNCHANGED <<watching, currSize, inode, emitted>> /\ dirEvent' = TRUE
         /\ happened' \subseteq Changes \cup {"overtaken"} /\ happened \subseteq happened'
         /\ happened' \subseteq happened \cup {"overtaken"}
         /\ fileEvent' \in {"none", "changed", "removed"} /\ watched' \in Nat
         /\ watching => fileEvent' = "removed"
         /\ ~watching => fileEvent' = "none" /\ watched' = 0
         /\ fileEvent' = "removed" => watched' = 0
         /\ Rename \/ fileEvent' = "none" \/ "overtaken" \in happened'
<1>1. FileTypes /\ Known
  BY DEF FInv
<1>2. CASE Leaves
  <2>1. /\ Exists /\ UNCHANGED slotVars /\ dirEvent' = TRUE
        /\ fileEvent' = IF watched # file.inode \/ fileEvent = "removed" THEN fileEvent ELSE "removed"
        /\ watched' = IF watched = file.inode THEN 0 ELSE watched
    BY <1>2 DEF Leaves, Signal
  <2>2. \/ happened' = happened /\ (Rename \/ fileEvent' = "none")
        \/ happened' = happened \cup {"overtaken"}
    BY DEF Rename, Arrives
  <2>3. /\ watching => fileEvent' = "removed"
        /\ ~watching => fileEvent' = "none" /\ watched' = 0
        /\ fileEvent' = "removed" => watched' = 0
        /\ watched' \in Nat
    BY <1>1, <2>1 DEF Known, Exists, FileTypes
  <2>4. fileEvent' \in {"none", "changed", "removed"}
    BY <1>1, <2>1 DEF FileTypes
  <2> QED BY <1>1, <2>1, <2>2, <2>3, <2>4 DEF FileTypes, slotVars
<1>3. CASE ~Exists /\ dirEvent' = TRUE /\ UNCHANGED <<fileEvent, watched, slotVars>> /\ ~Leaves
  <2>1. \/ happened' = happened /\ fileEvent' = "none"
        \/ happened' = happened \cup {"overtaken"}
    BY <1>3 DEF Rename, Arrives
  <2> QED BY <1>1, <1>3, <2>1 DEF Known, FileTypes, slotVars
<1> QED BY <1>2, <1>3 DEF Rename, Arrives

LEMMA LeaveStep ==
  ASSUME FInv, NEW kind, (kind \in Kinds /\ Replace(kind)) \/ Rename \/ Create
  PROVE  FInv'
<1>1. /\ FileTypes /\ Numbered /\ AsideNumbered /\ Known /\ InOrder /\ NoneMissed /\ WholeLines
      /\ written \in Nat /\ MaxLines \in Nat /\ written \in 0 .. MaxLines
  BY BoundsAssumption DEF FInv, FileTypes
<1>2. /\ file' \in [inode : Inodes \cup {0}, lines : Seq(Lines), torn : BOOLEAN]
      /\ file'.torn = FALSE /\ (file'.inode = 0 => file'.lines = <<>>)
      /\ Rename => file'.inode = 0 /\ file'.lines = <<>>
      /\ \A i \in 1 .. Len(file'.lines) : New(i)
      /\ free' \subseteq Inodes
      /\ file'.lines \in Seq(Lines)
  BY NewFile
<1>3. /\ UNCHANGED <<watching, currSize, inode, emitted>> /\ dirEvent' = TRUE
      /\ happened' \subseteq Changes \cup {"overtaken"} /\ happened \subseteq happened'
      /\ fileEvent' \in {"none", "changed", "removed"} /\ watched' \in Nat
      /\ watching => fileEvent' = "removed"
      /\ ~watching => fileEvent' = "none" /\ watched' = 0
      /\ fileEvent' = "removed" => watched' = 0
      /\ Rename \/ fileEvent' = "none" \/ "overtaken" \in happened'
  <2>1. Rename \/ \E f : Arrives(f)
    BY DEF Replace, Create
  <2> QED BY <2>1, Told
<1>4. /\ returns' = returns
      /\ written' \in {written, written + 1} /\ written' \in 0 .. MaxLines
      /\ aside' = aside \/ (Rename /\ aside' \in {file, NoFile} /\ file.torn = FALSE)
  <2>1. CASE Create
    BY <1>1, <2>1 DEF Create
  <2>2. CASE Rename
    <3>1. file.torn = FALSE
      BY <1>1, <2>2, FileIs DEF Rename, Leaves
    <3> QED BY <1>1, <2>2, <3>1 DEF Rename
  <2>3. CASE Replace(kind)
    <3>1. /\ written < MaxLines /\ written' = written + 1
          /\ aside' = aside /\ returns' = returns
      BY <2>3 DEF Replace
    <3> QED BY <1>1, <3>1, BoundsAssumption DEF FileTypes
  <2> QED BY <1>1, <2>1, <2>2, <2>3
<1>5. FileTypes'
  <2>1. aside' \in [inode : Inodes \cup {0}, lines : Seq(Lines), torn : BOOLEAN]
    <3>1. NoFile \in [inode : Inodes \cup {0}, lines : Seq(Lines), torn : BOOLEAN]
      <4>1. <<>> \in Seq(Lines)
        OBVIOUS
      <4> QED BY <4>1 DEF NoFile
    <3> QED BY <1>1, <1>4, <3>1 DEF FileTypes
  <2> QED BY <1>1, <1>2, <1>3, <1>4, <2>1 DEF FileTypes
<1>6. Numbered'
  <2>1. emitted' = emitted /\ (file'.torn => file'.lines # <<>>)
    BY <1>2, <1>3
  <2> QED BY <1>2, <1>4, <2>1, DiskNumbered
<1>6a. AsideNumbered'
  <2>1. CASE aside' = aside
    BY <1>2, <1>3, <1>4, <2>1, AsideKept
  <2>2. CASE Rename /\ aside' = file /\ file.torn = FALSE
    <3>1. written' = written /\ Len(file'.lines) = 0
      <4>1. Len(<<>>) = 0
        OBVIOUS
      <4> QED BY <1>2, <2>2, <4>1 DEF Rename
    <3> QED BY <1>1, <1>3, <2>2, <3>1 DEF AsideNumbered, Numbered, Exists
  <2>3. CASE aside' = NoFile
    <3>1. aside'.torn = FALSE /\ aside'.lines = <<>> /\ Len(aside'.lines) = 0
      <4>1. Len(<<>>) = 0
        OBVIOUS
      <4> QED BY <2>3, <4>1 DEF NoFile
    <3> QED BY <3>1 DEF AsideNumbered
  <2> QED BY <1>4, <2>1, <2>2, <2>3
<1>7. Known'
  <2>1. "overtaken" \notin happened' /\ fileEvent' = "removed" => ~Exists'
    BY <1>2, <1>3 DEF Exists
  <2> QED BY <1>3, <2>1 DEF Known
<1>8. InOrder'
  BY <1>2, <1>3, <1>4, DiskInOrder
<1>9. NoneMissed'
  BY <1>3 DEF NoneMissed
<1>10. WholeLines'
  BY <1>1, <1>2, <1>3 DEF WholeLines
<1> QED BY <1>5, <1>6, <1>6a, <1>7, <1>8, <1>9, <1>10 DEF FInv

\* The file that comes back is one that the slots do not know; what is promised of
\* the order of lines ends here.
LEMMA ReturnStep ==
  ASSUME FInv, Return
  PROVE  FInv'
<1>1. /\ FileTypes /\ Numbered /\ AsideNumbered /\ Known /\ WholeLines /\ returns \in Nat
      /\ aside \in [inode : Inodes \cup {0}, lines : Seq(Lines), torn : BOOLEAN]
      /\ free \subseteq Inodes /\ file.inode \in Inodes \cup {0}
  BY DEF FInv, FileTypes
<1>2. /\ file' = aside /\ aside' = NoFile /\ returns' = returns + 1 /\ written' = written
      /\ free' = free \cup Frees /\ Frees \subseteq Inodes
  BY <1>1 DEF Return, Arrives, Frees, Exists
<1>3. /\ UNCHANGED <<watching, currSize, inode, emitted>> /\ dirEvent' = TRUE
      /\ happened' \subseteq Changes \cup {"overtaken"} /\ happened \subseteq happened'
      /\ fileEvent' \in {"none", "changed", "removed"} /\ watched' \in Nat
      /\ watching => fileEvent' = "removed"
      /\ ~watching => fileEvent' = "none" /\ watched' = 0
      /\ fileEvent' = "removed" => watched' = 0
      /\ fileEvent' = "none" \/ "overtaken" \in happened'
  <2>1. Arrives(aside)
    BY DEF Return
  <2>2. ~Rename \/ fileEvent' = "none" \/ "overtaken" \in happened'
    BY <2>1 DEF Arrives
  <2> QED BY <2>1, <2>2, Told
<1>4. /\ aside'.torn = FALSE /\ aside'.lines = <<>> /\ Len(aside'.lines) = 0
      /\ aside' \in [inode : Inodes \cup {0}, lines : Seq(Lines), torn : BOOLEAN]
  <2>1. <<>> \in Seq(Lines) /\ Len(<<>>) = 0
    OBVIOUS
  <2> QED BY <1>2, <2>1 DEF NoFile
<1>5. FileTypes'
  BY <1>1, <1>2, <1>3, <1>4 DEF FileTypes
<1>6. Numbered'
  BY <1>1, <1>2, <1>3 DEF Numbered, AsideNumbered, Exists
<1>7. AsideNumbered'
  BY <1>4 DEF AsideNumbered
<1>8. Known'
  BY <1>3 DEF Known
<1>9. InOrder'
  BY <1>1, <1>2 DEF InOrder, Straight
<1>10. NoneMissed'
  BY <1>3 DEF NoneMissed
<1>11. WholeLines'
  BY <1>1, <1>2, <1>3 DEF WholeLines, AsideNumbered
<1> QED BY <1>5, <1>6, <1>7, <1>8, <1>9, <1>10, <1>11 DEF FInv

LEMMA DiskStep ==
  ASSUME FInv, Disk
  PROVE  FInv'
BY WriteStep, WriteTailStep, TruncateStep, LeaveStep, ReturnStep DEF Disk

-----------------------------------------------------------------------------
(* What the slots read *)

\* The line in which, or before which, a position is.
LEMMA Half == \A from \in Nat : \E m \in Nat : from \div 2 = m /\ from \in {2 * m, 2 * m + 1}
OBVIOUS

\* e is what is read of line i from a position on.
Read(e, i, from) ==
  /\ e.no = file.lines[i].no /\ e.kind = file.lines[i].kind
  /\ e.part = IF from = 2 * i - 1 THEN "tail" ELSE IF Size = 2 * i - 1 THEN "head" ELSE "whole"

LEMMA LinesFromAre ==
  ASSUME FileTypes, Numbered, NEW from \in Nat, from < Size
  PROVE  \E first \in 1 .. Len(file.lines) :
           /\ from \in {2 * first - 2, 2 * first - 1}
           /\ LinesFrom(from) \in Seq(Signals)
           /\ Len(LinesFrom(from)) = Len(file.lines) + 1 - first
           /\ \A k \in 1 .. Len(file.lines) + 1 - first :
                Read(LinesFrom(from)[k], first + k - 1, from)
<1>1. PICK n \in Nat : n = Len(file.lines)
  BY FileIs
<1>2. PICK m \in Nat : from \div 2 = m /\ from \in {2 * m, 2 * m + 1}
  BY Half
<1>3. PICK first \in Nat : first = m + 1 /\ first \in 1 .. n
  <2>1. Size \in Nat /\ Size <= 2 * n
    BY <1>1, FileIs, SizeIs
  <2>2. m + 1 \in Nat /\ m + 1 \in 1 .. n
    BY <1>1, <1>2, <2>1
  <2> QED BY <2>2
<1> DEFINE Part(i) ==
             IF from = 2 * i - 1 THEN "tail" ELSE IF Size = 2 * i - 1 THEN "head" ELSE "whole"
           At(k) == [no |-> file.lines[first + k - 1].no, kind |-> file.lines[first + k - 1].kind,
                     part |-> Part(first + k - 1)]
<1>4. LinesFrom(from) = [k \in 1 .. n + 1 - first |-> At(k)]
  BY <1>1, <1>2, <1>3 DEF LinesFrom
<1>5. ASSUME NEW k \in 1 .. n + 1 - first
      PROVE  At(k) \in Signals /\ Read(At(k), first + k - 1, from)
  <2>1. first + k - 1 \in 1 .. n
    BY <1>3
  <2>2. file.lines[first + k - 1].no \in Nat /\ file.lines[first + k - 1].kind \in Kinds
    BY <1>1, <2>1, FileIs
  <2>3. Part(first + k - 1) \in Parts
    BY DEF Parts
  <2> QED BY <2>2, <2>3 DEF Signals, Read
<1> HIDE DEF At, Part
<1>6. n + 1 - first \in Nat
  BY <1>3
<1>7. /\ LinesFrom(from) \in Seq(Signals)
      /\ Len(LinesFrom(from)) = n + 1 - first
      /\ \A k \in 1 .. n + 1 - first : LinesFrom(from)[k] = At(k)
  <2>1. LinesFrom(from) \in [1 .. n + 1 - first -> Signals]
    BY <1>4, <1>5
  <2> QED BY <1>4, <1>6, <2>1
<1>8. from \in {2 * first - 2, 2 * first - 1}
  BY <1>2, <1>3
<1> QED BY <1>1, <1>3, <1>5, <1>7, <1>8

\* What a scan sends, after what was sent before it.
LEMMA ScanIs ==
  ASSUME FInv, NEW from \in Nat, scan(from)
  PROVE  \/ ~(from < Size) /\ emitted' = emitted /\ currSize' = from
         \/ /\ from < Size /\ currSize' = Size
            /\ emitted' \in Seq(Signals)
            /\ \E first \in 1 .. Len(file.lines) :
                 /\ from \in {2 * first - 2, 2 * first - 1}
                 /\ Len(emitted') = Len(emitted) + Len(file.lines) + 1 - first
                 /\ \A k \in 1 .. Len(emitted) : emitted'[k] = emitted[k]
                 /\ \A i \in first .. Len(file.lines) :
                      Read(emitted'[Len(emitted) + 1 + i - first], i, from)
<1>1. FileTypes /\ Numbered /\ Len(emitted) \in Nat /\ emitted \in Seq(Signals)
      /\ Len(file.lines) \in Nat
  BY FileIs DEF FInv
<1>2. CASE ~Exists
  <2>1. Len(file.lines) = 0 /\ file.torn \in BOOLEAN
    BY <1>1, <1>2, FileIs, EmptySeq DEF Numbered
  <2>2. ~(from < Size)
    BY <1>1, <2>1, SizeIs
  <2> QED BY <1>2, <2>2 DEF scan
<1>3. CASE Exists /\ ~(from < Size)
  BY <1>3 DEF scan
<1>4. CASE Exists /\ from < Size
  <2>1. emitted' = emitted \o LinesFrom(from) /\ currSize' = Size
    BY <1>4 DEF scan
  <2>2. PICK first \in 1 .. Len(file.lines) :
           /\ from \in {2 * first - 2, 2 * first - 1}
           /\ LinesFrom(from) \in Seq(Signals)
           /\ Len(LinesFrom(from)) = Len(file.lines) + 1 - first
           /\ \A k \in 1 .. Len(file.lines) + 1 - first :
                Read(LinesFrom(from)[k], first + k - 1, from)
    BY <1>1, <1>4, LinesFromAre
  <2>3. /\ emitted' \in Seq(Signals)
        /\ Len(emitted') = Len(emitted) + (Len(file.lines) + 1 - first)
        /\ \A k \in 1 .. Len(emitted) + (Len(file.lines) + 1 - first) :
             emitted'[k] = IF k <= Len(emitted) THEN emitted[k]
                           ELSE LinesFrom(from)[k - Len(emitted)]
    <3>1. PICK s \in Seq(Signals) : s = LinesFrom(from)
      BY <2>2
    <3>2. Len(s) = Len(file.lines) + 1 - first
      BY <2>2, <3>1
    <3>3. /\ emitted \o s \in Seq(Signals)
          /\ Len(emitted \o s) = Len(emitted) + (Len(file.lines) + 1 - first)
          /\ \A k \in 1 .. Len(emitted) + (Len(file.lines) + 1 - first) :
               (emitted \o s)[k] = IF k <= Len(emitted) THEN emitted[k] ELSE s[k - Len(emitted)]
      BY <1>1, <3>2, ConcatProperties
    <3> QED BY <2>1, <3>1, <3>3
  <2>4. \A k \in 1 .. Len(emitted) : emitted'[k] = emitted[k]
    BY <1>1, <2>3
  <2>5. ASSUME NEW i \in first .. Len(file.lines)
        PROVE  Read(emitted'[Len(emitted) + 1 + i - first], i, from)
    <3>1. PICK k \in 1 .. Len(file.lines) + 1 - first : k = i + 1 - first /\ first + k - 1 = i
      BY <1>1
    <3>2. emitted'[Len(emitted) + 1 + i - first] = LinesFrom(from)[k]
      BY <1>1, <2>3, <3>1
    <3> QED BY <2>2, <3>1, <3>2
  <2> QED BY <1>1, <1>4, <2>1, <2>2, <2>3, <2>4, <2>5
<1> QED BY <1>2, <1>3, <1>4

\* A line of which something was sent.
Sent(i) == \E k \in 1 .. Len(emitted) : emitted[k].no = file.lines[i].no

\* A scan from where the slots left off, or from the start: everything from
\* there on is sent, in order, and what it left of a half line is still to come.
LEMMA ScanStep ==
  ASSUME FInv, NEW from \in {0, currSize}, scan(from), UNCHANGED disk
  PROVE  /\ emitted' \in Seq(Signals) /\ currSize' \in Nat
         /\ Numbered' /\ WholeLines'
         /\ from <= Size => currSize' = Size
         /\ from > Size => emitted' = emitted /\ currSize' = from
         /\ Straight /\ Unread(from) =>
              /\ \A k \in 1 .. Len(emitted'), i \in 1 .. Len(file.lines) :
                   currSize' < 2 * i => Before(emitted'[k], i, currSize')
              /\ \A j \in 1 .. Len(emitted') : \A i \in 1 .. j - 1 : Follows(emitted'[i], emitted'[j])
         /\ (\A i \in 1 .. Len(file.lines) : 2 * i - 1 <= from => Sent(i)) =>
              \A i \in 1 .. Len(file.lines) :
                2 * i - 1 <= currSize' => \E k \in 1 .. Len(emitted') : emitted'[k].no = file.lines[i].no
<1> DEFINE n == Len(file.lines)
           L == Len(emitted)
           Consequences ==
             /\ Numbered' /\ WholeLines'
             /\ Straight /\ Unread(from) =>
                  /\ \A k \in 1 .. Len(emitted'), i \in 1 .. Len(file.lines) :
                       currSize' < 2 * i => Before(emitted'[k], i, currSize')
                  /\ \A j \in 1 .. Len(emitted') : \A i \in 1 .. j - 1 :
                       Follows(emitted'[i], emitted'[j])
             /\ (\A i \in 1 .. Len(file.lines) : 2 * i - 1 <= from => Sent(i)) =>
                  \A i \in 1 .. Len(file.lines) : 2 * i - 1 <= currSize' =>
                     \E k \in 1 .. Len(emitted') : emitted'[k].no = file.lines[i].no
<1>1. /\ FileTypes /\ Numbered /\ WholeLines /\ InOrder
      /\ n \in Nat /\ L \in Nat /\ currSize \in Nat /\ from \in Nat /\ emitted \in Seq(Signals)
      /\ written \in Nat
      /\ Size \in Nat /\ Size \in {2 * n - 1, 2 * n} /\ (~file.torn => Size = 2 * n)
      /\ file' = file /\ written' = written /\ happened' = happened
  BY FileIs, SizeIs DEF FInv, FileTypes, disk
<1>even. (\E m \in 0 .. currSize : currSize = 2 * m) => \E m \in 0 .. from : from = 2 * m
  <2>1. CASE from = currSize
    BY <2>1
  <2>2. CASE from = 0
    <3>1. 0 \in 0 .. from /\ from = 2 * 0
      BY <2>2
    <3> QED BY <3>1
  <2> QED BY <2>1, <2>2
<1>2. CASE ~(from < Size) /\ emitted' = emitted /\ currSize' = from
  <2>1. Numbered'
    BY <1>1, <1>2 DEF Numbered, Exists
  <2>2. WholeLines'
    BY <1>1, <1>2, <1>even DEF WholeLines
  <2>3. from <= Size => currSize' = Size
    BY <1>1, <1>2
  <2> QED BY <1>1, <1>2, <2>1, <2>2, <2>3 DEF Unread, Sent, InOrder
<1>3. ASSUME from < Size, currSize' = Size, emitted' \in Seq(Signals),
             NEW first \in 1 .. n,
             from \in {2 * first - 2, 2 * first - 1},
             Len(emitted') = L + n + 1 - first,
             \A k \in 1 .. L : emitted'[k] = emitted[k],
             \A i \in first .. n : Read(emitted'[L + 1 + i - first], i, from)
      PROVE  Consequences
  <2> HIDE DEF n, L
  <2>1. ASSUME NEW j \in 1 .. Len(emitted'), ~(j \in 1 .. L)
        PROVE  \E i \in first .. n : j = L + 1 + i - first /\ Read(emitted'[j], i, from)
    <3>1. n \in Nat /\ L \in Nat /\ first \in Int /\ j \in Int /\ first <= n
          /\ 1 <= j /\ j <= L + n + 1 - first
      BY <1>1, <1>3, <2>1
    <3>2. j > L
      BY <2>1, <3>1
    <3>3. PICK i \in Int : i = j + first - L - 1
      BY <3>1
    <3>4. i \in first .. n /\ j = L + 1 + i - first
      BY <3>1, <3>2, <3>3
    <3> QED BY <1>3, <3>4
  <2>2. /\ \A i \in 1 .. n : file.lines[i].no \in 1 .. written
        /\ \A j \in 1 .. n : \A i \in 1 .. j - 1 : file.lines[i].no < file.lines[j].no
        /\ \A k \in 1 .. L : emitted[k].no \in 1 .. written
        /\ \A k \in 1 .. L, i \in 1 .. n :
             emitted[k].no = file.lines[i].no => emitted[k].kind = file.lines[i].kind
    BY <1>1 DEF Numbered, n, L
  <2>3. \A i, j \in 1 .. n : i < j => file.lines[i].no < file.lines[j].no
    BY <1>1, <2>2
  <2>4. Numbered'
    <3>1. ASSUME NEW j \in 1 .. Len(emitted')
          PROVE  /\ emitted'[j].no \in 1 .. written
                 /\ \A i \in 1 .. n :
                      emitted'[j].no = file.lines[i].no => emitted'[j].kind = file.lines[i].kind
      <4>1. CASE j \in 1 .. L
        BY <1>3, <2>2, <4>1
      <4>2. CASE ~(j \in 1 .. L)
        <5>1. PICK h \in first .. n : Read(emitted'[j], h, from)
          BY <2>1, <4>2
        <5>2. h \in 1 .. n /\ emitted'[j].no = file.lines[h].no /\ emitted'[j].kind = file.lines[h].kind
          BY <1>1, <5>1 DEF Read
        <5>3. \A i \in 1 .. n : file.lines[i].no = file.lines[h].no => i = h
          BY <1>1, <2>2, <2>3, <5>2
        <5> QED BY <2>2, <5>2, <5>3
      <4> QED BY <4>1, <4>2
    <3> QED BY <1>1, <2>2, <3>1 DEF Numbered, Exists, n
  <2>5. WholeLines'
    <3> SUFFICES ASSUME "torn" \notin happened
                 PROVE  /\ \E m \in 0 .. currSize' : currSize' = 2 * m
                        /\ \A j \in 1 .. Len(emitted') : emitted'[j].part = "whole"
      BY <1>1 DEF WholeLines
    <3>1. ~file.torn /\ (\E m \in 0 .. currSize : currSize = 2 * m)
          /\ \A k \in 1 .. L : emitted[k].part = "whole"
      BY <1>1 DEF WholeLines, L
    <3>2. Size = 2 * n /\ \E m \in 0 .. from : from = 2 * m
      BY <1>1, <1>even, <3>1
    <3>3. ASSUME NEW j \in 1 .. Len(emitted')
          PROVE  emitted'[j].part = "whole"
      <4>1. CASE j \in 1 .. L
        BY <1>3, <3>1, <4>1
      <4>2. CASE ~(j \in 1 .. L)
        <5>1. PICK i \in first .. n : Read(emitted'[j], i, from)
          BY <2>1, <4>2
        <5>2. from # 2 * i - 1 /\ Size # 2 * i - 1
          BY <1>1, <3>2
        <5> QED BY <5>1, <5>2 DEF Read
      <4> QED BY <4>1, <4>2
    <3> QED BY <1>1, <1>3, <3>2, <3>3
  <2>6. ASSUME Straight, Unread(from)
        PROVE  /\ \A k \in 1 .. Len(emitted'), i \in 1 .. n :
                    currSize' < 2 * i => Before(emitted'[k], i, currSize')
               /\ \A j \in 1 .. Len(emitted') : \A i \in 1 .. j - 1 : Follows(emitted'[i], emitted'[j])
    <3>1. ASSUME NEW k \in 1 .. Len(emitted'), NEW i \in 1 .. n, currSize' < 2 * i
          PROVE  Before(emitted'[k], i, currSize')
      <4>1. i = n /\ currSize' = 2 * n - 1 /\ from < 2 * n - 1
        BY <1>1, <1>3, <3>1
      <4>2. CASE k \in 1 .. L
        <5>1. Before(emitted[k], n, from)
          BY <1>1, <2>6, <4>1, <4>2 DEF Unread, n, L
        <5> QED BY <1>1, <1>3, <4>1, <4>2, <5>1 DEF Before
      <4>3. CASE ~(k \in 1 .. L)
        <5>1. PICK h \in first .. n : Read(emitted'[k], h, from)
          BY <2>1, <4>3
        <5>2. CASE h = n
          <6>1. from # 2 * h - 1 /\ Size = 2 * h - 1
            BY <1>1, <1>3, <4>1, <5>2
          <6>2. emitted'[k].no = file.lines[i].no /\ emitted'[k].part = "head"
            BY <4>1, <5>1, <5>2, <6>1 DEF Read
          <6> QED BY <4>1, <6>2 DEF Before
        <5>3. CASE h # n
          <6>1. h \in 1 .. n /\ n \in 1 .. n /\ h < n
            BY <1>1, <5>3
          <6> QED BY <2>3, <4>1, <5>1, <6>1 DEF Read, Before
        <5> QED BY <5>2, <5>3
      <4> QED BY <4>2, <4>3
    <3>2. ASSUME NEW j \in 1 .. Len(emitted'), NEW i \in 1 .. j - 1
          PROVE  Follows(emitted'[i], emitted'[j])
      <4>0. i \in 1 .. Len(emitted') /\ i < j /\ Len(emitted') \in Nat
        BY <1>1, <1>3
      <4>1. CASE j \in 1 .. L
        <5>1. Follows(emitted[i], emitted[j])
          BY <1>1, <2>6, <4>0, <4>1 DEF InOrder, L
        <5>2. i \in 1 .. L
          BY <4>0, <4>1 DEF L
        <5> QED BY <1>3, <4>1, <5>1, <5>2
      <4>2. CASE ~(j \in 1 .. L)
        <5>1. PICK b \in first .. n : j = L + 1 + b - first /\ Read(emitted'[j], b, from)
          BY <2>1, <4>2
        <5>2. b \in 1 .. n /\ from < 2 * b
          BY <1>1, <1>3, <5>1
        <5>3. CASE i \in 1 .. L
          <6>1. Before(emitted[i], b, from) /\ emitted'[i] = emitted[i]
            BY <1>3, <2>6, <5>2, <5>3 DEF Unread, n, L
          <6>2. CASE emitted[i].no < file.lines[b].no
            BY <5>1, <6>1, <6>2 DEF Follows, Read
          <6>3. CASE emitted[i].no = file.lines[b].no /\ emitted[i].part = "head" /\ from = 2 * b - 1
            <7>1. emitted[i].kind = file.lines[b].kind
              BY <2>2, <5>2, <5>3, <6>3
            <7> QED BY <5>1, <6>1, <6>3, <7>1 DEF Follows, Read
          <6> QED BY <6>1, <6>2, <6>3 DEF Before
        <5>4. CASE ~(i \in 1 .. L)
          <6>1. PICK a \in first .. n : i = L + 1 + a - first /\ Read(emitted'[i], a, from)
            BY <2>1, <4>0, <5>4
          <6>2. a \in 1 .. n /\ a < b
            BY <1>1, <4>0, <5>1, <6>1
          <6> QED BY <2>3, <5>1, <5>2, <6>1, <6>2 DEF Follows, Read
        <5> QED BY <5>3, <5>4
      <4> QED BY <4>1, <4>2
    <3> QED BY <3>1, <3>2
  <2>7. ASSUME \A i \in 1 .. n : 2 * i - 1 <= from => Sent(i), NEW i \in 1 .. n
        PROVE  \E k \in 1 .. Len(emitted') : emitted'[k].no = file.lines[i].no
    <3>1. CASE i \in first .. n
      <4>1. L + 1 + i - first \in 1 .. Len(emitted')
        BY <1>1, <1>3, <3>1
      <4>2. emitted'[L + 1 + i - first].no = file.lines[i].no
        BY <1>3, <3>1 DEF Read
      <4> QED BY <4>1, <4>2
    <3>2. CASE ~(i \in first .. n)
      <4>1. 2 * i - 1 <= from
        BY <1>1, <1>3, <3>2
      <4>2. PICK k \in 1 .. L : emitted[k].no = file.lines[i].no
        BY <2>7, <4>1 DEF Sent, L
      <4>3. k \in 1 .. Len(emitted') /\ emitted'[k] = emitted[k]
        BY <1>1, <1>3, <4>2
      <4> QED BY <4>2, <4>3
    <3> QED BY <3>1, <3>2
  <2> QED BY <2>4, <2>5, <2>6, <2>7 DEF n
<1>4. CASE /\ from < Size /\ currSize' = Size
           /\ emitted' \in Seq(Signals)
           /\ \E first \in 1 .. Len(file.lines) :
                /\ from \in {2 * first - 2, 2 * first - 1}
                /\ Len(emitted') = Len(emitted) + Len(file.lines) + 1 - first
                /\ \A k \in 1 .. Len(emitted) : emitted'[k] = emitted[k]
                /\ \A i \in first .. Len(file.lines) :
                     Read(emitted'[Len(emitted) + 1 + i - first], i, from)
  <2>1. PICK first \in 1 .. n :
           /\ from \in {2 * first - 2, 2 * first - 1}
           /\ Len(emitted') = L + n + 1 - first
           /\ \A k \in 1 .. L : emitted'[k] = emitted[k]
           /\ \A i \in first .. n : Read(emitted'[L + 1 + i - first], i, from)
    BY <1>4
  <2>2. from < Size /\ currSize' = Size /\ emitted' \in Seq(Signals)
    BY <1>4
  <2> HIDE DEF n, L, Consequences
  <2>3. Consequences
    BY <1>3, <2>1, <2>2
  <2> QED BY <1>1, <2>2, <2>3 DEF Consequences
<1> QED BY <1>1, <1>2, <1>4, ScanIs

\* What is sent agrees with the file that may come back, as the file does.
LEMMA AsideScan ==
  ASSUME FInv, NEW from \in {0, currSize}, scan(from), UNCHANGED disk
  PROVE  AsideNumbered'
<1>1. /\ AsideNumbered /\ Len(emitted) \in Nat /\ Len(file.lines) \in Nat /\ from \in Nat
      /\ file' = file /\ aside' = aside /\ written' = written
  BY FileIs DEF FInv, FileTypes, disk
<1>2. ASSUME NEW k \in 1 .. Len(emitted'), NEW i \in 1 .. Len(aside.lines),
             emitted'[k].no = aside.lines[i].no
      PROVE  emitted'[k].kind = aside.lines[i].kind
  <2>1. \/ k \in 1 .. Len(emitted) /\ emitted'[k] = emitted[k]
        \/ \E h \in 1 .. Len(file.lines) : Read(emitted'[k], h, from)
    <3>1. CASE emitted' = emitted
      BY <3>1
    <3>2. CASE \E first \in 1 .. Len(file.lines) :
                 /\ Len(emitted') = Len(emitted) + Len(file.lines) + 1 - first
                 /\ \A j \in 1 .. Len(emitted) : emitted'[j] = emitted[j]
                 /\ \A h \in first .. Len(file.lines) :
                      Read(emitted'[Len(emitted) + 1 + h - first], h, from)
      <4>1. PICK first \in 1 .. Len(file.lines) :
                 /\ Len(emitted') = Len(emitted) + Len(file.lines) + 1 - first
                 /\ \A j \in 1 .. Len(emitted) : emitted'[j] = emitted[j]
                 /\ \A h \in first .. Len(file.lines) :
                      Read(emitted'[Len(emitted) + 1 + h - first], h, from)
        BY <3>2
      <4>2. CASE k \in 1 .. Len(emitted)
        BY <4>1, <4>2
      <4>3. CASE ~(k \in 1 .. Len(emitted))
        <5> DEFINE h == k + first - Len(emitted) - 1
        <5>1. k \in Int /\ first \in Int
          BY <1>1, <4>1
        <5>2. h \in first .. Len(file.lines) /\ k = Len(emitted) + 1 + h - first
          BY <1>1, <4>1, <4>3, <5>1
        <5>3. h \in 1 .. Len(file.lines)
          BY <1>1, <5>1, <5>2
        <5> HIDE DEF h
        <5>4. Read(emitted'[k], h, from)
          BY <4>1, <5>2
        <5> QED BY <5>3, <5>4
      <4> QED BY <4>2, <4>3
    <3> QED BY <1>1, <3>1, <3>2, ScanIs
  <2>a. /\ \A j \in 1 .. Len(emitted), h \in 1 .. Len(aside.lines) :
             emitted[j].no = aside.lines[h].no => emitted[j].kind = aside.lines[h].kind
        /\ \A j \in 1 .. Len(file.lines), h \in 1 .. Len(aside.lines) :
             file.lines[j].no = aside.lines[h].no => file.lines[j].kind = aside.lines[h].kind
    BY <1>1 DEF AsideNumbered
  <2>2. CASE k \in 1 .. Len(emitted) /\ emitted'[k] = emitted[k]
    BY <1>2, <2>a, <2>2
  <2>3. ASSUME NEW h \in 1 .. Len(file.lines), Read(emitted'[k], h, from)
        PROVE  emitted'[k].kind = aside.lines[i].kind
    <3>1. emitted'[k].no = file.lines[h].no /\ emitted'[k].kind = file.lines[h].kind
      BY <2>3 DEF Read
    <3> QED BY <1>2, <2>a, <2>3, <3>1
  <2> QED BY <2>1, <2>2, <2>3
<1>3. /\ aside.torn = FALSE
      /\ aside.inode = 0 => aside.lines = <<>>
      /\ \A i \in 1 .. Len(aside.lines) : aside.lines[i].no \in 1 .. written
      /\ \A j \in 1 .. Len(aside.lines) :
           \A i \in 1 .. j - 1 : aside.lines[i].no < aside.lines[j].no
      /\ \A k \in 1 .. Len(file.lines), i \in 1 .. Len(aside.lines) :
           file.lines[k].no = aside.lines[i].no => file.lines[k].kind = aside.lines[i].kind
  BY <1>1 DEF AsideNumbered
<1> QED BY <1>1, <1>2, <1>3 DEF AsideNumbered

\* A slot that has read all that there is misses nothing.
LEMMA AllRead ==
  ASSUME file' = file, happened' = happened, Size' = Size, Size \in Nat,
         watching' => currSize' = Size,
         "truncate" \notin happened /\ watching' =>
           \A i \in 1 .. Len(file.lines) : 2 * i - 1 <= currSize' =>
             \E k \in 1 .. Len(emitted') : emitted'[k].no = file.lines[i].no
  PROVE  NoneMissed'
BY DEF NoneMissed

\* A slot that reads from where the lines are not sent yet, and knows the file then.
LEMMA SlotKeeps ==
  ASSUME FInv, NEW from \in {0, currSize}, scan(from), UNCHANGED disk, from <= Size \/ ~watching',
         fileEvent' = "none", dirEvent' \in BOOLEAN, watching' \in BOOLEAN, watched' \in Nat,
         watching' => Exists /\ watched' = file.inode /\ inode' = file.inode,
         ~watching' => watched' = 0 /\ ("overtaken" \notin happened => ~Exists),
         inode' \in Nat,
         Straight /\ Exists => Unread(from),
         "truncate" \notin happened /\ watching' =>
           \A i \in 1 .. Len(file.lines) : 2 * i - 1 <= from => Sent(i)
  PROVE  FInv'
<1>1. /\ FileTypes /\ Numbered /\ InOrder /\ currSize \in Nat /\ Size \in Nat
      /\ file' = file /\ written' = written /\ happened' = happened /\ free' = free
      /\ aside' = aside /\ returns' = returns
  BY SizeIs DEF FInv, FileTypes, disk
<1>2. /\ emitted' \in Seq(Signals) /\ currSize' \in Nat
      /\ Numbered' /\ WholeLines'
      /\ from <= Size => currSize' = Size
      /\ from > Size => emitted' = emitted /\ currSize' = from
      /\ Straight /\ Unread(from) =>
           /\ \A k \in 1 .. Len(emitted'), i \in 1 .. Len(file.lines) :
                currSize' < 2 * i => Before(emitted'[k], i, currSize')
           /\ \A j \in 1 .. Len(emitted') : \A i \in 1 .. j - 1 : Follows(emitted'[i], emitted'[j])
      /\ (\A i \in 1 .. Len(file.lines) : 2 * i - 1 <= from => Sent(i)) =>
           \A i \in 1 .. Len(file.lines) :
             2 * i - 1 <= currSize' => \E k \in 1 .. Len(emitted') : emitted'[k].no = file.lines[i].no
  BY ScanStep
<1>3. FileTypes'
  BY <1>1, <1>2 DEF FileTypes
<1>3a. AsideNumbered'
  BY AsideScan
<1>4. Known'
  BY <1>1 DEF Known, Exists
<1>5. Size' = Size
  BY <1>1 DEF Size
<1>6. watching' => currSize' = Size /\ ReadFrom' = currSize'
  BY <1>1, <1>2, <1>5 DEF ReadFrom, isFileNewer, getINode
<1>7. InOrder'
  <2> SUFFICES ASSUME Straight
               PROVE  /\ Exists' => Unread(ReadFrom)'
                      /\ \A j \in 1 .. Len(emitted') : \A i \in 1 .. j - 1 :
                           Follows(emitted'[i], emitted'[j])
    BY <1>1 DEF InOrder, Straight, Follows
  <2>1. CASE ~Exists
    <3>1. Unread(from)
      BY <1>1, <2>1, FileIs DEF Numbered, Unread
    <3> QED BY <1>1, <1>2, <2>1, <3>1 DEF Exists
  <2>2. CASE Exists
    <3>1. watching' /\ Unread(from) /\ ReadFrom' = currSize'
      BY <1>6, <2>2 DEF Straight
    <3>2. \A k \in 1 .. Len(emitted'), i \in 1 .. Len(file.lines) :
                currSize' < 2 * i => Before(emitted'[k], i, currSize')
      BY <1>2, <3>1
    <3>3. Unread(ReadFrom)'
      BY <1>1, <3>1, <3>2 DEF Unread, Before
    <3> QED BY <1>2, <3>1, <3>3
  <2> QED BY <2>1, <2>2
<1>8. NoneMissed'
  <2>1. watching' => currSize' = Size
    BY <1>6
  <2>2. ASSUME "truncate" \notin happened, watching'
        PROVE  \A i \in 1 .. Len(file.lines) : 2 * i - 1 <= currSize' =>
                 \E k \in 1 .. Len(emitted') : emitted'[k].no = file.lines[i].no
    BY <1>2, <2>2
  <2> QED BY <1>1, <1>5, <2>1, <2>2, AllRead
<1> QED BY <1>2, <1>3, <1>3a, <1>4, <1>7, <1>8 DEF FInv

LEMMA SlotStep ==
  ASSUME FInv, Slots
  PROVE  FInv'
<1>1. /\ FileTypes /\ Numbered /\ AsideNumbered /\ Known /\ InOrder /\ NoneMissed /\ WholeLines
      /\ currSize \in Nat /\ Size \in Nat /\ file.inode \in Nat /\ inode \in Nat /\ watched \in Nat
      /\ watching \in BOOLEAN /\ dirEvent \in BOOLEAN
  <2>1. FileTypes /\ Numbered
    BY DEF FInv
  <2>2. file.inode \in Inodes \cup {0} /\ Size \in Nat
    BY <2>1, FileIs, SizeIs
  <2>3. file.inode \in Nat
    <3>1. CASE file.inode = 0
      BY <3>1
    <3>2. CASE file.inode \in Inodes
      <4>1. file.inode \in Nat \ {0}
        BY <3>2, InodesAssumption
      <4> QED BY <4>1
    <3> QED BY <2>2, <3>1, <3>2
  <2>4. currSize \in Nat /\ inode \in Nat /\ watched \in Nat
    BY <2>1 DEF FileTypes
  <2>5. watching \in BOOLEAN /\ dirEvent \in BOOLEAN
    BY <2>1 DEF FileTypes
  <2> QED BY <2>1, <2>2, <2>3, <2>4, <2>5 DEF FInv
<1>2. CASE watchedFileChanged
  <2> DEFINE from == IF isFileNewer THEN 0 ELSE currSize
  <2>1. /\ fileEvent # "none" /\ watching' = (watching /\ fileEvent = "changed")
        /\ fileEvent' = "none" /\ scan(from) /\ UNCHANGED <<disk, dirEvent, watched, inode>>
    BY <1>2 DEF watchedFileChanged
  <2>2. watching /\ from = ReadFrom /\ from \in {0, currSize}
    BY <1>1, <2>1 DEF Known, ReadFrom
  <2>3. watching' => fileEvent = "changed" /\ Exists /\ watched = file.inode /\ inode = file.inode
    BY <1>1, <2>1 DEF Known
  <2>4. ~watching' => fileEvent = "removed"
    BY <1>1, <2>1, <2>2 DEF FileTypes
  <2>5. from <= Size \/ ~watching'
    BY <1>1, <2>3 DEF isFileNewer, getINode
  <2>6. "truncate" \notin happened /\ watching' =>
          \A i \in 1 .. Len(file.lines) : 2 * i - 1 <= from => Sent(i)
    <3> SUFFICES ASSUME "truncate" \notin happened, watching', NEW i \in 1 .. Len(file.lines),
                        2 * i - 1 <= from
                 PROVE  Sent(i)
      OBVIOUS
    <3>1. 2 * i - 1 <= currSize
      BY <1>1, <2>2
    <3> QED BY <1>1, <2>2, <2>3, <3>1 DEF NoneMissed, Sent
  <2>7. Straight /\ Exists => Unread(from)
    BY <1>1, <2>2 DEF InOrder
  <2>8. watching' \in BOOLEAN
    BY <2>1
  <2> HIDE DEF from
  <2> QED BY <1>1, <2>1, <2>2, <2>3, <2>4, <2>5, <2>6, <2>7, <2>8, SlotKeeps DEF Known
<1>3. CASE watchedDirChanged /\ Exists /\ ~watching
  <2>1. /\ watching' = TRUE /\ watched' = file.inode /\ inode' = file.inode /\ scan(0)
        /\ dirEvent' = FALSE /\ UNCHANGED <<disk, fileEvent>>
    BY <1>3 DEF watchedDirChanged, getINode
  <2>2. fileEvent' = "none" /\ 0 <= Size
    BY <1>1, <1>3, <2>1 DEF Known
  <2>3. Straight /\ Exists => Unread(0)
    BY <1>1, <1>3 DEF InOrder, ReadFrom
  <2>4. \A i \in 1 .. Len(file.lines) : ~(2 * i - 1 <= 0)
    <3>1. Len(file.lines) \in Nat
      BY <1>1, FileIs
    <3> QED BY <3>1
  <2> QED BY <1>1, <1>3, <2>1, <2>2, <2>3, <2>4, SlotKeeps
<1>4. CASE watchedDirChanged /\ ~(Exists /\ ~watching)
  <2>1. /\ UNCHANGED <<watching, watched, inode, currSize, emitted, fileEvent>> /\ dirEvent' = FALSE
        /\ UNCHANGED <<file, aside, returns, written, free, happened>>
    BY <1>4 DEF watchedDirChanged, disk
  <2>2. FileTypes' /\ Numbered' /\ AsideNumbered' /\ NoneMissed' /\ WholeLines'
    <3>0. AsideNumbered'
      <4>1. UNCHANGED <<aside, written, emitted, file>>
        BY <2>1
      <4> QED BY <1>1, <4>1, Zenon DEF AsideNumbered
    <3>1. FileTypes'
      BY <1>1, <2>1 DEF FileTypes
    <3>2. Numbered' /\ WholeLines'
      BY <1>1, <2>1 DEF Numbered, Exists, WholeLines
    <3>3. NoneMissed'
      BY <1>1, <2>1 DEF NoneMissed, Size
    <3> QED BY <3>0, <3>1, <3>2, <3>3
  <2>3. Known'
    BY <1>1, <1>4, <2>1 DEF Known, Exists
  <2>4. InOrder'
    <3>1. isFileNewer' = isFileNewer
      BY <2>1 DEF isFileNewer, getINode, Size
    <3>2. ReadFrom' = ReadFrom
      BY <2>1, <3>1 DEF ReadFrom
    <3>3. Unread(ReadFrom)' <=> Unread(ReadFrom)
      BY <2>1, <3>2 DEF Unread, Before
    <3> QED BY <1>1, <2>1, <3>3 DEF InOrder, Straight, Exists, Follows
  <2> QED BY <2>2, <2>3, <2>4 DEF FInv
<1> QED BY <1>2, <1>3, <1>4 DEF Slots

LEMMA FileStep == FInv /\ [Disk \/ Slots]_fileWatcherVars => FInv'
<1> SUFFICES ASSUME FInv, [Disk \/ Slots]_fileWatcherVars
             PROVE  FInv'
  OBVIOUS
<1>1. CASE UNCHANGED fileWatcherVars
  <2>1. UNCHANGED <<file, aside, returns, written, free, happened, fileEvent, dirEvent, watched,
                    watching, currSize, inode, emitted>>
    BY <1>1 DEF fileWatcherVars, disk, slotVars
  <2>2. FileTypes' /\ Numbered' /\ AsideNumbered' /\ NoneMissed' /\ WholeLines' /\ Known'
    BY <2>1 DEF FInv, FileTypes, Numbered, AsideNumbered, Exists, NoneMissed, Size, WholeLines, Known
  <2>3. isFileNewer' = isFileNewer
    BY <2>1 DEF isFileNewer, getINode, Size
  <2>4. ReadFrom' = ReadFrom
    BY <2>1, <2>3 DEF ReadFrom
  <2>5. Unread(ReadFrom)' <=> Unread(ReadFrom)
    BY <2>1, <2>4 DEF Unread, Before
  <2>6. InOrder'
    BY <2>1, <2>5 DEF FInv, InOrder, Straight, Exists, Follows
  <2> QED BY <2>2, <2>6 DEF FInv
<1> QED BY <1>1, DiskStep, SlotStep

LEMMA FileInit == Init => FInv
<1> SUFFICES ASSUME Init
             PROVE  FInv
  OBVIOUS
<1>1. PICK i \in Inodes :
        /\ file = [inode |-> i, lines |-> <<>>, torn |-> FALSE]
        /\ aside = [inode |-> 0, lines |-> <<>>, torn |-> FALSE] /\ returns = 0
        /\ watched = i /\ inode = i /\ free = Inodes \ {i}
  BY DEF Init, NoFile
<1>2. /\ written = 0 /\ currSize = 0 /\ fileEvent = "none" /\ dirEvent = FALSE
      /\ watching = TRUE /\ emitted = <<>> /\ happened = {} /\ i \in Nat /\ i # 0 /\ MaxLines \in Nat
  BY InodesAssumption, BoundsAssumption DEF Init
<1>3. <<>> \in Seq(Lines) /\ <<>> \in Seq(Signals) /\ Len(<<>>) = 0
  OBVIOUS
<1>4. file.inode = i /\ file.lines = <<>> /\ file.torn = FALSE
  BY <1>1
<1>5. FileTypes
  <2>1. /\ file \in [inode : Inodes \cup {0}, lines : Seq(Lines), torn : BOOLEAN]
        /\ aside \in [inode : Inodes \cup {0}, lines : Seq(Lines), torn : BOOLEAN]
    BY <1>1, <1>3
  <2>2. written \in 0 .. MaxLines /\ free \subseteq Inodes /\ watched \in Nat /\ inode \in Nat
    BY <1>1, <1>2
  <2> QED BY <1>1, <1>2, <1>3, <2>1, <2>2 DEF FileTypes
<1>6. Numbered
  BY <1>2, <1>3, <1>4 DEF Numbered, Exists
<1>6a. AsideNumbered
  BY <1>1, <1>3 DEF AsideNumbered
<1>7. Known
  BY <1>1, <1>2, <1>4 DEF Known, Exists
<1>8. InOrder
  BY <1>2, <1>3 DEF InOrder, Unread
<1>9. NoneMissed
  <2>1. Size = 0
    BY <1>4, <1>5, <1>6, <1>3, SizeIs
  <2> QED BY <1>2, <1>3, <1>4, <2>1 DEF NoneMissed
<1>10. WholeLines
  <2>1. 0 \in 0 .. 0 /\ 0 = 2 * 0
    OBVIOUS
  <2> QED BY <1>2, <1>3, <1>4, <2>1 DEF WholeLines
<1> QED BY <1>5, <1>6, <1>6a, <1>7, <1>8, <1>9, <1>10 DEF FInv

LEMMA FileInvariant == BeaconSpec => []FInv
<1>1. BeaconInit => FInv
  BY FileInit DEF BeaconInit
<1>2. FInv /\ [BeaconNext]_beaconVars => FInv'
  BY FileStep DEF BeaconNext, beaconVars
<1> QED BY <1>1, <1>2, PTL DEF BeaconSpec

\* Lines are sent in the order they were written and each once, or in two halves,
\* for any number of lines, as long as no file that was renamed away comes back
\* and none comes to the path before the signal of the old one's going is over.
THEOREM SentInOrder == BeaconSpec => []LinesOnceInOrder
<1>1. FInv => LinesOnceInOrder
  <2> SUFFICES ASSUME FInv, returns = 0, "overtaken" \notin happened,
                      NEW j \in 1 .. Len(emitted), NEW i \in 1 .. j - 1
               PROVE  \/ emitted[i].no < emitted[j].no
                      \/ /\ emitted[i].no = emitted[j].no
                         /\ emitted[i].part = "head" /\ emitted[j].part = "tail"
    BY DEF LinesOnceInOrder
  <2>1. Follows(emitted[i], emitted[j])
    BY DEF FInv, InOrder, Straight
  <2> QED BY <2>1 DEF Follows
<1> QED BY <1>1, FileInvariant, PTL

\* As long as none comes too early, the file at the path is watched when no signal is
\* due, however many come back.
THEOREM WatchKept == BeaconSpec => []KeepsWatching
<1>1. FInv => KeepsWatching
  BY DEF FInv, Known, KeepsWatching, Settled
<1> QED BY <1>1, FileInvariant, PTL

LEMMA MissesNothing ==
  ASSUME FInv
  PROVE  ListedMissesNothing
<1> SUFFICES ASSUME Settled, watching
             PROVE  /\ watched = file.inode
                    /\ "truncate" \notin happened =>
                         \A i \in 1 .. Len(file.lines) :
                           \E k \in 1 .. Len(emitted) : emitted[k].no = file.lines[i].no
  BY DEF ListedMissesNothing
<1>1. watched = file.inode
  BY DEF FInv, Known, Settled
<1>2. ASSUME "truncate" \notin happened, NEW i \in 1 .. Len(file.lines)
      PROVE  \E k \in 1 .. Len(emitted) : emitted[k].no = file.lines[i].no
  <2>1. currSize = Size
    BY <1>2 DEF FInv, NoneMissed, Settled
  <2>2. FileTypes /\ Numbered
    BY DEF FInv
  <2>3. 2 * i - 1 <= Size
    <3>1. PICK n \in Nat : n = Len(file.lines) /\ Size \in {2 * n - 1, 2 * n} /\ Size \in Nat
      BY <2>2, FileIs, SizeIs
    <3> QED BY <3>1
  <2> QED BY <1>2, <2>1, <2>3 DEF FInv, NoneMissed, Settled
<1> QED BY <1>1, <1>2

\* Whatever happened to it, files that come back included: the entry that is listed is that of the file that is
\* there, and where nothing was truncated all its lines are sent when no signal is due.
THEOREM NothingMissed == BeaconSpec => []ListedMissesNothing
BY FileInvariant, MissesNothing, PTL

-----------------------------------------------------------------------------
(* Charges *)

Charges(n) == {k \in 1 .. Len(emitted) : Captures(emitted[k]) /\ emitted[k].no = n}

LEMMA ChargesFinite ==
  ASSUME FInv, NEW n
  PROVE  IsFiniteSet(Charges(n)) /\ Cardinality(Charges(n)) \in Nat
<1>1. IsFiniteSet(1 .. Len(emitted))
  BY FileIs, FS_Interval DEF FInv
<1> QED BY <1>1, FS_Subset, FS_CardinalityType DEF Charges

\* What was sent stays.
LEMMA SentStays ==
  ASSUME FInv, Slots
  PROVE  /\ Len(emitted') \in Nat /\ Len(emitted) \in Nat /\ Len(emitted) <= Len(emitted')
         /\ \A k \in 1 .. Len(emitted) : emitted'[k] = emitted[k]
<1>1. Len(emitted) \in Nat /\ Len(file.lines) \in Nat /\ currSize \in Nat
  BY FileIs DEF FInv, FileTypes
<1>2. emitted' = emitted \/ \E from \in Nat : scan(from)
  <2>1. CASE watchedFileChanged
    BY <1>1, <2>1 DEF watchedFileChanged
  <2>2. CASE watchedDirChanged
    BY <2>2 DEF watchedDirChanged
  <2> QED BY <2>1, <2>2 DEF Slots
<1>3. ASSUME NEW from \in Nat, scan(from)
      PROVE  /\ Len(emitted') \in Nat /\ Len(emitted) <= Len(emitted')
             /\ \A k \in 1 .. Len(emitted) : emitted'[k] = emitted[k]
  BY <1>1, <1>3, ScanIs
<1> QED BY <1>1, <1>2, <1>3

LEMMA CountedStep ==
  ASSUME BInv, FInv', [BeaconNext]_beaconVars
  PROVE  Counted'
<1>1. charged = [n \in 1 .. MaxLines |-> Cardinality(Charges(n))]
  BY DEF BInv, Counted, Charges
<1>2. SUFFICES charged' = [n \in 1 .. MaxLines |->
                 Cardinality({k \in 1 .. Len(emitted') : Captures(emitted'[k]) /\ emitted'[k].no = n})]
  BY DEF Counted, Captures
<1>3. CASE charged' = charged /\ emitted' = emitted
  BY <1>1, <1>3 DEF Charges
<1>4. CASE Slots /\ newLine
  <2>1. /\ Len(emitted') \in Nat /\ Len(emitted) \in Nat /\ Len(emitted) <= Len(emitted')
        /\ \A k \in 1 .. Len(emitted) : emitted'[k] = emitted[k]
    BY <1>4, SentStays DEF BInv
  <2> DEFINE After(n) == {k \in 1 .. Len(emitted') : Captures(emitted'[k]) /\ emitted'[k].no = n}
             Now(n) == {k \in Hits : emitted'[k].no = n}
  <2>2. charged' = [n \in 1 .. MaxLines |-> Cardinality(Charges(n)) + Cardinality(Now(n))]
    <3>1. charged' = [n \in DOMAIN charged |-> charged[n] + Cardinality(Now(n))]
      BY <1>4 DEF newLine
    <3> HIDE DEF Now
    <3> QED BY <1>1, <3>1
  <2>3. ASSUME NEW n \in 1 .. MaxLines
        PROVE  Cardinality(After(n)) = Cardinality(Charges(n)) + Cardinality(Now(n))
    <3>1. After(n) = Charges(n) \cup Now(n) /\ Charges(n) \cap Now(n) = {}
      BY <2>1 DEF Charges, Hits
    <3>2. IsFiniteSet(Charges(n)) /\ Cardinality(Charges(n)) \in Nat
      BY ChargesFinite DEF BInv
    <3>3. IsFiniteSet(Now(n)) /\ Cardinality(Now(n)) \in Nat
      <4>1. IsFiniteSet(Len(emitted) + 1 .. Len(emitted'))
        BY <2>1, FS_Interval
      <4> QED BY <4>1, FS_Subset, FS_CardinalityType DEF Hits
    <3> HIDE DEF After, Now
    <3>4. Cardinality(Charges(n) \cup Now(n))
            = Cardinality(Charges(n)) + Cardinality(Now(n)) - Cardinality(Charges(n) \cap Now(n))
      BY <3>2, <3>3, FS_Union
    <3>5. Cardinality(Charges(n) \cap Now(n)) = 0
      BY <3>1, FS_EmptySet
    <3> QED BY <3>1, <3>2, <3>3, <3>4, <3>5
  <2> HIDE DEF Now
  <2> QED BY <2>2, <2>3
<1> QED BY <1>3, <1>4
        DEF BeaconNext, beaconVars, fileWatcherVars, slotVars, Disk, Write, WriteLine, WriteHead,
            WriteTail, Truncate, Rename, Leaves, Arrives, Create, Replace, Return

LEMMA BeaconInvariant == BeaconSpec => []BInv
<1>1. BeaconInit => BInv
  <2> SUFFICES ASSUME BeaconInit
               PROVE  BInv
    OBVIOUS
  <2>1. FInv
    BY FileInit DEF BeaconInit
  <2>2. emitted = <<>> /\ charged = [n \in 1 .. MaxLines |-> 0] /\ Len(<<>>) = 0
    BY DEF BeaconInit, Init
  <2>3. \A n : {k \in 1 .. Len(emitted) : Captures(emitted[k]) /\ emitted[k].no = n} = {}
    BY <2>2
  <2>4. Counted
    BY <2>2, <2>3, FS_EmptySet DEF Counted
  <2> QED BY <2>1, <2>4 DEF BInv
<1>2. BInv /\ [BeaconNext]_beaconVars => BInv'
  <2> SUFFICES ASSUME BInv, [BeaconNext]_beaconVars
               PROVE  BInv'
    OBVIOUS
  <2>1. FInv'
    BY FileStep DEF BeaconNext, beaconVars, BInv
  <2>2. Counted'
    BY <2>1, CountedStep
  <2> QED BY <2>1, <2>2 DEF BInv
<1> QED BY <1>1, <1>2, PTL DEF BeaconSpec

\* No host is charged twice for a line, read at once or in two halves, however
\* often the log is truncated or renamed: what it is charged for is sent once, as
\* long as no file comes back or comes too early (see SentInOrder).
THEOREM NobodyChargedTwice == BeaconSpec => []ChargedOnce
<1>1. ASSUME BInv
      PROVE  ChargedOnce
  <2> SUFFICES ASSUME returns = 0, "overtaken" \notin happened, NEW n \in 1 .. MaxLines
               PROVE  charged[n] <= 1
    BY DEF ChargedOnce
  <2>1. charged[n] = Cardinality(Charges(n)) /\ IsFiniteSet(Charges(n))
    BY <1>1, ChargesFinite DEF BInv, Counted, Charges
  <2>2. ASSUME NEW j \in Charges(n), NEW i \in Charges(n), i < j
        PROVE  FALSE
    <3>1. FileTypes /\ InOrder
      BY <1>1 DEF BInv, FInv
    <3>2. i \in 1 .. Len(emitted) /\ j \in 1 .. Len(emitted) /\ i \in 1 .. j - 1
      BY <2>2, <3>1, FileIs DEF Charges
    <3>3. Follows(emitted[i], emitted[j])
      BY <3>1, <3>2 DEF InOrder, Straight
    <3>4. emitted[i].no = n /\ emitted[j].no = n /\ Captures(emitted[i]) /\ Captures(emitted[j])
      BY DEF Charges
    <3>5. emitted[i].kind = emitted[j].kind /\ emitted[i].part = "head" /\ emitted[j].part = "tail"
      BY <3>3, <3>4 DEF Follows
    <3> QED BY <3>4, <3>5 DEF Captures
  <2>3. \A i, j \in Charges(n) : i = j
    <3>1. Charges(n) \subseteq Nat
      BY <1>1, FileIs DEF Charges, BInv, FInv
    <3>2. \A i, j \in Nat : i < j \/ i = j \/ j < i
      OBVIOUS
    <3> QED BY <2>2, <3>1, <3>2
  <2>4. CASE Charges(n) = {}
    BY <2>1, <2>4, FS_EmptySet
  <2>5. CASE Charges(n) # {}
    <3>1. PICK k : Charges(n) = {k}
      BY <2>3, <2>5
    <3> QED BY <2>1, <3>1, FS_Singleton
  <2> QED BY <2>4, <2>5
<1> QED BY <1>1, BeaconInvariant, PTL

\* Where the log was appended to in whole lines and never truncated, what a host used
\* is charged once no signal is due, whichever files were moved away, back and over it.
THEOREM EverythingCharged == BeaconSpec => []AllCharged
<1>1. ASSUME BInv
      PROVE  AllCharged
  <2> SUFFICES ASSUME Settled, watching, happened \cap {"torn", "truncate"} = {},
                      NEW i \in 1 .. Len(file.lines), file.lines[i].kind.src # "none"
               PROVE  charged[file.lines[i].no] >= 1
    BY DEF AllCharged
  <2>1. FInv /\ FileTypes /\ Numbered /\ WholeLines /\ ListedMissesNothing
    BY <1>1, MissesNothing DEF BInv, FInv
  <2>2. PICK n \in 1 .. MaxLines : n = file.lines[i].no
    <3>1. file.lines[i].no \in 1 .. written /\ written \in 0 .. MaxLines
      BY <2>1 DEF Numbered, FileTypes
    <3> QED BY <3>1, BoundsAssumption
  <2>3. PICK k \in 1 .. Len(emitted) : emitted[k].no = n
    BY <2>1, <2>2 DEF ListedMissesNothing
  <2>4. emitted[k].kind = file.lines[i].kind /\ emitted[k].part = "whole"
    BY <2>1, <2>2, <2>3 DEF Numbered, WholeLines
  <2>5. k \in Charges(n)
    BY <2>3, <2>4 DEF Charges, Captures
  <2>6. IsFiniteSet(Charges(n)) /\ Cardinality(Charges(n)) \in Nat
    BY <2>1, ChargesFinite
  <2>7. Cardinality(Charges(n)) # 0
    BY <2>5, <2>6, FS_EmptySet
  <2>8. charged[n] = Cardinality(Charges(n))
    BY <1>1 DEF BInv, Counted, Charges
  <2> QED BY <2>2, <2>6, <2>7, <2>8
<1> QED BY <1>1, BeaconInvariant, PTL
=============================================================================
