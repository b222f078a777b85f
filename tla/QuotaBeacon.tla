---------------------------- MODULE QuotaBeacon -----------------------------
(***************************************************************************)
(* quotabeacon.cpp on top of its FileWatcher: the kernel log's lines, and  *)
(* the quotaEvent(ip) signals that charge the hosts.  newLine() is called  *)
(* directly for each line that a slot of the FileWatcher sends.            *)
(***************************************************************************)
EXTENDS FileWatcher, FiniteSets

CONSTANTS Hosts         \* the addresses that the gateway logs

(***************************************************************************)
(* A quota line of host src, or another line of the kernel (src = "none"). *)
(* The pattern spans the prefix and the source address: key is the half    *)
(* that contains both, or "whole" when a torn line has them in two halves. *)
(***************************************************************************)
ASSUME KindsAssumption ==
  Kinds \subseteq [src : Hosts \cup {"none"}, key : {"head", "tail", "whole"}]

VARIABLE charged        \* charged[n]: the quotaEvent() signals that line n caused

beaconVars == <<fileWatcherVars, charged>>

\* (mutant) Every line that starts the pattern is charged when it is read.
Matches(e) == e.kind.src # "none"

\* r->cap(1) is not empty.
Captures(e) == e.kind.src # "none" /\ e.part \in {"whole", e.kind.key}

\* The newLine() signals of this step that match.
Hits == {k \in Len(emitted) + 1 .. Len(emitted') : Captures(emitted'[k])}

\* (mutant) What is read at once is charged once.
newLineOfEachScan ==
  charged' = [n \in DOMAIN charged |->
    charged[n] + (IF \E k \in Hits : emitted'[k].no = n /\ \A h \in Hits : k <= h THEN 1 ELSE 0)]

\* newLine() for each of the lines that this step sends.
newLine ==
  charged' = [n \in DOMAIN charged |->
    charged[n] + Cardinality({k \in Hits : emitted'[k].no = n})]

BeaconInit == Init /\ charged = [n \in 1 .. MaxLines |-> 0]

BeaconNext ==
  \/ Disk /\ UNCHANGED charged
  \/ Slots /\ newLine

BeaconSpec == BeaconInit /\ [][BeaconNext]_beaconVars

\* What a host used does get charged: no quota line of the file at the path is left
\* out once the signals are over, whichever files were renamed, moved back or moved
\* over it.  (A line read in two halves and a truncation may lose some.)
AllCharged ==
  Settled /\ watching /\ happened \cap {"torn", "truncate"} = {} =>
    \A i \in 1 .. Len(file.lines) :
      file.lines[i].kind.src # "none" => charged[file.lines[i].no] >= 1

\* A host is charged at most once for a line of the log, in one piece or two, unless
\* the line was sent twice for one of LinesOnceInOrder's two reasons.
ChargedOnce ==
  returns = 0 /\ "overtaken" \notin happened => \A n \in 1 .. MaxLines : charged[n] <= 1
=============================================================================
