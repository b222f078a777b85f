----------------------------- MODULE HostRules ------------------------------
(***************************************************************************)
(* wifigateway-script/gw_functions.sh: the scripts behind module Firewall, *)
(* one iptables command per step, on the three chains that hold one rule   *)
(* per host each.  A host is let through by its gw_hosts_allowed rule; the *)
(* three rules belong together by their position only.  RunCommand lets    *)
(* one script run at a time, and kills it after five seconds.              *)
(***************************************************************************)
EXTENDS Naturals, Sequences, SequencesExt

CONSTANTS
  IPs, Bandwidths, NoIP, NoRule,
  Matched,              \* <<p, h>>: grep with address p finds a rule of address h
  Rejected,             \* the bandwidths that iptables refuses as a --limit
  MaxFaults             \* bound: scripts killed and limits refused

ASSUME IPsAssumption == IsFiniteSet(IPs)
ASSUME MatchedAssumption ==
  Matched \subseteq IPs \X IPs /\ \A h \in IPs : <<h, h>> \in Matched
ASSUME RejectedAssumption == Rejected \subseteq Bandwidths /\ MaxFaults \in Nat

VARIABLES
  allowed,              \* mangle  gw_hosts_allowed: addresses
  bandwidth,            \* filter  gw_hosts_bandwidth: addresses with their limit
  quota,                \* filter  gw_hosts_quota: addresses
  script,               \* the script that runs, or Idle
  faults                \* scripts killed and limits refused so far

ruleVars == <<allowed, bandwidth, quota, script, faults>>

\* next is the command that the script runs next, "done" when it is about to
\* exit with status; index is what gw_get_host_entry_num printed, 0 if nothing.
Script(name, ip, bw, next) ==
  [name |-> name, ip |-> ip, bw |-> bw, next |-> next, index |-> 0, status |-> 0]
Idle == Script("none", NoIP, NoRule, "done")

Running(name, next) == script.name = name /\ script.next = next
Goto(next) == script' = [script EXCEPT !.next = next]

TypeOK ==
  /\ allowed \in Seq(IPs) /\ quota \in Seq(IPs)
  /\ bandwidth \in Seq([ip : IPs, bw : Bandwidths])
  /\ script \in [name : {"none", "gw_add_host", "gw_remove_host", "gw_clean_up"},
                 ip : IPs \cup {NoIP}, bw : Bandwidths \cup {NoRule},
                 next : {"grep", "allowed", "bandwidth", "quota", "done"},
                 index : 0 .. Cardinality(IPs), status : {0, 1}]
  /\ faults \in 0 .. MaxFaults

Init == allowed = <<>> /\ bandwidth = <<>> /\ quota = <<>> /\ script = Idle /\ faults = 0

\* iptables -D chain index: the rule at that place, an error if there is none.
Deleted(chain, index) == IF index \in 1 .. Len(chain) THEN RemoveAt(chain, index) ELSE chain

\* (mutants) The entries of the wrong chain; a line number that counts from 0.
FirstQuotaMatch(ip) ==
  SelectInSeq(quota, LAMBDA h : <<ip, h>> \in Matched)
FirstMatchFromZero(ip) ==
  LET i == SelectInSeq(allowed, LAMBDA h : <<ip, h>> \in Matched) IN IF i > 1 THEN i - 1 ELSE i

\* gw_get_host_entry, gw_get_host_entry_num: the first line of the chain that
\* matches, counted from 1; nothing (0) if none does.
FirstMatch(ip) == SelectInSeq(allowed, LAMBDA h : <<ip, h>> \in Matched)

\* RunCommand starts a script when none runs.
Starts(name, ip, bw, next) ==
  /\ script = Idle
  /\ script' = Script(name, ip, bw, next)
  /\ UNCHANGED <<allowed, bandwidth, quota, faults>>

\* (mutant) Rules are added without looking for those of the host.
AddGrepless ==
  /\ Running("gw_add_host", "grep")
  /\ Goto("allowed")
  /\ UNCHANGED <<allowed, bandwidth, quota, faults>>

AddGrep ==
  /\ Running("gw_add_host", "grep")
  /\ Goto(IF FirstMatch(script.ip) = 0 THEN "allowed" ELSE "done")
  /\ UNCHANGED <<allowed, bandwidth, quota, faults>>

AddAllowed ==
  /\ Running("gw_add_host", "allowed")
  /\ allowed' = Append(allowed, script.ip)
  /\ Goto("bandwidth")
  /\ UNCHANGED <<bandwidth, quota, faults>>

\* (mutant) The limit of the script is not passed on.
AddUnlimited ==
  /\ Running("gw_add_host", "bandwidth")
  /\ bandwidth' = Append(bandwidth, [ip |-> script.ip, bw |-> NoRule])
  /\ Goto("quota")
  /\ UNCHANGED <<allowed, quota, faults>>

\* A limit that iptables refuses leaves no rule, and the script goes on.
AddBandwidth ==
  /\ Running("gw_add_host", "bandwidth")
  /\ \/ /\ script.bw \notin Rejected
        /\ bandwidth' = Append(bandwidth, [ip |-> script.ip, bw |-> script.bw])
        /\ UNCHANGED faults
     \/ /\ script.bw \in Rejected
        /\ faults < MaxFaults /\ faults' = faults + 1
        /\ UNCHANGED bandwidth
  /\ Goto("quota")
  /\ UNCHANGED <<allowed, quota>>

AddQuota ==
  /\ Running("gw_add_host", "quota")
  /\ quota' = Append(quota, script.ip)
  /\ Goto("done")
  /\ UNCHANGED <<allowed, bandwidth, faults>>

RemoveGrep ==
  /\ Running("gw_remove_host", "grep")
  /\ LET i == FirstMatch(script.ip) IN
     script' = [script EXCEPT !.index = i, !.next = IF i = 0 THEN "done" ELSE "allowed"]
  /\ UNCHANGED <<allowed, bandwidth, quota, faults>>

RemoveAllowed ==
  /\ Running("gw_remove_host", "allowed")
  /\ allowed' = Deleted(allowed, script.index)
  /\ Goto("bandwidth")
  /\ UNCHANGED <<bandwidth, quota, faults>>

RemoveBandwidth ==
  /\ Running("gw_remove_host", "bandwidth")
  /\ bandwidth' = Deleted(bandwidth, script.index)
  /\ Goto("quota")
  /\ UNCHANGED <<allowed, quota, faults>>

\* The status of the script is that of its last command.
RemoveQuota ==
  /\ Running("gw_remove_host", "quota")
  /\ quota' = Deleted(quota, script.index)
  /\ script' = [script EXCEPT !.next = "done",
                              !.status = IF script.index <= Len(quota) THEN 0 ELSE 1]
  /\ UNCHANGED <<allowed, bandwidth, faults>>

\* gw_clean_up flushes one chain after the other.
CleanUp ==
  /\ script.name = "gw_clean_up"
  /\ \/ script.next = "allowed" /\ Goto("bandwidth")
        /\ allowed' = <<>> /\ UNCHANGED <<bandwidth, quota, faults>>
     \/ script.next = "bandwidth" /\ Goto("quota")
        /\ bandwidth' = <<>> /\ UNCHANGED <<allowed, quota, faults>>
     \/ script.next = "quota" /\ Goto("done")
        /\ quota' = <<>> /\ UNCHANGED <<allowed, bandwidth, faults>>

Exits ==
  /\ script # Idle /\ script.next = "done"
  /\ script' = Idle
  /\ UNCHANGED <<allowed, bandwidth, quota, faults>>

\* QProcess::kill() between two commands of bash.
Kill ==
  /\ faults < MaxFaults /\ faults' = faults + 1
  /\ script # Idle /\ script.next # "done"
  /\ script' = Idle
  /\ UNCHANGED <<allowed, bandwidth, quota>>

\* A refused limit that would exceed the bound is not given.
gw_add_host(ip, bw) ==
  /\ bw \in Rejected => faults < MaxFaults
  /\ Starts("gw_add_host", ip, bw, "grep")
gw_remove_host(ip)  == Starts("gw_remove_host", ip, NoRule, "grep")
gw_clean_up         == Starts("gw_clean_up", NoIP, NoRule, "allowed")

Next ==
  \/ \E ip \in IPs : gw_remove_host(ip) \/ \E bw \in Bandwidths : gw_add_host(ip, bw)
  \/ gw_clean_up
  \/ AddGrep \/ AddAllowed \/ AddBandwidth \/ AddQuota
  \/ RemoveGrep \/ RemoveAllowed \/ RemoveBandwidth \/ RemoveQuota
  \/ CleanUp \/ Exits \/ Kill

Spec == Init /\ [][Next]_ruleVars

-----------------------------------------------------------------------------
(* Properties *)

Hosts(chain) == {chain[i] : i \in 1 .. Len(chain)}
Limited == [i \in 1 .. Len(bandwidth) |-> bandwidth[i].ip]

\* The position of a host is the same in the three chains and it is there once,
\* so that deleting by the number found in one chain deletes the right rules.
\* It needs addresses that do not match each other, limits that iptables takes,
\* and scripts that are not killed.
ChainsAligned ==
  script = Idle /\ faults = 0 => Limited = allowed /\ quota = allowed /\ IsInjective(allowed)

\* A host counts as admitted from its gw_hosts_allowed rule on, with the limit
\* it has or is about to get.
RuleOf(ip) ==
  IF ip \notin Hosts(allowed) THEN NoRule
  ELSE IF script.name = "gw_add_host" /\ script.ip = ip /\ script.next = "bandwidth"
  THEN script.bw
  ELSE LET i == SelectInSeq(bandwidth, LAMBDA r : r.ip = ip) IN
       IF i = 0 THEN NoRule ELSE bandwidth[i].bw

Admitted == [ip \in IPs |-> RuleOf(ip)]

Abstract == INSTANCE Firewall WITH rules <- Admitted

\* The command of module Firewall that the script stands for.
Command ==
  CASE script.name = "gw_add_host"    -> Abstract!add_host(script.ip, script.bw)
    [] script.name = "gw_remove_host" -> Abstract!remove_host(script.ip)
    [] OTHER                          -> Abstract!clean_up

\* Without faults a script changes who is admitted in one of its steps, to what
\* the atomic command of module Firewall makes of it, and in no other step:
\* this is what module Controller relies on.
ScriptsAtomic ==
  [][faults' = 0 /\ Admitted' # Admitted => Admitted' = Abstract!After(Command)]_ruleVars

\* Whatever happened to the other chains, a host has one gw_hosts_allowed rule,
\* so that one gw_remove_host is enough.
AllowedOnce == IsInjective(allowed)

\* A gw_remove_host that ended with status 0 cut the host off, killed scripts
\* and misaligned chains or not.
RemovedIsCutOff ==
  Running("gw_remove_host", "done") /\ script.status = 0 => script.ip \notin Hosts(allowed)

-----------------------------------------------------------------------------
(* What a comment says and the scripts do not do.                           *)

\* gw_functions.sh:187, "Remove host by ip address."  The rule that grep finds
\* may be that of an address of which the host's is a part.
RemovesItsHost ==
  [][RemoveAllowed => \A h \in Hosts(allowed) \ {script.ip} : h \in Hosts(allowed')]_ruleVars
=============================================================================
