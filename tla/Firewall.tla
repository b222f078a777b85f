------------------------------ MODULE Firewall ------------------------------
(***************************************************************************)
(* The host rules that the gateway scripts keep in the kernel              *)
(* (wifigateway-script/gw_functions.sh).  They survive the daemon.  The    *)
(* three rules of a host (allowed, bandwidth, quota) are one entry here:   *)
(* the bandwidth it was admitted with.                                     *)
(***************************************************************************)
CONSTANTS
  IPs,                  \* the client addresses of the model
  Bandwidths,           \* the bandwidth limits of the model
  NoIP, NoRule

VARIABLE rules          \* rules[ip]: the bandwidth of ip's rules, or NoRule

\* A command given to runCommandExec(), with how far its child has come.
Command(name, ip, bw) == [name |-> name, ip |-> ip, bw |-> bw, stage |-> "running"]

add_host(ip, bw) == Command("gw_add_host", ip, bw)
remove_host(ip)  == Command("gw_remove_host", ip, NoRule)
clean_up         == Command("gw_clean_up", NoIP, NoRule)
init             == Command("gw_init", NoIP, NoRule)

Commands ==
  [name : {"gw_add_host", "gw_remove_host", "gw_clean_up", "gw_init"},
   ip : IPs \cup {NoIP}, bw : Bandwidths \cup {NoRule}, stage : {"running", "applied"}]

NoRules == [ip \in IPs |-> NoRule]

\* gw_add_host: an entry that exists is kept, with the bandwidth it has.
gw_add_host(ip, bw) == [rules EXCEPT ![ip] = IF @ = NoRule THEN bw ELSE @]

\* (mutant) The chain is flushed instead of one entry deleted.
FlushHosts(ip) == NoRules

\* gw_remove_host: absent is fine, the exit status is 0 all the same.
gw_remove_host(ip) == [rules EXCEPT ![ip] = NoRule]

\* gw_clean_up flushes and deletes every chain.  gw_init creates the chains;
\* where they are left from an earlier run their host rules stay.
gw_clean_up == NoRules
gw_init == rules

\* The rules after command cmd.
After(cmd) ==
  CASE cmd.name = "gw_add_host"    -> gw_add_host(cmd.ip, cmd.bw)
    [] cmd.name = "gw_remove_host" -> gw_remove_host(cmd.ip)
    [] cmd.name = "gw_clean_up"    -> gw_clean_up
    [] cmd.name = "gw_init"        -> gw_init
=============================================================================
