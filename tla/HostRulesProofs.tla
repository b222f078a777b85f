--------------------------- MODULE HostRulesProofs ---------------------------
(***************************************************************************)
(* The chains of HostRules for any number of hosts, and, where no address  *)
(* matches another, that a script does to them what module Firewall says.  *)
(*                                                                         *)
(* The argument: how far a script has come tells what the three chains     *)
(* differ in, and that is at most the one rule of its own host.            *)
(***************************************************************************)
EXTENDS HostRules, FiniteSetTheorems, SequenceTheorems, WellFoundedInduction, TLAPS

ScriptNames == {"none", "gw_add_host", "gw_remove_host", "gw_clean_up"}
Steps == {"grep", "allowed", "bandwidth", "quota", "done"}
Limits == [ip : IPs, bw : Bandwidths]

-----------------------------------------------------------------------------
(* Positions in a chain *)

\* The least of a set of positions.
LEMMA MinIs ==
  ASSUME NEW I \in SUBSET Nat, I # {}
  PROVE  Min(I) \in I /\ \A i \in I : Min(I) <= i
<1>1. \E m \in I : \A i \in I : m <= i
  <2> DEFINE R == OpToRel(<, Nat)
  <2>1. IsWellFoundedOn(R, Nat)
    BY NatLessThanWellFounded
  <2>2. \A x, y \in Nat : <<y, x>> \in R <=> y < x
    BY DEF OpToRel
  <2> HIDE DEF R
  <2>3. PICK m \in I : \A i \in I : <<i, m>> \notin R
    BY <2>1, WFMin
  <2>4. \A i \in I : ~(i < m)
    BY <2>2, <2>3
  <2> QED BY <2>4
<1> QED BY <1>1 DEF Min

\* The number that grep prints: the place of the first rule that matches.
LEMMA FirstMatchIs ==
  ASSUME allowed \in Seq(IPs), NEW ip
  PROVE  /\ FirstMatch(ip) \in 0 .. Len(allowed)
         /\ FirstMatch(ip) = 0 => \A i \in 1 .. Len(allowed) : <<ip, allowed[i]>> \notin Matched
         /\ FirstMatch(ip) # 0 => <<ip, allowed[FirstMatch(ip)]>> \in Matched
<1> DEFINE I == {i \in 1 .. Len(allowed) : <<ip, allowed[i]>> \in Matched}
<1>1. FirstMatch(ip) = IF I # {} THEN Min(I) ELSE 0
  BY DEF FirstMatch, SelectInSeq
<1>2. CASE I # {}
  <2>1. I \in SUBSET Nat
    OBVIOUS
  <2>2. Min(I) \in I
    <3> HIDE DEF I
    <3> QED BY <1>2, <2>1, MinIs
  <2> QED BY <1>1, <1>2, <2>2
<1>3. CASE I = {}
  <2>1. \A i \in 1 .. Len(allowed) : <<ip, allowed[i]>> \notin Matched
    BY <1>3
  <2>2. FirstMatch(ip) = 0
    <3> HIDE DEF I
    <3> QED BY <1>1, <1>3
  <2> QED BY <2>1, <2>2
<1> QED BY <1>2, <1>3

\* The rule of a host in gw_hosts_bandwidth, the addresses that have one there.
LimitRule(chain, ip) == SelectInSeq(chain, LAMBDA r : r.ip = ip)
AddressesOf(chain) == [i \in 1 .. Len(chain) |-> chain[i].ip]

LEMMA LimitRuleIs ==
  ASSUME NEW chain \in Seq(Limits), NEW ip
  PROVE  /\ LimitRule(chain, ip) \in 0 .. Len(chain)
         /\ LimitRule(chain, ip) = 0 => \A i \in 1 .. Len(chain) : chain[i].ip # ip
         /\ LimitRule(chain, ip) # 0 => chain[LimitRule(chain, ip)].ip = ip
<1> DEFINE I == {i \in 1 .. Len(chain) : chain[i].ip = ip}
<1>1. LimitRule(chain, ip) = IF I # {} THEN Min(I) ELSE 0
  BY DEF LimitRule, SelectInSeq
<1>2. CASE I # {}
  <2>1. I \in SUBSET Nat
    OBVIOUS
  <2>2. Min(I) \in I
    <3> HIDE DEF I
    <3> QED BY <1>2, <2>1, MinIs
  <2> QED BY <1>1, <1>2, <2>2
<1>3. CASE I = {}
  <2>1. \A i \in 1 .. Len(chain) : chain[i].ip # ip
    BY <1>3
  <2>2. LimitRule(chain, ip) = 0
    <3> HIDE DEF I
    <3> QED BY <1>1, <1>3
  <2> QED BY <2>1, <2>2
<1> QED BY <1>2, <1>3

LEMMA RemoveAtIs ==
  ASSUME NEW S, NEW chain \in Seq(S), NEW k \in 1 .. Len(chain)
  PROVE  /\ RemoveAt(chain, k) \in Seq(S) /\ Len(RemoveAt(chain, k)) = Len(chain) - 1
         /\ \A i \in 1 .. Len(chain) - 1 :
              RemoveAt(chain, k)[i] = chain[IF i < k THEN i ELSE i + 1]
<1> DEFINE s1 == SubSeq(chain, 1, k - 1)
           s2 == SubSeq(chain, k + 1, Len(chain))
<1>1. Len(chain) \in Nat /\ \A i \in 1 .. Len(chain) : chain[i] \in S
  BY LenProperties, ElementOfSeq
<1>2. s1 \in Seq(S) /\ Len(s1) = k - 1 /\ \A i \in 1 .. k - 1 : s1[i] = chain[i]
  <2>1. \A i \in 1 .. k - 1 : chain[i] \in S
    BY <1>1
  <2> QED BY <1>1, <2>1, SubSeqProperties
<1>3. s2 \in Seq(S) /\ Len(s2) = Len(chain) - k
      /\ \A i \in 1 .. Len(chain) - k : s2[i] = chain[k + i]
  <2>1. \A i \in k + 1 .. Len(chain) : chain[i] \in S
    BY <1>1
  <2>2. k + 1 \in Int /\ Len(chain) \in Int
    BY <1>1
  <2>3. /\ s2 \in Seq(S)
        /\ Len(s2) = IF k + 1 <= Len(chain) THEN Len(chain) - (k + 1) + 1 ELSE 0
        /\ \A i \in 1 .. Len(chain) - (k + 1) + 1 : s2[i] = chain[k + 1 + i - 1]
    BY <2>1, <2>2, SubSeqProperties
  <2> QED BY <1>1, <2>3
<1>4. RemoveAt(chain, k) = s1 \o s2
  BY DEF RemoveAt
<1> HIDE DEF s1, s2
<1>5. /\ s1 \o s2 \in Seq(S) /\ Len(s1 \o s2) = Len(s1) + Len(s2)
      /\ \A i \in 1 .. Len(s1) + Len(s2) :
           (s1 \o s2)[i] = IF i <= Len(s1) THEN s1[i] ELSE s2[i - Len(s1)]
  BY <1>2, <1>3, ConcatProperties
<1>6. Len(s1) + Len(s2) = Len(chain) - 1
  BY <1>1, <1>2, <1>3
<1>7. ASSUME NEW i \in 1 .. Len(chain) - 1
      PROVE  (s1 \o s2)[i] = chain[IF i < k THEN i ELSE i + 1]
  <2>1. CASE i < k
    BY <1>1, <1>2, <1>5, <1>6, <2>1
  <2>2. CASE i >= k
    <3>1. (s1 \o s2)[i] = s2[i - (k - 1)]
      BY <1>1, <1>2, <1>5, <1>6, <2>2
    <3>2. i - (k - 1) \in 1 .. Len(chain) - k /\ k + (i - (k - 1)) = i + 1
      BY <1>1, <2>2
    <3>3. s2[i - (k - 1)] = chain[k + (i - (k - 1))]
      BY <1>3, <3>2
    <3>4. ~(i < k)
      BY <1>1, <2>2
    <3> QED BY <3>1, <3>2, <3>3, <3>4
  <2>3. i < k \/ i >= k
    BY <1>1
  <2> QED BY <2>1, <2>2, <2>3
<1> QED BY <1>4, <1>5, <1>6, <1>7

\* Which hosts have rules, and whether each has one, as rules come and go.
LEMMA AppendHosts ==
  ASSUME NEW chain \in Seq(IPs), NEW ip \in IPs
  PROVE  /\ Append(chain, ip) \in Seq(IPs)
         /\ Hosts(Append(chain, ip)) = Hosts(chain) \cup {ip}
         /\ IsInjective(chain) /\ ip \notin Hosts(chain) => IsInjective(Append(chain, ip))
<1>1. /\ Append(chain, ip) \in Seq(IPs) /\ Len(Append(chain, ip)) = Len(chain) + 1
      /\ Len(chain) \in Nat /\ DOMAIN chain = 1 .. Len(chain)
      /\ \A i \in 1 .. Len(chain) : Append(chain, ip)[i] = chain[i]
      /\ Append(chain, ip)[Len(chain) + 1] = ip
      /\ DOMAIN Append(chain, ip) = 1 .. Len(chain) + 1
  BY AppendProperties, LenProperties
<1> QED BY <1>1 DEF Hosts, IsInjective

LEMMA RemoveHosts ==
  ASSUME NEW chain \in Seq(IPs), NEW k \in 1 .. Len(chain)
  PROVE  /\ RemoveAt(chain, k) \in Seq(IPs)
         /\ Hosts(RemoveAt(chain, k)) \subseteq Hosts(chain)
         /\ Hosts(chain) \subseteq Hosts(RemoveAt(chain, k)) \cup {chain[k]}
         /\ IsInjective(chain) => /\ IsInjective(RemoveAt(chain, k))
                                  /\ chain[k] \notin Hosts(RemoveAt(chain, k))
<1> DEFINE rest == RemoveAt(chain, k)
           At(i) == IF i < k THEN i ELSE i + 1
<1>1. /\ rest \in Seq(IPs) /\ Len(rest) = Len(chain) - 1 /\ Len(chain) \in Nat
      /\ DOMAIN chain = 1 .. Len(chain) /\ DOMAIN rest = 1 .. Len(chain) - 1
      /\ \A i \in 1 .. Len(chain) - 1 : rest[i] = chain[At(i)]
  BY RemoveAtIs, LenProperties
<1>2. \A i \in 1 .. Len(chain) - 1 : At(i) \in 1 .. Len(chain) /\ At(i) # k
  BY <1>1
<1>3. \A i, j \in 1 .. Len(chain) - 1 : At(i) = At(j) => i = j
  BY <1>1
<1>4. \A j \in 1 .. Len(chain) : j # k => \E i \in 1 .. Len(chain) - 1 : At(i) = j
  <2>1. SUFFICES ASSUME NEW j \in 1 .. Len(chain), j # k
                 PROVE  \E i \in 1 .. Len(chain) - 1 : At(i) = j
    OBVIOUS
  <2>2. CASE j < k
    BY <1>1, <2>1, <2>2
  <2>3. CASE j > k
    <3>1. j - 1 \in 1 .. Len(chain) - 1 /\ At(j - 1) = j
      BY <1>1, <2>1, <2>3
    <3> QED BY <3>1
  <2> QED BY <1>1, <2>1, <2>2, <2>3
<1> HIDE DEF rest, At
<1>5. Hosts(rest) \subseteq Hosts(chain)
  BY <1>1, <1>2 DEF Hosts
<1>6. Hosts(chain) \subseteq Hosts(rest) \cup {chain[k]}
  BY <1>1, <1>4 DEF Hosts
<1>7. IsInjective(chain) => IsInjective(rest) /\ chain[k] \notin Hosts(rest)
  <2>1. SUFFICES ASSUME IsInjective(chain)
                 PROVE  IsInjective(rest) /\ chain[k] \notin Hosts(rest)
    OBVIOUS
  <2>2. \A i, j \in 1 .. Len(chain) : chain[i] = chain[j] => i = j
    BY <1>1, <2>1 DEF IsInjective
  <2>3. \A i, j \in 1 .. Len(chain) - 1 : rest[i] = rest[j] => i = j
    BY <1>1, <1>2, <1>3, <2>2
  <2>4. IsInjective(rest)
    BY <1>1, <2>3 DEF IsInjective
  <2>5. \A i \in 1 .. Len(chain) - 1 : rest[i] # chain[k]
    BY <1>1, <1>2, <2>2
  <2>6. Hosts(rest) = {rest[i] : i \in 1 .. Len(chain) - 1}
    BY <1>1 DEF Hosts
  <2> QED BY <2>4, <2>5, <2>6
<1> QED BY <1>1, <1>5, <1>6, <1>7 DEF rest

LEMMA AddressesAre ==
  ASSUME NEW chain \in Seq(Limits)
  PROVE  /\ AddressesOf(chain) \in Seq(IPs) /\ Len(AddressesOf(chain)) = Len(chain)
         /\ \A i \in 1 .. Len(chain) : AddressesOf(chain)[i] = chain[i].ip
<1>1. Len(chain) \in Nat /\ \A i \in 1 .. Len(chain) : chain[i].ip \in IPs
  <2>1. Len(chain) \in Nat /\ \A i \in 1 .. Len(chain) : chain[i] \in Limits
    BY LenProperties, ElementOfSeq
  <2> QED BY <2>1 DEF Limits
<1>2. AddressesOf(chain) \in [1 .. Len(chain) -> IPs]
  BY <1>1 DEF AddressesOf
<1>3. AddressesOf(chain) \in Seq(IPs) /\ Len(AddressesOf(chain)) = Len(chain)
  BY <1>1, <1>2
<1> QED BY <1>3 DEF AddressesOf

LEMMA NoAddresses == AddressesOf(<<>>) = <<>>
BY DEF AddressesOf

LEMMA AppendAddresses ==
  ASSUME NEW chain \in Seq(Limits), NEW r \in Limits
  PROVE  AddressesOf(Append(chain, r)) = Append(AddressesOf(chain), r.ip)
<1> DEFINE new == Append(chain, r)
           as == AddressesOf(chain)
<1>1. /\ new \in Seq(Limits) /\ Len(new) = Len(chain) + 1 /\ Len(chain) \in Nat
      /\ \A i \in 1 .. Len(chain) : new[i] = chain[i]
      /\ new[Len(chain) + 1] = r
  BY AppendProperties, LenProperties
<1>2. as \in Seq(IPs) /\ Len(as) = Len(chain) /\ r.ip \in IPs
      /\ \A i \in 1 .. Len(chain) : as[i] = chain[i].ip
  BY AddressesAre DEF Limits
<1>3. /\ Append(as, r.ip) \in Seq(IPs) /\ Len(Append(as, r.ip)) = Len(chain) + 1
      /\ \A i \in 1 .. Len(chain) : Append(as, r.ip)[i] = as[i]
      /\ Append(as, r.ip)[Len(chain) + 1] = r.ip
  <2>1. PICK ip \in IPs, a \in Seq(IPs) : ip = r.ip /\ a = as
    BY <1>2
  <2>2. /\ Append(a, ip) \in Seq(IPs) /\ Len(Append(a, ip)) = Len(a) + 1
        /\ \A i \in 1 .. Len(a) : Append(a, ip)[i] = a[i]
        /\ Append(a, ip)[Len(a) + 1] = ip
    BY AppendProperties
  <2>3. Len(a) = Len(chain)
    BY <1>2, <2>1
  <2> QED BY <2>1, <2>2, <2>3
<1>4. AddressesOf(new) \in Seq(IPs) /\ Len(AddressesOf(new)) = Len(chain) + 1
      /\ \A i \in 1 .. Len(chain) + 1 : AddressesOf(new)[i] = new[i].ip
  <2> HIDE DEF new
  <2> QED BY <1>1, AddressesAre
<1> HIDE DEF new, as
<1>5. \A i \in 1 .. Len(chain) + 1 : AddressesOf(new)[i] = Append(as, r.ip)[i]
  <2>1. \A i \in 1 .. Len(chain) + 1 : i \in 1 .. Len(chain) \/ i = Len(chain) + 1
    BY <1>1
  <2> QED BY <1>1, <1>2, <1>3, <1>4, <2>1
<1>6. AddressesOf(new) = Append(as, r.ip)
  BY <1>3, <1>4, <1>5, SeqEqual
<1> QED BY <1>6 DEF new, as

LEMMA RemoveAddresses ==
  ASSUME NEW chain \in Seq(Limits), NEW k \in 1 .. Len(chain)
  PROVE  AddressesOf(RemoveAt(chain, k)) = RemoveAt(AddressesOf(chain), k)
<1> DEFINE rest == RemoveAt(chain, k)
           as == AddressesOf(chain)
           At(i) == IF i < k THEN i ELSE i + 1
<1>1. rest \in Seq(Limits) /\ Len(rest) = Len(chain) - 1 /\ Len(chain) \in Nat
      /\ \A i \in 1 .. Len(chain) - 1 : rest[i] = chain[At(i)]
  BY RemoveAtIs, LenProperties
<1>2. as \in Seq(IPs) /\ Len(as) = Len(chain)
      /\ \A i \in 1 .. Len(chain) : as[i] = chain[i].ip
  BY AddressesAre
<1>3. RemoveAt(as, k) \in Seq(IPs) /\ Len(RemoveAt(as, k)) = Len(chain) - 1
      /\ \A i \in 1 .. Len(chain) - 1 : RemoveAt(as, k)[i] = as[At(i)]
  <2>1. k \in 1 .. Len(as)
    BY <1>2
  <2> HIDE DEF as
  <2> QED BY <1>2, <2>1, RemoveAtIs
<1>4. AddressesOf(rest) \in Seq(IPs) /\ Len(AddressesOf(rest)) = Len(chain) - 1
      /\ \A i \in 1 .. Len(chain) - 1 : AddressesOf(rest)[i] = rest[i].ip
  <2> HIDE DEF rest
  <2> QED BY <1>1, AddressesAre
<1>5. \A i \in 1 .. Len(chain) - 1 : At(i) \in 1 .. Len(chain)
  BY <1>1
<1> HIDE DEF rest, as, At
<1>6. \A i \in 1 .. Len(chain) - 1 : AddressesOf(rest)[i] = RemoveAt(as, k)[i]
  BY <1>1, <1>2, <1>3, <1>4, <1>5
<1>7. AddressesOf(rest) = RemoveAt(as, k)
  BY <1>3, <1>4, <1>6, SeqEqual
<1> QED BY <1>7 DEF rest, as

\* No more rules than hosts, where every host has one.
LEMMA InjectiveShort ==
  ASSUME NEW chain \in Seq(IPs), IsInjective(chain)
  PROVE  Len(chain) <= Cardinality(IPs)
<1>1. /\ Len(chain) \in Nat /\ DOMAIN chain = 1 .. Len(chain)
      /\ chain \in [1 .. Len(chain) -> IPs]
  BY LenProperties
<1>2. chain \in Injection(1 .. Len(chain), IPs)
  BY <1>1 DEF Injection, IsInjective
<1>3. Cardinality(1 .. Len(chain)) <= Cardinality(IPs)
  BY <1>2, IPsAssumption, FS_Injection
<1>4. Cardinality(1 .. Len(chain)) = Len(chain)
  BY <1>1, FS_Interval
<1> QED BY <1>3, <1>4

-----------------------------------------------------------------------------
(* One rule for each host, whatever matches and whatever is killed *)

ScriptRecords ==
  [name : ScriptNames, ip : IPs \cup {NoIP}, bw : Bandwidths \cup {NoRule},
   next : Steps, index : 0 .. Cardinality(IPs), status : {0, 1}]

\* A script has the arguments it was started with, and adds no rule to that of a host.
ArgumentsOK ==
  /\ script.name = "gw_add_host" => script.ip \in IPs /\ script.bw \in Bandwidths
  /\ script.name = "gw_remove_host" => script.ip \in IPs
  /\ Running("gw_add_host", "allowed") => script.ip \notin Hosts(allowed)

HInv == TypeOK /\ AllowedOnce /\ ArgumentsOK

LEMMA TypesAre ==
  TypeOK <=> /\ allowed \in Seq(IPs) /\ quota \in Seq(IPs) /\ bandwidth \in Seq(Limits)
             /\ script \in ScriptRecords /\ faults \in 0 .. MaxFaults
BY DEF TypeOK, ScriptRecords, ScriptNames, Steps, Limits

LEMMA TypesNext ==
  ASSUME allowed' \in Seq(IPs), quota' \in Seq(IPs), bandwidth' \in Seq(Limits),
         script' \in ScriptRecords, faults' \in 0 .. MaxFaults
  PROVE  TypeOK'
BY DEF TypeOK, ScriptRecords, ScriptNames, Steps, Limits

LEMMA CardinalityIs == Cardinality(IPs) \in Nat
BY IPsAssumption, FS_CardinalityType

LEMMA ScriptIs ==
  ASSUME NEW name \in ScriptNames, NEW ip \in IPs \cup {NoIP},
         NEW bw \in Bandwidths \cup {NoRule}, NEW next \in Steps
  PROVE  LET s == Script(name, ip, bw, next) IN
           /\ s \in ScriptRecords
           /\ s.name = name /\ s.ip = ip /\ s.bw = bw /\ s.next = next
           /\ s.index = 0 /\ s.status = 0
BY CardinalityIs DEF Script, ScriptRecords

LEMMA IdleIs ==
  /\ Idle \in ScriptRecords
  /\ Idle.name = "none" /\ Idle.ip = NoIP /\ Idle.next = "done" /\ Idle.status = 0
<1>1. "none" \in ScriptNames /\ "done" \in Steps /\ NoIP \in IPs \cup {NoIP}
      /\ NoRule \in Bandwidths \cup {NoRule}
  BY DEF ScriptNames, Steps
<1> QED BY <1>1, ScriptIs DEF Idle

\* A script that goes on keeps its name and arguments.
LEMMA GotoIs ==
  ASSUME script \in ScriptRecords, NEW next \in Steps, Goto(next)
  PROVE  /\ script' \in ScriptRecords /\ script'.next = next
         /\ script'.name = script.name /\ script'.ip = script.ip /\ script'.bw = script.bw
         /\ script'.index = script.index /\ script'.status = script.status
BY DEF Goto, ScriptRecords

\* A step that adds no rule to gw_hosts_allowed.
LEMMA FewerAllowed ==
  ASSUME HInv, allowed' \in Seq(IPs), IsInjective(allowed'), Hosts(allowed') \subseteq Hosts(allowed),
         quota' \in Seq(IPs), bandwidth' \in Seq(Limits), faults' \in 0 .. MaxFaults,
         script' \in ScriptRecords,
         \/ script'.name = script.name /\ script'.ip = script.ip /\ script'.bw = script.bw
            /\ ~Running("gw_add_host", "allowed")'
         \/ script'.name \in {"none", "gw_clean_up"}
         \/ script'.name = "gw_remove_host" /\ script'.ip \in IPs
         \/ /\ script'.name = "gw_add_host" /\ script'.ip \in IPs /\ script'.bw \in Bandwidths
            /\ script'.next = "grep"
  PROVE  HInv'
<1>1. TypeOK'
  BY TypesNext
<1>2. AllowedOnce'
  BY DEF AllowedOnce
<1>3. ArgumentsOK'
  BY DEF HInv, ArgumentsOK, Running
<1> QED BY <1>1, <1>2, <1>3 DEF HInv

LEMMA DeletedIs ==
  ASSUME NEW chain \in Seq(IPs), NEW k
  PROVE  /\ Deleted(chain, k) \in Seq(IPs)
         /\ Hosts(Deleted(chain, k)) \subseteq Hosts(chain)
         /\ IsInjective(chain) => IsInjective(Deleted(chain, k))
BY RemoveHosts DEF Deleted

LEMMA AddSteps ==
  ASSUME HInv, AddGrep \/ AddAllowed \/ AddBandwidth \/ AddQuota
  PROVE  HInv'
<1>1. /\ allowed \in Seq(IPs) /\ quota \in Seq(IPs) /\ bandwidth \in Seq(Limits)
      /\ script \in ScriptRecords /\ faults \in 0 .. MaxFaults /\ IsInjective(allowed)
      /\ ArgumentsOK /\ script.name = "gw_add_host" /\ MaxFaults \in Nat
      /\ {"grep", "allowed", "bandwidth", "quota", "done"} \subseteq Steps
      /\ script.ip \in IPs /\ script.bw \in Bandwidths
  BY TypesAre, RejectedAssumption
     DEF HInv, AllowedOnce, AddGrep, AddAllowed, AddBandwidth, AddQuota, Running, Steps, ArgumentsOK
<1>2. CASE AddGrep
  <2>1. PICK next \in {"allowed", "done"} :
          Goto(next) /\ (next = "allowed" => FirstMatch(script.ip) = 0)
    BY <1>2 DEF AddGrep
  <2>2. UNCHANGED <<allowed, bandwidth, quota, faults>>
    BY <1>2 DEF AddGrep
  <2>3. /\ script' \in ScriptRecords /\ script'.next = next
        /\ script'.name = script.name /\ script'.ip = script.ip /\ script'.bw = script.bw
    BY <1>1, <2>1, GotoIs
  <2>4. next = "allowed" => script.ip \notin Hosts(allowed)
    <3>1. SUFFICES ASSUME next = "allowed", NEW i \in 1 .. Len(allowed), allowed[i] = script.ip
                   PROVE  FALSE
      BY DEF Hosts
    <3>2. <<script.ip, allowed[i]>> \notin Matched
      BY <1>1, <2>1, <3>1, FirstMatchIs
    <3> QED BY <1>1, <3>1, <3>2, MatchedAssumption
  <2>5. TypeOK'
    BY <1>1, <2>2, <2>3, TypesNext
  <2> QED BY <1>1, <2>2, <2>3, <2>4, <2>5 DEF HInv, AllowedOnce, ArgumentsOK, Running
<1>3. CASE AddAllowed
  <2>1. /\ allowed' = Append(allowed, script.ip) /\ UNCHANGED <<bandwidth, quota, faults>>
        /\ script.ip \notin Hosts(allowed) /\ Goto("bandwidth")
    BY <1>1, <1>3 DEF AddAllowed, ArgumentsOK
  <2>2. /\ script' \in ScriptRecords /\ script'.next = "bandwidth"
        /\ script'.name = script.name /\ script'.ip = script.ip /\ script'.bw = script.bw
    BY <1>1, <2>1, GotoIs
  <2>3. allowed' \in Seq(IPs) /\ IsInjective(allowed')
    BY <1>1, <2>1, AppendHosts
  <2>4. TypeOK'
    BY <1>1, <2>1, <2>2, <2>3, TypesNext
  <2> QED BY <1>1, <2>2, <2>3, <2>4 DEF HInv, AllowedOnce, ArgumentsOK, Running
<1>4. CASE AddBandwidth
  <2>1. /\ UNCHANGED <<allowed, quota>> /\ Goto("quota")
        /\ faults' \in 0 .. MaxFaults
        /\ \/ bandwidth' = bandwidth
           \/ bandwidth' = Append(bandwidth, [ip |-> script.ip, bw |-> script.bw])
    BY <1>1, <1>4 DEF AddBandwidth
  <2>2. /\ script' \in ScriptRecords /\ script'.next = "quota"
        /\ script'.name = script.name /\ script'.ip = script.ip /\ script'.bw = script.bw
    BY <1>1, <2>1, GotoIs
  <2>3. bandwidth' \in Seq(Limits)
    <3>1. PICK limit \in Limits : limit = [ip |-> script.ip, bw |-> script.bw]
      BY <1>1 DEF Limits
    <3>2. Append(bandwidth, limit) \in Seq(Limits)
      BY <1>1, AppendProperties
    <3> QED BY <1>1, <2>1, <3>1, <3>2
  <2>4. /\ allowed' \in Seq(IPs) /\ IsInjective(allowed') /\ Hosts(allowed') \subseteq Hosts(allowed)
        /\ quota' \in Seq(IPs) /\ faults' \in 0 .. MaxFaults
    BY <1>1, <2>1
  <2>5. ~Running("gw_add_host", "allowed")'
    BY <2>2 DEF Running
  <2> QED BY <2>2, <2>3, <2>4, <2>5, FewerAllowed
<1>5. CASE AddQuota
  <2>1. quota' = Append(quota, script.ip) /\ UNCHANGED <<allowed, bandwidth, faults>> /\ Goto("done")
    BY <1>5 DEF AddQuota
  <2>2. /\ script' \in ScriptRecords /\ script'.next = "done"
        /\ script'.name = script.name /\ script'.ip = script.ip /\ script'.bw = script.bw
    BY <1>1, <2>1, GotoIs
  <2>3. quota' \in Seq(IPs)
    BY <1>1, <2>1, AppendProperties
  <2> QED BY <1>1, <2>1, <2>2, <2>3, FewerAllowed DEF Running
<1> QED BY <1>2, <1>3, <1>4, <1>5

LEMMA RemoveSteps ==
  ASSUME HInv, RemoveGrep \/ RemoveAllowed \/ RemoveBandwidth \/ RemoveQuota
  PROVE  HInv'
<1>1. /\ allowed \in Seq(IPs) /\ quota \in Seq(IPs) /\ bandwidth \in Seq(Limits)
      /\ script \in ScriptRecords /\ faults \in 0 .. MaxFaults /\ IsInjective(allowed)
      /\ script.name = "gw_remove_host" /\ script.ip \in IPs
      /\ {"grep", "allowed", "bandwidth", "quota", "done"} \subseteq Steps
  BY TypesAre
     DEF HInv, AllowedOnce, RemoveGrep, RemoveAllowed, RemoveBandwidth, RemoveQuota, Running,
         Steps, ArgumentsOK
<1>2. CASE RemoveGrep
  <2>1. PICK i, next :
          next \in Steps /\ i = FirstMatch(script.ip) /\ script' = [script EXCEPT !.index = i, !.next = next]
    BY <1>1, <1>2 DEF RemoveGrep
  <2>2. i \in 0 .. Cardinality(IPs)
    <3>1. i \in 0 .. Len(allowed)
      BY <1>1, <2>1, FirstMatchIs
    <3>2. Len(allowed) \in Nat /\ Len(allowed) <= Cardinality(IPs)
      BY <1>1, InjectiveShort, LenProperties
    <3> QED BY <3>1, <3>2, CardinalityIs
  <2>3. script' \in ScriptRecords /\ script'.name = "gw_remove_host" /\ script'.ip \in IPs
    BY <1>1, <2>1, <2>2 DEF ScriptRecords
  <2>4. UNCHANGED <<allowed, bandwidth, quota, faults>>
    BY <1>2 DEF RemoveGrep
  <2> QED BY <1>1, <2>3, <2>4, FewerAllowed
<1>3. CASE RemoveAllowed \/ RemoveBandwidth
  <2>1. PICK next \in {"bandwidth", "quota"} : Goto(next)
    BY <1>3 DEF RemoveAllowed, RemoveBandwidth
  <2>2. script' \in ScriptRecords /\ script'.name = "gw_remove_host" /\ script'.ip \in IPs
    BY <1>1, <2>1, GotoIs
  <2>3. /\ allowed' = allowed \/ allowed' = Deleted(allowed, script.index)
        /\ bandwidth' = bandwidth \/ bandwidth' = Deleted(bandwidth, script.index)
        /\ UNCHANGED <<quota, faults>>
    BY <1>3 DEF RemoveAllowed, RemoveBandwidth
  <2>4. bandwidth' \in Seq(Limits)
    BY <1>1, <2>3, RemoveAtIs DEF Deleted
  <2>5. allowed' \in Seq(IPs) /\ IsInjective(allowed') /\ Hosts(allowed') \subseteq Hosts(allowed)
    BY <1>1, <2>3, DeletedIs
  <2> QED BY <1>1, <2>2, <2>3, <2>4, <2>5, FewerAllowed
<1>4. CASE RemoveQuota
  <2>1. PICK status \in {0, 1} : script' = [script EXCEPT !.next = "done", !.status = status]
    BY <1>4 DEF RemoveQuota
  <2>2. script' \in ScriptRecords /\ script'.name = "gw_remove_host" /\ script'.ip \in IPs
    BY <1>1, <2>1 DEF ScriptRecords
  <2>3. quota' = Deleted(quota, script.index) /\ UNCHANGED <<allowed, bandwidth, faults>>
    BY <1>4 DEF RemoveQuota
  <2>4. quota' \in Seq(IPs)
    BY <1>1, <2>3, DeletedIs
  <2> QED BY <1>1, <2>2, <2>3, <2>4, FewerAllowed
<1> QED BY <1>2, <1>3, <1>4

LEMMA OtherSteps ==
  ASSUME HInv, CleanUp \/ Exits \/ Kill \/ gw_clean_up
               \/ \E ip \in IPs : gw_remove_host(ip) \/ \E bw \in Bandwidths : gw_add_host(ip, bw)
  PROVE  HInv'
<1>1. /\ allowed \in Seq(IPs) /\ quota \in Seq(IPs) /\ bandwidth \in Seq(Limits)
      /\ script \in ScriptRecords /\ faults \in 0 .. MaxFaults /\ IsInjective(allowed)
      /\ {"grep", "allowed", "bandwidth", "quota", "done"} \subseteq Steps
      /\ ScriptNames = {"none", "gw_add_host", "gw_remove_host", "gw_clean_up"}
      /\ MaxFaults \in Nat /\ NoIP \in IPs \cup {NoIP} /\ NoRule \in Bandwidths \cup {NoRule}
  BY TypesAre, RejectedAssumption DEF HInv, AllowedOnce, Steps, ScriptNames
<1>2. CASE CleanUp
  <2>1. PICK next \in {"bandwidth", "quota", "done"} : Goto(next) /\ script.name = "gw_clean_up"
    BY <1>2 DEF CleanUp
  <2>2. script' \in ScriptRecords /\ script'.name = "gw_clean_up"
    BY <1>1, <2>1, GotoIs
  <2>3. /\ allowed' \in {allowed, <<>>} /\ bandwidth' \in {bandwidth, <<>>}
        /\ quota' \in {quota, <<>>} /\ faults' = faults
    BY <1>2 DEF CleanUp
  <2>4. <<>> \in Seq(IPs) /\ <<>> \in Seq(Limits) /\ IsInjective(<<>>) /\ Hosts(<<>>) = {}
    BY DEF IsInjective, Hosts
  <2> QED BY <1>1, <2>2, <2>3, <2>4, FewerAllowed
<1>3. CASE Exits \/ Kill
  <2>1. /\ script' = Idle /\ UNCHANGED <<allowed, bandwidth, quota>> /\ faults' \in 0 .. MaxFaults
    BY <1>1, <1>3 DEF Exits, Kill
  <2> QED BY <1>1, <2>1, IdleIs, FewerAllowed
<1>4. CASE gw_clean_up
  <2>1. script' = Script("gw_clean_up", NoIP, NoRule, "allowed")
        /\ UNCHANGED <<allowed, bandwidth, quota, faults>>
    BY <1>4 DEF gw_clean_up, Starts
  <2>2. script' \in ScriptRecords /\ script'.name = "gw_clean_up"
    BY <1>1, <2>1, CardinalityIs DEF Script, ScriptRecords
  <2> QED BY <1>1, <2>1, <2>2, FewerAllowed
<1>5. ASSUME NEW ip \in IPs, gw_remove_host(ip)
      PROVE  HInv'
  <2>1. script' = Script("gw_remove_host", ip, NoRule, "grep")
        /\ UNCHANGED <<allowed, bandwidth, quota, faults>>
    BY <1>5 DEF gw_remove_host, Starts
  <2>2. script' \in ScriptRecords /\ script'.name = "gw_remove_host" /\ script'.ip = ip
    BY <1>1, <2>1, CardinalityIs DEF Script, ScriptRecords
  <2> QED BY <1>1, <2>1, <2>2, FewerAllowed
<1>6. ASSUME NEW ip \in IPs, NEW bw \in Bandwidths, gw_add_host(ip, bw)
      PROVE  HInv'
  <2>1. script' = Script("gw_add_host", ip, bw, "grep")
        /\ UNCHANGED <<allowed, bandwidth, quota, faults>>
    BY <1>6 DEF gw_add_host, Starts
  <2>2. /\ script' \in ScriptRecords /\ script'.name = "gw_add_host" /\ script'.ip = ip
        /\ script'.bw = bw /\ script'.next = "grep"
    BY <1>1, <2>1, ScriptIs
  <2> QED BY <1>1, <2>1, <2>2, FewerAllowed
<1> QED BY <1>2, <1>3, <1>4, <1>5, <1>6

LEMMA HostStep == HInv /\ [Next]_ruleVars => HInv'
<1> SUFFICES ASSUME HInv, [Next]_ruleVars
             PROVE  HInv'
  OBVIOUS
<1>1. CASE UNCHANGED ruleVars
  BY <1>1 DEF ruleVars, HInv, TypeOK, AllowedOnce, ArgumentsOK, Running
<1> QED BY <1>1, AddSteps, RemoveSteps, OtherSteps DEF Next

LEMMA HostInvariant == Spec => []HInv
<1>1. Init => HInv
  <2> SUFFICES ASSUME Init
               PROVE  HInv
    OBVIOUS
  <2>1. TypeOK
    <3>1. faults \in 0 .. MaxFaults
      BY RejectedAssumption DEF Init
    <3> QED BY <3>1, IdleIs, TypesAre DEF Init
  <2> QED BY <2>1, IdleIs DEF Init, HInv, AllowedOnce, IsInjective, ArgumentsOK, Running
<1> QED BY <1>1, HostStep, PTL DEF Spec

\* Types hold for any number of hosts; the number that grep prints among them.
THEOREM HostTypes == Spec => []TypeOK
<1>1. HInv => TypeOK
  BY DEF HInv
<1> QED BY <1>1, HostInvariant, PTL

\* No host ever has two gw_hosts_allowed rules, whichever addresses match each
\* other, whichever limits are refused and whenever scripts are killed.
THEOREM OneRuleEach == Spec => []AllowedOnce
<1>1. HInv => AllowedOnce
  BY DEF HInv
<1> QED BY <1>1, HostInvariant, PTL

-----------------------------------------------------------------------------
(* Where no address matches another *)

AddressesDistinct == \A p, h \in IPs : <<p, h>> \in Matched => p = h

\* gw_remove_host deletes the rule of its host, and then that host has none.
RemovedOK ==
  /\ Running("gw_remove_host", "allowed") =>
       script.index \in 1 .. Len(allowed) /\ allowed[script.index] = script.ip
  /\ script.name = "gw_remove_host" /\ script.next \in {"bandwidth", "quota", "done"} =>
       script.ip \notin Hosts(allowed)

\* What the script that runs makes of a chain.
Stepped(chain) ==
  CASE script.name = "gw_add_host"    -> Append(chain, script.ip)
    [] script.name = "gw_remove_host" -> RemoveAt(chain, script.index)
    [] OTHER                          -> <<>>

\* The chains are changed one after the other, and the last is as all were before.
AlignedOK ==
  faults = 0 =>
    /\ script.next \in {"grep", "allowed", "done"} => Limited = allowed /\ quota = allowed
    /\ script.next = "bandwidth" => Limited = quota /\ allowed = Stepped(quota)
    /\ script.next = "quota" => Limited = allowed /\ allowed = Stepped(quota)
    /\ script.name = "gw_remove_host" /\ script.next \in {"bandwidth", "quota"} =>
         script.index \in 1 .. Len(quota) /\ quota[script.index] = script.ip

DInv == HInv /\ RemovedOK /\ AlignedOK

LEMMA LimitedIs == Limited = AddressesOf(bandwidth) /\ (Limited = AddressesOf(bandwidth))'
BY DEF Limited, AddressesOf

LEMMA NotHost ==
  ASSUME NEW chain \in Seq(IPs), NEW k \in 1 .. Len(chain), IsInjective(chain)
  PROVE  chain[k] \notin Hosts(RemoveAt(chain, k))
BY RemoveHosts

\* A number that grep prints for a host is the place of its rule.
LEMMA GrepFinds ==
  ASSUME AddressesDistinct, HInv, NEW ip \in IPs
  PROVE  /\ FirstMatch(ip) # 0 =>
              FirstMatch(ip) \in 1 .. Len(allowed) /\ allowed[FirstMatch(ip)] = ip
         /\ FirstMatch(ip) = 0 => ip \notin Hosts(allowed)
<1>1. allowed \in Seq(IPs) /\ Len(allowed) \in Nat
      /\ \A i \in 1 .. Len(allowed) : allowed[i] \in IPs
  BY TypesAre, LenProperties, ElementOfSeq DEF HInv
<1>2. FirstMatch(ip) # 0 => FirstMatch(ip) \in 1 .. Len(allowed)
  <2>1. FirstMatch(ip) \in 0 .. Len(allowed)
    BY <1>1, FirstMatchIs
  <2>2. PICK n \in Nat : n = Len(allowed)
    BY <1>1
  <2> QED BY <2>1, <2>2
<1>3. FirstMatch(ip) # 0 => allowed[FirstMatch(ip)] = ip
  BY <1>1, <1>2, FirstMatchIs DEF AddressesDistinct
<1>4. FirstMatch(ip) = 0 => ip \notin Hosts(allowed)
  BY <1>1, FirstMatchIs, MatchedAssumption DEF Hosts
<1> QED BY <1>2, <1>3, <1>4

LEMMA RemovedStep ==
  ASSUME AddressesDistinct, DInv, [Next]_ruleVars
  PROVE  RemovedOK'
<1>1. /\ allowed \in Seq(IPs) /\ script \in ScriptRecords /\ IsInjective(allowed)
      /\ ArgumentsOK /\ RemovedOK /\ HInv
      /\ {"grep", "allowed", "bandwidth", "quota", "done"} \subseteq Steps
  BY TypesAre DEF DInv, HInv, AllowedOnce, Steps
<1>2. CASE script'.name # "gw_remove_host"
  BY <1>2 DEF RemovedOK, Running
<1>3. CASE RemoveGrep
  <2>1. PICK i : i = FirstMatch(script.ip)
                 /\ script' = [script EXCEPT !.index = i, !.next = IF i = 0 THEN "done" ELSE "allowed"]
    BY <1>3 DEF RemoveGrep
  <2>2. script'.ip = script.ip /\ script'.index = i
        /\ script'.next = IF i = 0 THEN "done" ELSE "allowed"
    BY <1>1, <2>1 DEF ScriptRecords
  <2>3. script.ip \in IPs /\ allowed' = allowed
    BY <1>1, <1>3 DEF RemoveGrep, Running, ArgumentsOK
  <2>4. /\ i # 0 => i \in 1 .. Len(allowed) /\ allowed[i] = script.ip
        /\ i = 0 => script.ip \notin Hosts(allowed)
    BY <1>1, <2>1, <2>3, GrepFinds
  <2> QED BY <2>2, <2>3, <2>4 DEF RemovedOK, Running
<1>4. CASE RemoveAllowed
  <2>1. script'.ip = script.ip /\ script'.next = "bandwidth"
    BY <1>1, <1>4, GotoIs DEF RemoveAllowed
  <2>2. /\ script.index \in 1 .. Len(allowed) /\ allowed[script.index] = script.ip
        /\ allowed' = RemoveAt(allowed, script.index)
    BY <1>1, <1>4 DEF RemoveAllowed, RemovedOK, Deleted
  <2>3. script.ip \notin Hosts(allowed')
    BY <1>1, <2>2, NotHost
  <2> QED BY <2>1, <2>3 DEF RemovedOK, Running
<1>5. CASE RemoveBandwidth \/ RemoveQuota
  <2>1. /\ script.name = "gw_remove_host" /\ script.next \in {"bandwidth", "quota"}
        /\ allowed' = allowed
        /\ \/ Goto("quota")
           \/ \E status : script' = [script EXCEPT !.next = "done", !.status = status]
    BY <1>5 DEF RemoveBandwidth, RemoveQuota, Running
  <2>2. script'.ip = script.ip /\ script'.next \in {"quota", "done"}
    BY <1>1, <2>1 DEF Goto, ScriptRecords
  <2>3. script'.ip \notin Hosts(allowed')
    BY <1>1, <2>1, <2>2 DEF RemovedOK
  <2> QED BY <2>2, <2>3 DEF RemovedOK, Running
<1>6. CASE UNCHANGED ruleVars
  BY <1>1, <1>6 DEF ruleVars, RemovedOK, Running
<1>7. ASSUME NEW ip \in IPs, gw_remove_host(ip)
      PROVE  RemovedOK'
  <2>1. script'.next = "grep"
    BY <1>7 DEF gw_remove_host, Starts, Script
  <2> QED BY <2>1 DEF RemovedOK, Running
<1>8. CASE AddGrep \/ AddAllowed \/ AddBandwidth \/ AddQuota \/ CleanUp
  <2>1. \E next \in Steps : Goto(next)
    BY <1>1, <1>8 DEF AddGrep, AddAllowed, AddBandwidth, AddQuota, CleanUp
  <2>2. script.name # "gw_remove_host"
    BY <1>8 DEF AddGrep, AddAllowed, AddBandwidth, AddQuota, CleanUp, Running
  <2> QED BY <1>1, <1>2, <2>1, <2>2, GotoIs
<1>9. CASE Exits \/ Kill
  BY <1>2, <1>9, IdleIs DEF Exits, Kill
<1>10. CASE gw_clean_up \/ \E ip \in IPs, bw \in Bandwidths : gw_add_host(ip, bw)
  BY <1>2, <1>10 DEF gw_clean_up, gw_add_host, Starts, Script
<1> QED BY <1>3, <1>4, <1>5, <1>6, <1>7, <1>8, <1>9, <1>10 DEF Next

LEMMA AlignedStep ==
  ASSUME AddressesDistinct, DInv, [Next]_ruleVars
  PROVE  AlignedOK'
<1>1. /\ allowed \in Seq(IPs) /\ quota \in Seq(IPs) /\ bandwidth \in Seq(Limits)
      /\ script \in ScriptRecords /\ ArgumentsOK /\ RemovedOK /\ AlignedOK
      /\ {"grep", "allowed", "bandwidth", "quota", "done"} \subseteq Steps
      /\ MaxFaults \in Nat /\ faults \in Nat
  BY TypesAre, RejectedAssumption DEF DInv, HInv, Steps
<1> SUFFICES ASSUME faults' = 0
             PROVE  AlignedOK'
  BY DEF AlignedOK
<1>2. faults = 0 /\ ~Kill
  BY <1>1 DEF Next, Kill, AddBandwidth, AddGrep, AddAllowed, AddQuota, RemoveGrep, RemoveAllowed,
              RemoveBandwidth, RemoveQuota, CleanUp, Exits, gw_add_host, gw_remove_host,
              gw_clean_up, Starts, ruleVars
<1>3. Limited = AddressesOf(bandwidth) /\ Limited' = AddressesOf(bandwidth')
  BY LimitedIs
<1>4. ASSUME script.next \in {"grep", "allowed", "done"}, UNCHANGED <<allowed, bandwidth, quota>>,
             script'.next \in {"grep", "allowed", "done"}
      PROVE  AlignedOK'
  BY <1>1, <1>2, <1>3, <1>4 DEF AlignedOK
<1>5. CASE gw_clean_up \/ \E ip \in IPs : gw_remove_host(ip)
                                           \/ \E bw \in Bandwidths : gw_add_host(ip, bw)
  BY <1>4, <1>5, IdleIs DEF gw_clean_up, gw_remove_host, gw_add_host, Starts, Script
<1>6. CASE AddGrep \/ RemoveGrep
  <2>1. script'.next \in {"allowed", "done"}
    BY <1>1, <1>6 DEF AddGrep, RemoveGrep, Goto, ScriptRecords
  <2> QED BY <1>4, <1>6, <2>1 DEF AddGrep, RemoveGrep, Running
<1>7. CASE Exits
  BY <1>4, <1>7, IdleIs DEF Exits
<1>8. CASE UNCHANGED ruleVars
  BY <1>1, <1>2, <1>3, <1>8 DEF AlignedOK, Stepped, ruleVars
<1>9. CASE AddAllowed
  <2>1. /\ script.name = "gw_add_host" /\ script.next = "allowed" /\ Goto("bandwidth")
        /\ allowed' = Append(allowed, script.ip) /\ UNCHANGED <<bandwidth, quota>>
    BY <1>9 DEF AddAllowed, Running
  <2>2. script'.name = "gw_add_host" /\ script'.next = "bandwidth" /\ script'.ip = script.ip
    BY <1>1, <2>1, GotoIs
  <2>3. Limited = allowed /\ quota = allowed
    BY <1>1, <1>2, <2>1 DEF AlignedOK
  <2> QED BY <1>3, <2>1, <2>2, <2>3 DEF AlignedOK, Stepped
<1>10. CASE AddBandwidth
  <2>1. /\ script.name = "gw_add_host" /\ script.next = "bandwidth" /\ Goto("quota")
        /\ UNCHANGED <<allowed, quota>>
        /\ bandwidth' = Append(bandwidth, [ip |-> script.ip, bw |-> script.bw])
    BY <1>2, <1>10 DEF AddBandwidth, Running
  <2>2. script'.name = "gw_add_host" /\ script'.next = "quota" /\ script'.ip = script.ip
    BY <1>1, <2>1, GotoIs
  <2>3. Limited = quota /\ allowed = Append(quota, script.ip)
    BY <1>1, <1>2, <2>1 DEF AlignedOK, Stepped
  <2>4. AddressesOf(bandwidth') = Append(Limited, script.ip)
    <3>1. PICK r \in Limits : r = [ip |-> script.ip, bw |-> script.bw] /\ r.ip = script.ip
      BY <1>1, <2>1 DEF ArgumentsOK, Limits
    <3> QED BY <1>1, <1>3, <2>1, <3>1, AppendAddresses
  <2>5. allowed' = Stepped(quota)' /\ Limited' = allowed'
    BY <1>3, <2>1, <2>2, <2>3, <2>4 DEF Stepped
  <2> QED BY <2>2, <2>5 DEF AlignedOK
<1>11. CASE AddQuota
  <2>1. /\ script.name = "gw_add_host" /\ script.next = "quota" /\ Goto("done")
        /\ UNCHANGED <<allowed, bandwidth>> /\ quota' = Append(quota, script.ip)
    BY <1>11 DEF AddQuota, Running
  <2>2. script'.name = "gw_add_host" /\ script'.next = "done"
    BY <1>1, <2>1, GotoIs
  <2>3. Limited = allowed /\ allowed = Append(quota, script.ip)
    BY <1>1, <1>2, <2>1 DEF AlignedOK, Stepped
  <2> QED BY <1>3, <2>1, <2>2, <2>3 DEF AlignedOK
<1>12. CASE RemoveAllowed
  <2>1. /\ script.name = "gw_remove_host" /\ script.next = "allowed" /\ Goto("bandwidth")
        /\ UNCHANGED <<bandwidth, quota>>
        /\ script.index \in 1 .. Len(allowed) /\ allowed[script.index] = script.ip
        /\ allowed' = RemoveAt(allowed, script.index)
    BY <1>1, <1>12 DEF RemoveAllowed, Running, RemovedOK, Deleted
  <2>2. /\ script'.name = "gw_remove_host" /\ script'.next = "bandwidth"
        /\ script'.ip = script.ip /\ script'.index = script.index
    BY <1>1, <2>1, GotoIs
  <2>3. Limited = allowed /\ quota = allowed
    BY <1>1, <1>2, <2>1 DEF AlignedOK
  <2> QED BY <1>3, <2>1, <2>2, <2>3 DEF AlignedOK, Stepped
<1>13. CASE RemoveBandwidth
  <2>1. /\ script.name = "gw_remove_host" /\ script.next = "bandwidth" /\ Goto("quota")
        /\ UNCHANGED <<allowed, quota>> /\ bandwidth' = Deleted(bandwidth, script.index)
    BY <1>13 DEF RemoveBandwidth, Running
  <2>2. /\ script'.name = "gw_remove_host" /\ script'.next = "quota"
        /\ script'.ip = script.ip /\ script'.index = script.index
    BY <1>1, <2>1, GotoIs
  <2>3. /\ Limited = quota /\ allowed = RemoveAt(quota, script.index)
        /\ script.index \in 1 .. Len(quota) /\ quota[script.index] = script.ip
    BY <1>1, <1>2, <2>1 DEF AlignedOK, Stepped
  <2>4. script.index \in 1 .. Len(bandwidth)
    BY <1>1, <1>3, <2>3, AddressesAre
  <2>5. AddressesOf(bandwidth') = RemoveAt(Limited, script.index)
    BY <1>1, <1>3, <2>1, <2>4, RemoveAddresses DEF Deleted
  <2> QED BY <1>3, <2>1, <2>2, <2>3, <2>5 DEF AlignedOK, Stepped
<1>14. CASE RemoveQuota
  <2>1. /\ script.name = "gw_remove_host" /\ script.next = "quota"
        /\ UNCHANGED <<allowed, bandwidth>> /\ quota' = Deleted(quota, script.index)
        /\ \E status : script' = [script EXCEPT !.next = "done", !.status = status]
    BY <1>14 DEF RemoveQuota, Running
  <2>2. script'.next = "done"
    BY <1>1, <2>1 DEF ScriptRecords
  <2>3. /\ Limited = allowed /\ allowed = RemoveAt(quota, script.index)
        /\ script.index \in 1 .. Len(quota)
    BY <1>1, <1>2, <2>1 DEF AlignedOK, Stepped
  <2> QED BY <1>3, <2>1, <2>2, <2>3 DEF AlignedOK, Deleted
<1>15. CASE CleanUp
  <2>1. /\ script.name = "gw_clean_up"
        /\ \/ script.next = "allowed" /\ Goto("bandwidth")
              /\ allowed' = <<>> /\ UNCHANGED <<bandwidth, quota>>
           \/ script.next = "bandwidth" /\ Goto("quota")
              /\ bandwidth' = <<>> /\ UNCHANGED <<allowed, quota>>
           \/ script.next = "quota" /\ Goto("done")
              /\ quota' = <<>> /\ UNCHANGED <<allowed, bandwidth>>
    BY <1>15 DEF CleanUp
  <2>2. script'.name = "gw_clean_up"
    BY <1>1, <2>1, GotoIs
  <2>3. CASE script.next = "allowed"
    <3>1. script'.next = "bandwidth" /\ allowed' = <<>> /\ UNCHANGED <<bandwidth, quota>>
      BY <1>1, <2>1, <2>3, GotoIs
    <3>2. Limited = quota
      BY <1>1, <1>2, <2>3 DEF AlignedOK
    <3> QED BY <1>3, <2>2, <3>1, <3>2 DEF AlignedOK, Stepped
  <2>4. CASE script.next = "bandwidth"
    <3>1. script'.next = "quota" /\ bandwidth' = <<>> /\ UNCHANGED <<allowed, quota>>
      BY <1>1, <2>1, <2>4, GotoIs
    <3>2. allowed = <<>>
      BY <1>1, <1>2, <2>1, <2>4 DEF AlignedOK, Stepped
    <3> QED BY <1>3, <2>2, <3>1, <3>2, NoAddresses DEF AlignedOK, Stepped
  <2>5. CASE script.next = "quota"
    <3>1. script'.next = "done" /\ quota' = <<>> /\ UNCHANGED <<allowed, bandwidth>>
      BY <1>1, <2>1, <2>5, GotoIs
    <3>2. allowed = <<>> /\ Limited = allowed
      BY <1>1, <1>2, <2>1, <2>5 DEF AlignedOK, Stepped
    <3> QED BY <1>3, <2>2, <3>1, <3>2 DEF AlignedOK
  <2> QED BY <2>1, <2>3, <2>4, <2>5
<1> QED BY <1>2, <1>5, <1>6, <1>7, <1>8, <1>9, <1>10, <1>11, <1>12, <1>13, <1>14, <1>15 DEF Next

LEMMA DistinctInvariant ==
  ASSUME AddressesDistinct
  PROVE  Spec => []DInv
<1>1. Init => DInv
  <2> SUFFICES ASSUME Init
               PROVE  DInv
    OBVIOUS
  <2>1. HInv
    <3>1. faults \in 0 .. MaxFaults
      BY RejectedAssumption DEF Init
    <3> QED BY <3>1, IdleIs, TypesAre DEF Init, HInv, AllowedOnce, IsInjective, ArgumentsOK, Running
  <2>2. RemovedOK
    BY IdleIs DEF Init, RemovedOK, Running
  <2>3. Limited = <<>>
    BY LimitedIs, NoAddresses DEF Init
  <2>4. AlignedOK
    BY <2>3, IdleIs DEF Init, AlignedOK
  <2> QED BY <2>1, <2>2, <2>4 DEF DInv
<1>2. DInv /\ [Next]_ruleVars => DInv'
  <2> SUFFICES ASSUME DInv, [Next]_ruleVars
               PROVE  DInv'
    OBVIOUS
  <2>1. HInv'
    BY HostStep DEF DInv
  <2>2. RemovedOK'
    BY RemovedStep
  <2>3. AlignedOK'
    BY AlignedStep
  <2> QED BY <2>1, <2>2, <2>3 DEF DInv
<1> QED BY <1>1, <1>2, PTL DEF Spec

\* Where no address matches another, a host for which gw_remove_host ended with
\* status 0 has no rule, although scripts were killed and limits refused before.
THEOREM RemovalWorks ==
  ASSUME AddressesDistinct
  PROVE  Spec => []RemovedIsCutOff
<1>1. DInv => RemovedIsCutOff
  BY DEF DInv, RemovedOK, RemovedIsCutOff, Running
<1> QED BY <1>1, DistinctInvariant, PTL

\* Where moreover none was killed and none refused, the rules of a host have
\* the same place in the three chains whenever no script runs.
THEOREM PlacesAgree ==
  ASSUME AddressesDistinct
  PROVE  Spec => []ChainsAligned
<1>1. DInv => ChainsAligned
  BY IdleIs DEF DInv, HInv, AllowedOnce, AlignedOK, ChainsAligned
<1> QED BY <1>1, DistinctInvariant, PTL

-----------------------------------------------------------------------------
(* Scripts as the atomic commands of module Firewall *)

\* The limit of a host, and the bandwidth it is admitted with.
Limit(chain, ip) ==
  LET i == LimitRule(chain, ip) IN IF i = 0 THEN NoRule ELSE chain[i].bw
RuleIn(hosts, chain, s, ip) ==
  IF ip \notin hosts THEN NoRule
  ELSE IF s.name = "gw_add_host" /\ s.ip = ip /\ s.next = "bandwidth"
  THEN s.bw
  ELSE Limit(chain, ip)

LEMMA AdmittedNow == Admitted = [ip \in IPs |-> RuleIn(Hosts(allowed), bandwidth, script, ip)]
<1>1. \A ip : RuleOf(ip) = RuleIn(Hosts(allowed), bandwidth, script, ip)
  BY DEF RuleOf, RuleIn, Limit, LimitRule
<1> QED BY <1>1 DEF Admitted

LEMMA AdmittedIs ==
  /\ Admitted = [ip \in IPs |-> RuleIn(Hosts(allowed), bandwidth, script, ip)]
  /\ Admitted' = [ip \in IPs |-> RuleIn(Hosts(allowed'), bandwidth', script', ip)]
<1>1. (Admitted = [ip \in IPs |-> RuleIn(Hosts(allowed), bandwidth, script, ip)])'
  BY AdmittedNow, PTL
<1> QED BY <1>1, AdmittedNow

LEMMA CommandsDo ==
  /\ script.name = "gw_add_host" =>
       Abstract!After(Command) =
         [Admitted EXCEPT ![script.ip] = IF @ = NoRule THEN script.bw ELSE @]
  /\ script.name = "gw_remove_host" =>
       Abstract!After(Command) = [Admitted EXCEPT ![script.ip] = NoRule]
  /\ script.name = "gw_clean_up" => Abstract!After(Command) = [ip \in IPs |-> NoRule]
BY DEF Command, Abstract!After, Abstract!Command, Abstract!add_host, Abstract!remove_host,
       Abstract!clean_up, Abstract!gw_add_host, Abstract!gw_remove_host, Abstract!gw_clean_up,
       Abstract!NoRules

\* A chain where a host has the rule that it has in the other, and only that one.
LEMMA SameLimit ==
  ASSUME NEW chain \in Seq(Limits), NEW other \in Seq(Limits), IsInjective(AddressesOf(other)),
         NEW ip,
         \A i \in 1 .. Len(chain) :
           chain[i].ip = ip => \E j \in 1 .. Len(other) : other[j] = chain[i],
         \A j \in 1 .. Len(other) :
           other[j].ip = ip => \E i \in 1 .. Len(chain) : chain[i] = other[j]
  PROVE  Limit(other, ip) = Limit(chain, ip)
<1> DEFINE m == LimitRule(chain, ip)
           n == LimitRule(other, ip)
<1>1. /\ Len(chain) \in Nat /\ Len(other) \in Nat
      /\ m \in 0 .. Len(chain) /\ n \in 0 .. Len(other)
      /\ m = 0 => \A i \in 1 .. Len(chain) : chain[i].ip # ip
      /\ n = 0 => \A j \in 1 .. Len(other) : other[j].ip # ip
      /\ m # 0 => chain[m].ip = ip
      /\ n # 0 => other[n].ip = ip
  BY LimitRuleIs, LenProperties
<1>2. \A i, j \in 1 .. Len(other) : other[i].ip = other[j].ip => i = j
  <2>1. /\ \A i \in 1 .. Len(other) : AddressesOf(other)[i] = other[i].ip
        /\ DOMAIN AddressesOf(other) = 1 .. Len(other)
    BY AddressesAre DEF AddressesOf
  <2> QED BY <2>1 DEF IsInjective
<1> HIDE DEF m, n
<1>3. CASE m = 0
  <2>1. n = 0
    BY <1>1, <1>3
  <2> QED BY <1>3, <2>1 DEF Limit, m, n
<1>4. CASE m # 0
  <2>1. m \in 1 .. Len(chain) /\ chain[m].ip = ip
    BY <1>1, <1>4
  <2>2. PICK j \in 1 .. Len(other) : other[j] = chain[m]
    BY <2>1
  <2>3. n \in 1 .. Len(other) /\ other[n].ip = ip
    BY <1>1, <2>1, <2>2
  <2>4. n = j
    BY <1>2, <2>1, <2>2, <2>3
  <2> QED BY <1>4, <2>2, <2>3, <2>4 DEF Limit, m, n
<1> QED BY <1>3, <1>4

\* The steps that leave the rules of every host as they are.
LEMMA QuietStep ==
  ASSUME UNCHANGED <<allowed, bandwidth>>,
         ~Running("gw_add_host", "bandwidth"), ~Running("gw_add_host", "bandwidth")'
  PROVE  Admitted' = Admitted
BY AdmittedIs DEF RuleIn, Running

\* gw_add_host admits its host with its first rule, and with the second the
\* limit that it stands for is in the chain.
LEMMA AddAtomic ==
  ASSUME DInv, DInv', faults' = 0, AddAllowed \/ AddBandwidth
  PROVE  Admitted' = Admitted \/ Admitted' = Abstract!After(Command)
<1>1. /\ allowed \in Seq(IPs) /\ quota \in Seq(IPs) /\ bandwidth \in Seq(Limits)
      /\ script \in ScriptRecords /\ ArgumentsOK /\ AlignedOK
      /\ script.name = "gw_add_host" /\ script.ip \in IPs /\ script.bw \in Bandwidths
      /\ {"bandwidth", "quota"} \subseteq Steps /\ MaxFaults \in Nat /\ faults \in Nat
  BY TypesAre, RejectedAssumption
     DEF DInv, HInv, Steps, AddAllowed, AddBandwidth, Running, ArgumentsOK
<1> DEFINE ip == script.ip
<1>2. CASE AddAllowed
  <2>1. /\ allowed' = Append(allowed, ip) /\ bandwidth' = bandwidth /\ Goto("bandwidth")
        /\ script.next = "allowed" /\ ip \notin Hosts(allowed)
    BY <1>1, <1>2 DEF AddAllowed, Running, ArgumentsOK
  <2>2. /\ script'.name = "gw_add_host" /\ script'.next = "bandwidth"
        /\ script'.ip = ip /\ script'.bw = script.bw
    BY <1>1, <2>1, GotoIs
  <2>3. Hosts(allowed') = Hosts(allowed) \cup {ip}
    BY <1>1, <2>1, AppendHosts
  <2>4. Admitted[ip] = NoRule
    BY <1>1, <2>1, AdmittedIs DEF RuleIn
  <2>5. Admitted' = [Admitted EXCEPT ![ip] = script.bw]
    BY <1>1, <2>1, <2>2, <2>3, AdmittedIs DEF RuleIn
  <2> QED BY <1>1, <2>4, <2>5, CommandsDo
<1>3. CASE AddBandwidth
  <2>1. /\ script.next = "bandwidth" /\ Goto("quota") /\ UNCHANGED <<allowed, quota>>
        /\ bandwidth' = Append(bandwidth, [ip |-> ip, bw |-> script.bw]) /\ faults = 0
    BY <1>1, <1>3 DEF AddBandwidth, Running
  <2>2. script'.next = "quota"
    BY <1>1, <2>1, GotoIs
  <2>3. IsInjective(AddressesOf(bandwidth')) /\ allowed = Append(quota, ip)
    <3>1. Limited' = allowed' /\ IsInjective(allowed')
      BY <2>2 DEF DInv, HInv, AllowedOnce, AlignedOK
    <3>2. allowed = Append(quota, ip)
      BY <1>1, <2>1 DEF AlignedOK, Stepped
    <3> QED BY <3>1, <3>2, LimitedIs
  <2>4. PICK rule \in Limits : rule = [ip |-> ip, bw |-> script.bw]
    BY <1>1 DEF Limits
  <2>5. /\ bandwidth' \in Seq(Limits) /\ Len(bandwidth') = Len(bandwidth) + 1
        /\ \A i \in 1 .. Len(bandwidth) : bandwidth'[i] = bandwidth[i]
        /\ bandwidth'[Len(bandwidth) + 1] = rule
        /\ Len(bandwidth) \in Nat
    BY <1>1, <2>1, <2>4, AppendProperties, LenProperties
  <2>6. ASSUME NEW h, h # ip
        PROVE  Limit(bandwidth', h) = Limit(bandwidth, h)
    <3>1. ASSUME NEW i \in 1 .. Len(bandwidth)
          PROVE  \E j \in 1 .. Len(bandwidth') : bandwidth'[j] = bandwidth[i]
      BY <2>5
    <3>2. ASSUME NEW j \in 1 .. Len(bandwidth'), bandwidth'[j].ip = h
          PROVE  \E i \in 1 .. Len(bandwidth) : bandwidth[i] = bandwidth'[j]
      BY <2>4, <2>5, <2>6, <3>2
    <3> QED BY <1>1, <2>3, <2>5, <3>1, <3>2, SameLimit
  <2>7. Limit(bandwidth', ip) = script.bw
    <3> DEFINE n == LimitRule(bandwidth', ip)
               last == Len(bandwidth) + 1
    <3>1. /\ n \in 0 .. Len(bandwidth')
          /\ n = 0 => \A j \in 1 .. Len(bandwidth') : bandwidth'[j].ip # ip
          /\ n # 0 => bandwidth'[n].ip = ip
      BY <2>5, LimitRuleIs
    <3>2. last \in 1 .. Len(bandwidth') /\ bandwidth'[last].ip = ip /\ bandwidth'[last].bw = script.bw
      BY <2>4, <2>5
    <3>3. /\ \A i \in 1 .. Len(bandwidth') : AddressesOf(bandwidth')[i] = bandwidth'[i].ip
          /\ DOMAIN AddressesOf(bandwidth') = 1 .. Len(bandwidth')
      BY <2>5, AddressesAre DEF AddressesOf
    <3> HIDE DEF n, last
    <3>4. n # 0 /\ n \in 1 .. Len(bandwidth')
      BY <2>5, <3>1, <3>2
    <3>5. n = last
      BY <2>3, <3>1, <3>2, <3>3, <3>4 DEF IsInjective
    <3> QED BY <3>2, <3>4, <3>5 DEF Limit, n
  <2>8. ip \in Hosts(allowed)
    <3>1. Hosts(Append(quota, ip)) = Hosts(quota) \cup {ip}
      BY <1>1, AppendHosts
    <3> QED BY <2>3, <3>1
  <2>9. Admitted' = Admitted
    <3>1. ASSUME NEW h \in IPs
          PROVE  RuleIn(Hosts(allowed'), bandwidth', script', h)
                   = RuleIn(Hosts(allowed), bandwidth, script, h)
      <4>1. CASE h = ip
        BY <1>1, <2>1, <2>2, <2>7, <2>8, <4>1 DEF RuleIn
      <4>2. CASE h # ip
        BY <1>1, <2>1, <2>2, <2>6, <4>2 DEF RuleIn
      <4> QED BY <4>1, <4>2
    <3> QED BY <3>1, AdmittedIs
  <2> QED BY <2>9
<1> QED BY <1>2, <1>3

\* gw_remove_host cuts its host off with the first rule it deletes; the second
\* is no other host's.
LEMMA RemoveAtomic ==
  ASSUME DInv, DInv', faults' = 0, RemoveAllowed \/ RemoveBandwidth
  PROVE  Admitted' = Admitted \/ Admitted' = Abstract!After(Command)
<1>1. /\ allowed \in Seq(IPs) /\ quota \in Seq(IPs) /\ bandwidth \in Seq(Limits)
      /\ script \in ScriptRecords /\ ArgumentsOK /\ AlignedOK /\ RemovedOK /\ IsInjective(allowed)
      /\ script.name = "gw_remove_host" /\ script.ip \in IPs
      /\ {"bandwidth", "quota"} \subseteq Steps
  BY TypesAre
     DEF DInv, HInv, AllowedOnce, Steps, RemoveAllowed, RemoveBandwidth, Running, ArgumentsOK
<1> DEFINE ip == script.ip
           k == script.index
<1>2. CASE RemoveAllowed
  <2>1. /\ k \in 1 .. Len(allowed) /\ allowed[k] = ip /\ allowed' = RemoveAt(allowed, k)
        /\ bandwidth' = bandwidth /\ Goto("bandwidth")
    BY <1>1, <1>2 DEF RemoveAllowed, RemovedOK, Running, Deleted
  <2>2. script'.name = "gw_remove_host"
    BY <1>1, <2>1, GotoIs
  <2>3. Hosts(allowed') = Hosts(allowed) \ {ip}
    BY <1>1, <2>1, RemoveHosts
  <2>4. Admitted' = [Admitted EXCEPT ![ip] = NoRule]
    BY <1>1, <2>1, <2>2, <2>3, AdmittedIs DEF RuleIn
  <2> QED BY <1>1, <2>4, CommandsDo
<1>3. CASE RemoveBandwidth
  <2>1. /\ script.next = "bandwidth" /\ Goto("quota") /\ UNCHANGED <<allowed, quota, faults>>
        /\ bandwidth' = Deleted(bandwidth, k)
    BY <1>3 DEF RemoveBandwidth, Running
  <2>2. script'.name = "gw_remove_host" /\ script'.next = "quota"
    BY <1>1, <2>1, GotoIs
  <2>3. /\ Limited = quota /\ k \in 1 .. Len(quota) /\ quota[k] = ip /\ ip \notin Hosts(allowed)
    BY <1>1, <2>1 DEF AlignedOK, RemovedOK
  <2>4. k \in 1 .. Len(bandwidth) /\ bandwidth[k].ip = ip /\ bandwidth' = RemoveAt(bandwidth, k)
    <3>1. Limited = AddressesOf(bandwidth)
      BY LimitedIs
    <3> QED BY <1>1, <2>1, <2>3, <3>1, AddressesAre DEF Deleted
  <2>5. IsInjective(AddressesOf(bandwidth'))
    <3>1. Limited' = allowed' /\ IsInjective(allowed')
      BY <2>2 DEF DInv, HInv, AllowedOnce, AlignedOK
    <3> QED BY <3>1, LimitedIs
  <2>6. /\ bandwidth' \in Seq(Limits) /\ Len(bandwidth') = Len(bandwidth) - 1
        /\ \A i \in 1 .. Len(bandwidth) - 1 :
             bandwidth'[i] = bandwidth[IF i < k THEN i ELSE i + 1]
        /\ Len(bandwidth) \in Nat
    BY <1>1, <2>4, RemoveAtIs, LenProperties
  <2>7. ASSUME NEW h, h # ip
        PROVE  Limit(bandwidth', h) = Limit(bandwidth, h)
    <3>1. ASSUME NEW i \in 1 .. Len(bandwidth), bandwidth[i].ip = h
          PROVE  \E j \in 1 .. Len(bandwidth') : bandwidth'[j] = bandwidth[i]
      <4>1. i # k
        BY <2>4, <2>7, <3>1
      <4>2. CASE i < k
        BY <2>4, <2>6, <4>2
      <4>3. CASE i > k
        <5>1. i - 1 \in 1 .. Len(bandwidth') /\ ~(i - 1 < k) /\ i - 1 + 1 = i
          BY <2>4, <2>6, <4>3
        <5>2. bandwidth'[i - 1] = bandwidth[i]
          BY <2>6, <5>1
        <5> QED BY <5>1, <5>2
      <4> QED BY <2>4, <4>1, <4>2, <4>3
    <3>2. ASSUME NEW j \in 1 .. Len(bandwidth')
          PROVE  \E i \in 1 .. Len(bandwidth) : bandwidth[i] = bandwidth'[j]
      <4>1. (IF j < k THEN j ELSE j + 1) \in 1 .. Len(bandwidth)
        BY <2>4, <2>6
      <4> QED BY <2>6, <4>1
    <3> QED BY <1>1, <2>5, <2>6, <3>1, <3>2, SameLimit
  <2>8. Admitted' = Admitted
    <3>1. ASSUME NEW h \in IPs
          PROVE  RuleIn(Hosts(allowed'), bandwidth', script', h)
                   = RuleIn(Hosts(allowed), bandwidth, script, h)
      <4>1. CASE h = ip
        BY <2>1, <2>3, <4>1 DEF RuleIn
      <4>2. CASE h # ip
        BY <1>1, <2>1, <2>2, <2>7, <4>2 DEF RuleIn
      <4> QED BY <4>1, <4>2
    <3> QED BY <3>1, AdmittedIs
  <2> QED BY <2>8
<1> QED BY <1>2, <1>3

\* gw_clean_up cuts every host off with the first chain it flushes.
LEMMA CleanUpAtomic ==
  ASSUME DInv, faults' = 0, CleanUp
  PROVE  Admitted' = Admitted \/ Admitted' = Abstract!After(Command)
<1>1. /\ script \in ScriptRecords /\ AlignedOK /\ script.name = "gw_clean_up"
      /\ {"bandwidth", "quota", "done"} \subseteq Steps /\ faults = 0
  BY TypesAre DEF DInv, HInv, Steps, CleanUp
<1>2. script'.name = "gw_clean_up"
  <2>1. \E next \in {"bandwidth", "quota", "done"} : Goto(next)
    BY DEF CleanUp
  <2> QED BY <1>1, <2>1, GotoIs
<1>3. Hosts(<<>>) = {}
  BY DEF Hosts
<1>4. CASE script.next = "allowed"
  <2>1. allowed' = <<>>
    BY <1>4 DEF CleanUp
  <2>2. Admitted' = [ip \in IPs |-> NoRule]
    BY <1>3, <2>1, AdmittedIs DEF RuleIn
  <2> QED BY <1>1, <2>2, CommandsDo
<1>5. CASE script.next = "bandwidth"
  <2>1. allowed = <<>> /\ allowed' = <<>>
    BY <1>1, <1>5 DEF CleanUp, AlignedOK, Stepped
  <2> QED BY <1>3, <2>1, AdmittedIs DEF RuleIn
<1>6. CASE script.next = "quota"
  <2>1. UNCHANGED <<allowed, bandwidth>>
    BY <1>6 DEF CleanUp
  <2> QED BY <1>1, <1>2, <2>1, QuietStep DEF Running
<1> QED BY <1>4, <1>5, <1>6 DEF CleanUp

LEMMA AtomicStep ==
  ASSUME DInv, DInv', [Next]_ruleVars, faults' = 0
  PROVE  Admitted' = Admitted \/ Admitted' = Abstract!After(Command)
<1>1. /\ script \in ScriptRecords /\ faults \in Nat
      /\ {"grep", "allowed", "bandwidth", "quota", "done"} \subseteq Steps
  BY TypesAre, RejectedAssumption DEF DInv, HInv, Steps
<1>2. CASE AddAllowed \/ AddBandwidth
  BY <1>2, AddAtomic
<1>3. CASE RemoveAllowed \/ RemoveBandwidth
  BY <1>3, RemoveAtomic
<1>4. CASE CleanUp
  BY <1>4, CleanUpAtomic
<1>5. CASE AddGrep \/ AddQuota \/ RemoveGrep \/ RemoveQuota
  <2>1. /\ UNCHANGED <<allowed, bandwidth>> /\ script.next \in {"grep", "quota"}
        /\ script'.next \in {"allowed", "done"}
    BY <1>1, <1>5, GotoIs DEF AddGrep, AddQuota, RemoveGrep, RemoveQuota, Running, ScriptRecords
  <2> QED BY <2>1, QuietStep DEF Running
<1>6. CASE Exits
  <2>1. /\ UNCHANGED <<allowed, bandwidth>> /\ script.next = "done" /\ script'.next = "done"
    BY <1>6, IdleIs DEF Exits
  <2> QED BY <2>1, QuietStep DEF Running
<1>7. ASSUME NEW name, NEW ip, NEW bw, NEW next \in {"grep", "allowed"},
             Starts(name, ip, bw, next)
      PROVE  Admitted' = Admitted
  <2>1. /\ UNCHANGED <<allowed, bandwidth>> /\ script.next = "done" /\ script'.next = next
    BY <1>7, IdleIs DEF Starts, Script
  <2> QED BY <2>1, QuietStep DEF Running
<1>8. CASE gw_clean_up \/ \E ip \in IPs : gw_remove_host(ip)
                                           \/ \E bw \in Bandwidths : gw_add_host(ip, bw)
  BY <1>7, <1>8 DEF gw_clean_up, gw_remove_host, gw_add_host
<1>9. CASE UNCHANGED ruleVars
  BY <1>9, AdmittedIs DEF ruleVars
<1>10. ~Kill
  BY <1>1 DEF Kill
<1> QED BY <1>2, <1>3, <1>4, <1>5, <1>6, <1>8, <1>9, <1>10 DEF Next

\* Where no address matches another, none is refused and no script is killed,
\* the scripts are the atomic commands that module Controller uses: who is
\* admitted, and with what limit, changes in one step of a script and to what
\* module Firewall says.
THEOREM ScriptsAreCommands ==
  ASSUME AddressesDistinct
  PROVE  Spec => ScriptsAtomic
<1>1. DInv /\ DInv' /\ [Next]_ruleVars
        => [faults' = 0 /\ Admitted' # Admitted => Admitted' = Abstract!After(Command)]_ruleVars
  BY AtomicStep
<1> QED BY <1>1, DistinctInvariant, PTL DEF Spec, ScriptsAtomic
=============================================================================
