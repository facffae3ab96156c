---------------------------- MODULE SubnetPools ----------------------------
(***************************************************************************)
(* ListSubnetsPerPool (exporters/neutron.go): how many prefixes of each    *)
(* length a pool has in all, has given to subnets, and could still give.   *)
(* The function asks neutron twice, for the subnets and then for the       *)
(* pools, and neutron may be edited before and between the two.            *)
(*                                                                         *)
(* Addresses have Width bits.  A prefix is an aligned block of addresses.  *)
(* Neutron keeps a pool's prefixes compacted, so that they are known by    *)
(* the addresses they hold; a pool only ever grows; the subnets of a pool  *)
(* are disjoint, lie in its prefixes and have a length that was allowed    *)
(* when they were made.  Subnets without a pool may lie anywhere.          *)
(***************************************************************************)
EXTENDS Integers, FiniteSets, FiniteSetsExt, Sequences

CONSTANTS
  Pools,
  NoPool,    \* the SubnetPoolID of a subnet that comes from no pool
  Width,     \* bits of an address
  Ranges,    \* <<MinPrefixLen, MaxPrefixLen>> that a pool may have
  MaxEdits   \* bound on the edits of neutron

ASSUME PoolsAssumption ==
  /\ NoPool \notin Pools
  /\ Width \in Nat /\ MaxEdits \in Nat
  /\ \A r \in Ranges : r[1] \in 0..Width /\ r[2] \in r[1]..Width

VARIABLES
  pools,      \* neutron's pools: addresses and range of lengths
  subnets,    \* neutron's subnets: pool and prefix
  edits,
  next,       \* which of the Requests comes next; 0 when one has failed
  allSubnets, allPools, \* the answers
  samples     \* what was sent

neutron == <<pools, subnets, edits>>
vars == <<neutron, next, allSubnets, allPools, samples>>

---------------------------------------------------------------------------
(* netip.Prefix and netipx.IPSet                                           *)

Prefixes(bits) ==
  {[start |-> i * 2^(Width - bits), bits |-> bits] : i \in 0..2^bits - 1}

AllPrefixes == UNION {Prefixes(bits) : bits \in 0..Width}

Addresses(p) == p.start..p.start + 2^(Width - p.bits) - 1

Overlaps(p, q) == Addresses(p) \cap Addresses(q) # {}

\* IPSet.Prefixes: the largest prefixes within a set of addresses.
LargestPrefixes(set) ==
  LET inside == {p \in AllPrefixes : Addresses(p) \subseteq set}
  IN  {p \in inside : \A q \in inside : Overlaps(p, q) => p.bits <= q.bits}

---------------------------------------------------------------------------
Init ==
  /\ pools = [p \in {} |-> NoPool]
  /\ subnets = {}
  /\ edits = 0
  /\ next = 1
  /\ allSubnets = {}
  /\ allPools = pools
  /\ samples = {}

(* Neutron is edited, as long as that can change an answer.                *)

Edit ==
  /\ next \in {1, 2}
  /\ edits < MaxEdits
  /\ edits' = edits + 1
  /\ UNCHANGED <<next, allSubnets, allPools, samples>>

CreatePool(p, prefix, range) ==
  /\ Edit
  /\ p \notin DOMAIN pools
  /\ pools' = [q \in DOMAIN pools \cup {p} |->
                 IF q = p THEN [addresses |-> Addresses(prefix), range |-> range]
                          ELSE pools[q]]
  /\ UNCHANGED subnets

GrowPool(p, prefix) ==
  /\ Edit
  /\ pools' = [pools EXCEPT ![p].addresses = @ \cup Addresses(prefix)]
  /\ UNCHANGED subnets

SetRange(p, range) ==
  /\ Edit
  /\ pools' = [pools EXCEPT ![p].range = range]
  /\ UNCHANGED subnets

CreateSubnet(p, prefix) ==
  /\ Edit
  /\ prefix.bits \in pools[p].range[1]..pools[p].range[2]
  /\ Addresses(prefix) \subseteq pools[p].addresses
  /\ \A s \in subnets : s.pool = p => ~Overlaps(s.prefix, prefix)
  /\ subnets' = subnets \cup {[pool |-> p, prefix |-> prefix]}
  /\ UNCHANGED pools

CreateSubnetWithoutPool(prefix) ==
  /\ Edit
  /\ subnets' = subnets \cup {[pool |-> NoPool, prefix |-> prefix]}
  /\ UNCHANGED pools

DeleteSubnet(s) ==
  /\ Edit
  /\ subnets' = subnets \ {s}
  /\ UNCHANGED pools

---------------------------------------------------------------------------
(* ListSubnetsPerPool                                                      *)

\* Mutant of Requests: the pools first.
RequestsSwapped == <<"pools", "subnets">>

Requests == <<"subnets", "pools">>

Request(r) ==
  /\ next \in 1..Len(Requests) /\ Requests[next] = r
  /\ next' = next + 1
  /\ UNCHANGED <<neutron, samples>>

ListSubnets ==
  /\ Request("subnets")
  /\ allSubnets' = subnets
  /\ UNCHANGED allPools

ListPools ==
  /\ Request("pools")
  /\ allPools' = pools
  /\ UNCHANGED allSubnets

RequestFails ==
  /\ next \in 1..Len(Requests)
  /\ next' = 0
  /\ UNCHANGED <<neutron, allSubnets, allPools, samples>>

\* subnetpoolsWithSubnets: the prefixes of the subnets of pool p.
SubnetsOf(p) == {s.prefix : s \in {t \in allSubnets : t.pool = p}}

\* Mutant of calculateFreeSubnets: a free prefix of just that length is passed over.
calculateFreeTooLong(poolPrefix, subnetsInPool, prefixLength) ==
  LET free == Addresses(poolPrefix) \ UNION {Addresses(s) : s \in subnetsInPool}
  IN  MapThenSumSet(LAMBDA p : 2^(prefixLength - p.bits),
                    {p \in LargestPrefixes(free) : p.bits < prefixLength})

calculateFreeSubnets(poolPrefix, subnetsInPool, prefixLength) ==
  LET free == Addresses(poolPrefix) \ UNION {Addresses(s) : s \in subnetsInPool}
  IN  MapThenSumSet(LAMBDA p : 2^(prefixLength - p.bits),
                    {p \in LargestPrefixes(free) : p.bits <= prefixLength})

\* Mutant of calculateUsedSubnets: the subnets of the pool's other prefixes count too.
calculateUsedAnywhere(inPool, ipPrefix, prefixLength) ==
  Cardinality({s \in inPool : s.bits = prefixLength})

calculateUsedSubnets(inPool, ipPrefix, prefixLength) ==
  Cardinality({s \in inPool : Overlaps(ipPrefix, s) /\ s.bits = prefixLength})

Sample(p, ipPrefix, prefixLength) ==
  [pool |-> p, prefix |-> ipPrefix, length |-> prefixLength,
   total |-> 2^(prefixLength - ipPrefix.bits),
   used |-> calculateUsedSubnets(SubnetsOf(p), ipPrefix, prefixLength),
   free |-> calculateFreeSubnets(ipPrefix, SubnetsOf(p), prefixLength)]

SamplesOf(p) ==
  UNION {{Sample(p, x, l) : l \in {l \in allPools[p].range[1]..allPools[p].range[2] :
                                     l >= x.bits}} :
           x \in LargestPrefixes(allPools[p].addresses)}

\* The loop over the pools, their prefixes and the lengths of each.
Send ==
  /\ next = Len(Requests) + 1
  /\ next' = next + 1
  /\ samples' = UNION {SamplesOf(p) : p \in DOMAIN allPools}
  /\ UNCHANGED <<neutron, allSubnets, allPools>>

Returned == next \in {0, Len(Requests) + 2}

Done == Returned /\ UNCHANGED vars

Next ==
  \/ \E p \in Pools, x \in AllPrefixes, r \in Ranges : CreatePool(p, x, r)
  \/ \E p \in DOMAIN pools :
       \/ \E x \in AllPrefixes : GrowPool(p, x) \/ CreateSubnet(p, x)
       \/ \E r \in Ranges : SetRange(p, r)
  \/ \E x \in AllPrefixes : CreateSubnetWithoutPool(x)
  \/ \E s \in subnets : DeleteSubnet(s)
  \/ ListSubnets \/ ListPools \/ RequestFails \/ Send \/ Done

Spec == Init /\ [][Next]_vars

---------------------------------------------------------------------------
(* Properties.                                                             *)

\* subnets_free is the number of prefixes of that length in the prefix of the pool
\* that meet no subnet of the pool, whatever the lengths of the subnets: longer,
\* shorter or as long (neutron.go:705-728).
FreeIsExact ==
  \A s \in samples :
    s.free = Cardinality({x \in Prefixes(s.length) :
                            /\ Addresses(x) \subseteq Addresses(s.prefix)
                            /\ \A n \in SubnetsOf(s.pool) : ~Overlaps(x, n)})

\* What is free and what is used are never more than there is, although the subnets
\* may be older than the pool's prefixes (neutron.go:732-744, 785-796).
FreeAndUsedFit == \A s \in samples : s.free + s.used <= s.total

\* How many prefixes of a length the used ones of some samples hold.
UsedInAll(set, length) == MapThenSumSet(LAMBDA t : t.used * 2^(length - t.length), set)

\* At the greatest length of a pool whose subnets all have lengths that it reports,
\* every prefix is either free or within one subnet that is reported: nothing is
\* lost between the two answers and nothing is counted twice (neutron.go:748-799).
AllAccounted ==
  \A s \in samples :
    LET range == allPools[s.pool].range
        same  == {t \in samples : t.pool = s.pool /\ t.prefix = s.prefix}
    IN  /\ s.length = range[2]
        /\ \A n \in SubnetsOf(s.pool) : n.bits \in range[1]..range[2]
        => s.total = s.free + UsedInAll(same, s.length)
============================================================================
