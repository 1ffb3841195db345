----------------------- MODULE PartitionManagerProofs -----------------------
(***************************************************************************)
(* Ownership of partitions, for every number of managers, nodes and        *)
(* partitions.  The owners a manager keeps are always a round robin over   *)
(* the nodes it knows now, in some order.  Any such assignment names       *)
(* registered nodes only, and shares the partitions evenly.                *)
(***************************************************************************)
EXTENDS PartitionManager, FiniteSetTheorems, TLAPS

PartitionInv ==
    /\ PartitionTypeOK
    /\ \A m \in Managers : partitionOwners[m] \in RoundRobin(nodes[m])

\* Every owner map round robin can produce is total on the partitions and uses
\* the given nodes, or no node if there is none.
LEMMA RoundRobinRange ==
    ASSUME NEW S \in SUBSET NodeIDs, NEW owners \in RoundRobin(S)
    PROVE  /\ owners \in [Partitions -> NodeIDs \cup {NoOwner}]
           /\ \A p \in Partitions : IF S = {} THEN owners[p] = NoOwner
                                              ELSE owners[p] \in S
<1>1. CASE S = {}
  BY <1>1 DEF RoundRobin, NoOwners
<1>2. CASE S # {}
  <2> DEFINE n == Cardinality(S)
  <2>1. IsFiniteSet(S)
    BY PartitionAssumption, FS_Subset
  <2>2. n \in Nat /\ n # 0
    BY <1>2, <2>1, FS_CardinalityType, FS_EmptySet
  <2>3. PICK order \in NodeOrders(S) :
          owners = [p \in Partitions |-> order[p % n]]
    BY <1>2 DEF RoundRobin
  <2>4. order \in [0..(n - 1) -> S]
    BY DEF NodeOrders
  <2> HIDE DEF n
  <2>5. \A p \in Partitions : p % n \in 0..(n - 1)
    BY <2>2, PartitionAssumption DEF Partitions
  <2>6. \A p \in Partitions : order[p % n] \in S
    BY <2>4, <2>5
  <2> QED BY <1>2, <2>3, <2>6
<1> QED BY <1>1, <1>2

-----------------------------------------------------------------------------
(* Round robin shares evenly.  A node at position i of the order owns the  *)
(* partitions that leave remainder i.  Shifting them by the distance to    *)
(* the position of another node, one round down if that lies behind, maps  *)
(* all but the first of them into the partitions of the other node.        *)

\* A multiple of n that is positive is at least n.
LEMMA PositiveMultiple ==
    ASSUME NEW n \in Nat \ {0}, NEW d \in Int, d >= 1
    PROVE  n * d >= n
OBVIOUS

\* Quotient and remainder of a partition number.
LEMMA DivMod ==
    ASSUME NEW n \in Nat \ {0}, NEW p \in Nat
    PROVE  /\ p \div n \in Nat /\ p % n \in 0..(n - 1)
           /\ p = n * (p \div n) + (p % n)
OBVIOUS

\* They are the only ones.
LEMMA RemainderUnique ==
    ASSUME NEW n \in Nat \ {0}, NEW q \in Nat, NEW r \in 0..(n - 1)
    PROVE  (n * q + r) % n = r
<1> DEFINE p == n * q + r
           k == p \div n
           s == p % n
<1>0. p \in Nat
  OBVIOUS
<1> HIDE DEF p
<1>1. k \in Nat /\ s \in 0..(n - 1) /\ p = n * k + s
  BY <1>0, DivMod
<1> HIDE DEF k, s
<1>2. n * (q - k) = s - r
  BY <1>1 DEF p
<1>3. ~(q - k >= 1)
  <2> SUFFICES ASSUME q - k >= 1 PROVE FALSE
    OBVIOUS
  <2>1. n * (q - k) >= n
    BY <1>1, PositiveMultiple
  <2> QED BY <1>1, <1>2, <2>1
<1>4. ~(k - q >= 1)
  <2> SUFFICES ASSUME k - q >= 1 PROVE FALSE
    OBVIOUS
  <2>1. n * (k - q) >= n
    BY <1>1, PositiveMultiple
  <2>2. n * (k - q) = -(n * (q - k))
    BY <1>1
  <2> QED BY <1>1, <1>2, <2>1, <2>2
<1>5. s = r
  <2>1. q = k
    BY <1>1, <1>3, <1>4
  <2> QED BY <1>1, <1>2, <2>1
<1> QED BY <1>5 DEF s, p

\* The partitions with a remainder.
Share(n, i) == {p \in Partitions : p % n = i}

\* The shares of two positions differ by one partition at most.
LEMMA SharesAreEven ==
    ASSUME NEW n \in Nat \ {0}, NEW i \in 0..(n - 1), NEW j \in 0..(n - 1)
    PROVE  Cardinality(Share(n, i)) <= Cardinality(Share(n, j)) + 1
<1> USE PartitionAssumption
<1> DEFINE A == Share(n, i)
           B == Share(n, j)
<1>0. IsFiniteSet(Partitions)
  BY FS_Interval DEF Partitions
<1>1. /\ IsFiniteSet(A) /\ Cardinality(A) \in Nat
      /\ IsFiniteSet(B) /\ Cardinality(B) \in Nat
  BY <1>0, FS_Subset, FS_CardinalityType DEF Share
<1>2. CASE j <= i
  <2> DEFINE f == [p \in A |-> p - (i - j)]
  <2>1. ASSUME NEW p \in A PROVE f[p] \in B
    <3>1. p \in Nat /\ p <= PartitionCount - 1 /\ p % n = i
      BY DEF Share, Partitions
    <3>2. PICK q \in Nat : p = n * q + i
      BY <3>1, DivMod
    <3>3. f[p] = n * q + j
      BY <3>1, <3>2
    <3>4. f[p] % n = j
      BY <3>3, RemainderUnique
    <3>5. f[p] \in Nat /\ f[p] <= p
      BY <1>2, <3>1, <3>2, <3>3
    <3> QED BY <3>1, <3>4, <3>5 DEF Share, Partitions
  <2>2. ASSUME NEW p \in A, NEW q \in A, f[p] = f[q] PROVE p = q
    BY <2>2 DEF Share, Partitions
  <2>3. f \in Injection(A, B)
    BY <2>1, <2>2 DEF Injection, IsInjective
  <2>4. Cardinality(A) <= Cardinality(B)
    BY <1>1, <2>3, FS_Injection
  <2> HIDE DEF A, B
  <2>5. Cardinality(A) <= Cardinality(B) + 1
    BY <1>1, <2>4
  <2> QED BY <2>5 DEF A, B
<1>3. CASE j > i
  <2> DEFINE f == [p \in A \ {i} |-> p - n + (j - i)]
  <2>1. ASSUME NEW p \in A \ {i} PROVE f[p] \in B
    <3>1. p \in Nat /\ p <= PartitionCount - 1 /\ p % n = i /\ p # i
      BY DEF Share, Partitions
    <3>2. PICK q \in Nat : p = n * q + i
      BY <3>1, DivMod
    <3>3. q # 0
      BY <3>1, <3>2
    <3>4. q - 1 \in Nat /\ n * q = n * (q - 1) + n
      BY <3>3
    <3>5. f[p] = n * (q - 1) + j
      BY <3>1, <3>2, <3>4
    <3>6. f[p] % n = j
      BY <3>4, <3>5, RemainderUnique
    <3>7. f[p] \in Nat /\ f[p] <= p
      <4>1. n * (q - 1) \in Nat
        BY <3>4
      <4> QED BY <3>1, <3>5, <4>1
    <3> QED BY <3>1, <3>6, <3>7 DEF Share, Partitions
  <2>2. ASSUME NEW p \in A \ {i}, NEW q \in A \ {i}, f[p] = f[q] PROVE p = q
    BY <2>2 DEF Share, Partitions
  <2>3. f \in Injection(A \ {i}, B)
    BY <2>1, <2>2 DEF Injection, IsInjective
  <2>4. Cardinality(A \ {i}) <= Cardinality(B)
    BY <1>1, <2>3, FS_Injection
  <2> HIDE DEF A, B
  <2>5. /\ Cardinality(A \ {i}) \in Nat
        /\ Cardinality(A) <= Cardinality(A \ {i}) + 1
    BY <1>1, FS_RemoveElement, FS_CardinalityType
  <2>6. Cardinality(A) <= Cardinality(B) + 1
    BY <1>1, <2>4, <2>5
  <2> QED BY <2>6 DEF A, B
<1> QED BY <1>2, <1>3

\* The share of every node is the share of its position in the order.
LEMMA RoundRobinShares ==
    ASSUME NEW S \in SUBSET NodeIDs, NEW owners \in RoundRobin(S), NEW x \in S
    PROVE  /\ Cardinality(S) \in Nat \ {0}
           /\ \E i \in 0..(Cardinality(S) - 1) :
                {p \in Partitions : owners[p] = x} = Share(Cardinality(S), i)
<1> DEFINE n == Cardinality(S)
<1>1. IsFiniteSet(S)
  BY PartitionAssumption, FS_Subset
<1>2. n \in Nat \ {0}
  BY <1>1, FS_CardinalityType, FS_EmptySet
<1>3. PICK order \in NodeOrders(S) :
        owners = [p \in Partitions |-> order[p % n]]
  BY DEF RoundRobin
<1>4. /\ order \in [0..(n - 1) -> S]
      /\ \A i, j \in 0..(n - 1) : order[i] = order[j] => i = j
  BY DEF NodeOrders
<1>5. order \in Injection(0..(n - 1), S)
  BY <1>4 DEF Injection, IsInjective
<1>6. Cardinality(0..(n - 1)) = n
  BY <1>2, FS_Interval
<1>7. order \in Surjection(0..(n - 1), S)
  BY <1>1, <1>5, <1>6, FS_Injection
<1>8. PICK i \in 0..(n - 1) : order[i] = x
  BY <1>7 DEF Surjection
<1> HIDE DEF n
<1>9. \A p \in Partitions : p % n \in 0..(n - 1)
  BY <1>2, PartitionAssumption, DivMod DEF Partitions
<1>10. \A p \in Partitions : owners[p] = x <=> p % n = i
  BY <1>3, <1>4, <1>8, <1>9
<1>11. {p \in Partitions : owners[p] = x} = Share(n, i)
  BY <1>10 DEF Share
<1> QED BY <1>2, <1>11 DEF n

\* Two such assignments for the same nodes differ by at most one partition in
\* what they give to any two of them.
LEMMA RoundRobinEven ==
    ASSUME NEW S \in SUBSET NodeIDs, NEW o1 \in RoundRobin(S), NEW o2 \in RoundRobin(S),
           NEW a \in S, NEW b \in S
    PROVE  Cardinality({p \in Partitions : o1[p] = a})
             <= Cardinality({p \in Partitions : o2[p] = b}) + 1
<1>1. PICK n : n = Cardinality(S)
  OBVIOUS
<1>2. /\ n \in Nat \ {0}
      /\ \E i \in 0..(n - 1) : {p \in Partitions : o1[p] = a} = Share(n, i)
      /\ \E j \in 0..(n - 1) : {p \in Partitions : o2[p] = b} = Share(n, j)
  BY <1>1, RoundRobinShares
<1> QED BY <1>2, SharesAreEven

-----------------------------------------------------------------------------

\* A rebalance of one manager gives it a round robin over the nodes it was
\* given, and leaves the other managers alone.
LEMMA RebalanceResult ==
    ASSUME PartitionTypeOK, NEW m \in Managers, NEW S \in SUBSET NodeIDs,
           rebalancePartitions(m, S)
    PROVE  /\ partitionOwners' \in
                [Managers -> [Partitions -> NodeIDs \cup {NoOwner}]]
           /\ partitionOwners'[m] \in RoundRobin(S)
           /\ \A x \in Managers : x # m => partitionOwners'[x] = partitionOwners[x]
<1>1. PICK owners \in RoundRobin(S) :
        partitionOwners' = [partitionOwners EXCEPT ![m] = owners]
  BY DEF rebalancePartitions
<1>2. owners \in [Partitions -> NodeIDs \cup {NoOwner}]
  BY RoundRobinRange
<1> QED BY <1>1, <1>2 DEF PartitionTypeOK

\* So after it the invariant holds, whatever nodes the manager has then.
LEMMA RebalanceKeepsInv ==
    ASSUME PartitionInv, NEW m \in Managers,
           nodes' \in [Managers -> SUBSET NodeIDs],
           \A x \in Managers : x # m => nodes'[x] = nodes[x],
           rebalancePartitions(m, nodes'[m])
    PROVE  PartitionInv'
<1>1. nodes'[m] \in SUBSET NodeIDs
  OBVIOUS
<1>2. /\ partitionOwners' \in
           [Managers -> [Partitions -> NodeIDs \cup {NoOwner}]]
      /\ partitionOwners'[m] \in RoundRobin(nodes'[m])
      /\ \A x \in Managers : x # m => partitionOwners'[x] = partitionOwners[x]
  BY <1>1, RebalanceResult DEF PartitionInv
<1>3. ASSUME NEW x \in Managers
      PROVE  partitionOwners'[x] \in RoundRobin(nodes'[x])
  <2>1. CASE x = m
    BY <1>2, <2>1
  <2>2. CASE x # m
    BY <1>2, <2>2 DEF PartitionInv
  <2> QED BY <2>1, <2>2
<1> QED BY <1>2, <1>3 DEF PartitionInv, PartitionTypeOK

\* The invariant holds after any sequence of RegisterNode, UnregisterNode and
\* Rebalance.
LEMMA PartitionInvariant == PartitionSpec => []PartitionInv
<1>1. PartitionInit => PartitionInv
  <2> SUFFICES ASSUME PartitionInit PROVE PartitionInv
    OBVIOUS
  <2>1. PartitionTypeOK
    BY DEF PartitionInit, PartitionTypeOK
  <2>2. \A m \in Managers : nodes[m] = {} /\ partitionOwners[m] = NoOwners
    BY DEF PartitionInit, NoOwners
  <2> QED BY <2>1, <2>2 DEF PartitionInv, RoundRobin
<1>2. PartitionInv /\ [PartitionNext]_partitionVars => PartitionInv'
  <2> SUFFICES ASSUME PartitionInv, [PartitionNext]_partitionVars
               PROVE  PartitionInv'
    OBVIOUS
  <2>0. nodes \in [Managers -> SUBSET NodeIDs]
    BY DEF PartitionInv, PartitionTypeOK
  <2>1. ASSUME NEW m \in Managers, NEW n \in NodeIDs, RegisterNode(m, n)
        PROVE  PartitionInv'
    <3>1. /\ nodes' = [nodes EXCEPT ![m] = nodes[m] \cup {n}]
          /\ rebalancePartitions(m, nodes'[m])
      BY <2>1 DEF RegisterNode
    <3>2. /\ nodes' \in [Managers -> SUBSET NodeIDs]
          /\ \A x \in Managers : x # m => nodes'[x] = nodes[x]
      BY <2>0, <3>1
    <3> QED BY <3>1, <3>2, RebalanceKeepsInv
  <2>2. ASSUME NEW m \in Managers, NEW n \in NodeIDs, UnregisterNode(m, n)
        PROVE  PartitionInv'
    <3>1. /\ nodes' = [nodes EXCEPT ![m] = nodes[m] \ {n}]
          /\ rebalancePartitions(m, nodes'[m])
      BY <2>2 DEF UnregisterNode
    <3>2. /\ nodes' \in [Managers -> SUBSET NodeIDs]
          /\ \A x \in Managers : x # m => nodes'[x] = nodes[x]
      BY <2>0, <3>1
    <3> QED BY <3>1, <3>2, RebalanceKeepsInv
  <2>3. ASSUME NEW m \in Managers, Rebalance(m)
        PROVE  PartitionInv'
    <3>1. nodes' = nodes /\ rebalancePartitions(m, nodes'[m])
      BY <2>3 DEF Rebalance
    <3> QED BY <2>0, <3>1, RebalanceKeepsInv
  <2>4. CASE UNCHANGED partitionVars
    BY <2>4 DEF partitionVars, PartitionInv, PartitionTypeOK
  <2> QED BY <2>1, <2>2, <2>3, <2>4 DEF PartitionNext
<1> QED BY <1>1, <1>2, PTL DEF PartitionSpec

\* Every manager keeps a total map from partitions to nodes it can know.
THEOREM PartitionTypeCorrect == PartitionSpec => []PartitionTypeOK
<1>1. PartitionInv => PartitionTypeOK
  BY DEF PartitionInv
<1> QED BY <1>1, PartitionInvariant, PTL

\* DefaultManager answers for every partition with a node that is registered
\* when it answers, after any sequence of RegisterNode, UnregisterNode and
\* Rebalance.
THEOREM PartitionsHaveRegisteredOwners == PartitionSpec => []OwnersAreRegistered
<1>1. PartitionInv => OwnersAreRegistered
  <2> SUFFICES ASSUME PartitionInv, NEW m \in Managers, NEW p \in Partitions
               PROVE  IF nodes[m] = {} THEN partitionOwners[m][p] = NoOwner
                                       ELSE partitionOwners[m][p] \in nodes[m]
    BY DEF OwnersAreRegistered
  <2>1. nodes[m] \in SUBSET NodeIDs /\ partitionOwners[m] \in RoundRobin(nodes[m])
    BY DEF PartitionInv, PartitionTypeOK
  <2> QED BY <2>1, RoundRobinRange
<1> QED BY <1>1, PartitionInvariant, PTL

\* rebalancePartitions shares the partitions evenly among the nodes that are
\* registered, for any number of nodes and partitions and whatever order the
\* map is ranged over in: no node owns two partitions more than another.
THEOREM PartitionsAreSharedEvenly == PartitionSpec => []PartitionsSharedEvenly
<1>1. PartitionInv => PartitionsSharedEvenly
  <2> SUFFICES ASSUME PartitionInv, NEW m \in Managers,
                      NEW a \in nodes[m], NEW b \in nodes[m]
               PROVE  Cardinality(GetPartitions(m, a))
                        <= Cardinality(GetPartitions(m, b)) + 1
    BY DEF PartitionsSharedEvenly
  <2>1. nodes[m] \in SUBSET NodeIDs /\ partitionOwners[m] \in RoundRobin(nodes[m])
    BY DEF PartitionInv, PartitionTypeOK
  <2> QED BY <2>1, RoundRobinEven DEF GetPartitions
<1> QED BY <1>1, PartitionInvariant, PTL

\* Managers that know the same nodes may give a partition to different ones (run
\* partitions_disagree), but load every node alike, to within one partition.
LoadsAgree ==
    \A m1, m2 \in Managers : nodes[m1] = nodes[m2] =>
      \A a \in nodes[m1] :
        Cardinality(GetPartitions(m1, a)) <= Cardinality(GetPartitions(m2, a)) + 1

\* What is left of "consistent ordering" without the sort: for any number of
\* nodes and partitions and any orders of the map, managers with the same nodes
\* agree on how much each node owns, though not on what.
THEOREM ManagersAgreeOnLoads == PartitionSpec => []LoadsAgree
<1>1. PartitionInv => LoadsAgree
  <2> SUFFICES ASSUME PartitionInv, NEW m1 \in Managers, NEW m2 \in Managers,
                      nodes[m1] = nodes[m2], NEW a \in nodes[m1]
               PROVE  Cardinality(GetPartitions(m1, a))
                        <= Cardinality(GetPartitions(m2, a)) + 1
    BY DEF LoadsAgree
  <2>1. /\ nodes[m1] \in SUBSET NodeIDs
        /\ partitionOwners[m1] \in RoundRobin(nodes[m1])
        /\ partitionOwners[m2] \in RoundRobin(nodes[m1])
    BY DEF PartitionInv, PartitionTypeOK
  <2> QED BY <2>1, RoundRobinEven DEF GetPartitions
<1> QED BY <1>1, PartitionInvariant, PTL
=============================================================================
