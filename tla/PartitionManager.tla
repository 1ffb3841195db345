-------------------------- MODULE PartitionManager --------------------------
(***************************************************************************)
(* partition.DefaultManager: the registered orchestrator nodes and the     *)
(* owner of every partition.  Each process that uses partitions keeps a    *)
(* manager of its own and learns of nodes joining and leaving by itself,   *)
(* so the module has several managers.  Every method holds the manager's   *)
(* mutex throughout and is one action.                                     *)
(***************************************************************************)
EXTENDS Integers, FiniteSets

CONSTANTS Managers,         \* processes with a DefaultManager
          NodeIDs,          \* identifiers of orchestrator nodes
          PartitionCount,   \* partitions, never changed
          NoOwner           \* the partition has no entry in partitionOwners

ASSUME PartitionAssumption ==
    /\ PartitionCount \in Nat \ {0}
    /\ IsFiniteSet(NodeIDs)
    /\ NoOwner \notin NodeIDs

VARIABLES nodes,            \* the nodes registered with each manager
          partitionOwners   \* the owner of each partition, by manager

partitionVars == <<nodes, partitionOwners>>

Partitions == 0..(PartitionCount - 1)

PartitionTypeOK ==
    /\ nodes \in [Managers -> SUBSET NodeIDs]
    /\ partitionOwners \in [Managers -> [Partitions -> NodeIDs \cup {NoOwner}]]

PartitionInit ==
    /\ nodes = [m \in Managers |-> {}]
    /\ partitionOwners = [m \in Managers |-> [p \in Partitions |-> NoOwner]]

-----------------------------------------------------------------------------

\* The orders in which "for nodeID := range m.nodes" can list the nodes: Go
\* leaves the order of a map open and picks another one every time.
NodeOrders(S) ==
    LET n == Cardinality(S) IN
    {o \in [0..(n - 1) -> S] : \A i, j \in 0..(n - 1) : o[i] = o[j] => i = j}

NoOwners == [p \in Partitions |-> NoOwner]

MutantSkipsLastNode(S) ==
    IF S = {}
      THEN {NoOwners}
      ELSE {[p \in Partitions |->
               order[IF Cardinality(S) = 1 THEN 0 ELSE p % (Cardinality(S) - 1)]] :
              order \in NodeOrders(S)}

MutantOnePartitionMore(S) ==
    IF S = {}
      THEN {NoOwners}
      ELSE {[p \in 0..PartitionCount |-> order[p % Cardinality(S)]] :
              order \in NodeOrders(S)}

\* What rebalancePartitions can leave behind for the nodes S: round robin over
\* the nodes in some order.
RoundRobin(S) ==
    IF S = {}
      THEN {NoOwners}
      ELSE {[p \in Partitions |-> order[p % Cardinality(S)]] :
              order \in NodeOrders(S)}

rebalancePartitions(m, S) ==
    \E owners \in RoundRobin(S) :
      partitionOwners' = [partitionOwners EXCEPT ![m] = owners]

RegisterNode(m, n) ==
    /\ n \notin nodes[m]
    /\ nodes' = [nodes EXCEPT ![m] = @ \cup {n}]
    /\ rebalancePartitions(m, nodes'[m])

MutantUnregisterKeepsOwners(m, n) ==
    /\ n \in nodes[m]
    /\ nodes' = [nodes EXCEPT ![m] = @ \ {n}]
    /\ UNCHANGED partitionOwners

UnregisterNode(m, n) ==
    /\ n \in nodes[m]
    /\ nodes' = [nodes EXCEPT ![m] = @ \ {n}]
    /\ rebalancePartitions(m, nodes'[m])

Rebalance(m) ==
    /\ rebalancePartitions(m, nodes[m])
    /\ UNCHANGED nodes

PartitionNext ==
    \E m \in Managers :
      \/ \E n \in NodeIDs : RegisterNode(m, n) \/ UnregisterNode(m, n)
      \/ Rebalance(m)

PartitionSpec == PartitionInit /\ [][PartitionNext]_partitionVars

-----------------------------------------------------------------------------

\* GetPartitions of one node.
GetPartitions(m, n) == {p \in Partitions : partitionOwners[m][p] = n}

\* "every partition has exactly one owner": after any sequence of joins and
\* leaves GetOwner answers for every partition with a node that is registered
\* now, or for none when no node is.
OwnersAreRegistered ==
    \A m \in Managers, p \in Partitions :
      IF nodes[m] = {} THEN partitionOwners[m][p] = NoOwner
                       ELSE partitionOwners[m][p] \in nodes[m]

\* "distributes partitions evenly among registered nodes": no node owns two
\* partitions more than another.
PartitionsSharedEvenly ==
    \A m \in Managers : \A a, b \in nodes[m] :
      Cardinality(GetPartitions(m, a)) <= Cardinality(GetPartitions(m, b)) + 1

\* "Get sorted list of node IDs for consistent ordering": managers that know
\* the same nodes assign the partitions alike.
OwnersAgree ==
    \A m1, m2 \in Managers :
      nodes[m1] = nodes[m2] => partitionOwners[m1] = partitionOwners[m2]
=============================================================================
