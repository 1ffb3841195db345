------------------------ MODULE WriteAheadLogProofs ------------------------
(***************************************************************************)
(* Proofs about the write-ahead log, for every set of records and every    *)
(* bound.  Replay finds entries by position and Checkpoint names them by   *)
(* number; the invariant that ties the two is that the entries held are    *)
(* the last Len(entries) ones, all of them until Close.                    *)
(***************************************************************************)
EXTENDS WriteAheadLog, TLAPS

WalInv ==
    /\ WalTypeOK
    /\ SequencesContiguous
    /\ Len(entries) <= sequence
    /\ committed <= sequence
    /\ ~closed => Len(entries) = sequence

\* The log starts in the invariant.
LEMMA WalInitInv == WalInit => WalInv
<1> SUFFICES ASSUME WalInit
             PROVE  WalInv
  OBVIOUS
<1>1. /\ entries \in Seq(Entry)
      /\ Len(entries) = 0
      /\ DOMAIN entries = {}
  BY DEF WalInit
<1>2. closed \in BOOLEAN
  BY DEF WalInit
<1>3. /\ sequence \in 0..MaxSequence
      /\ committed \in 0..MaxSequence
      /\ Len(entries) <= sequence
      /\ committed <= sequence
      /\ Len(entries) = sequence
  BY <1>1, MaxSequenceAssumption DEF WalInit
<1> QED BY <1>1, <1>2, <1>3 DEF WalInv, WalTypeOK, SequencesContiguous

\* Every method of the logger keeps it.
LEMMA WalNextInv == WalInv /\ [WalNext]_walVars => WalInv'
<1> SUFFICES ASSUME WalInv, [WalNext]_walVars
             PROVE  WalInv'
  OBVIOUS
<1> USE MaxSequenceAssumption DEF WalInv, WalTypeOK, SequencesContiguous
<1>1. ASSUME NEW rec \in Records, AppendEntry(rec)
      PROVE  WalInv'
  <2> DEFINE e == [seq |-> sequence + 1, rec |-> rec]
  <2>1. /\ sequence' = sequence + 1
        /\ sequence' \in 1..MaxSequence
        /\ entries' = Append(entries, e)
        /\ committed' = committed
        /\ closed' = closed
    BY <1>1 DEF AppendEntry
  <2>2. e \in Entry
    BY <2>1 DEF Entry
  <2>3. /\ entries' \in Seq(Entry)
        /\ Len(entries') = Len(entries) + 1
    BY <2>1, <2>2
  <2>4. \A i \in DOMAIN entries' :
          entries'[i].seq = sequence' - Len(entries') + i
    <3> SUFFICES ASSUME NEW i \in 1..(Len(entries) + 1)
                 PROVE  entries'[i].seq = sequence + 1 - (Len(entries) + 1) + i
      BY <2>1, <2>3
    <3>1. CASE i = Len(entries) + 1
      BY <2>1, <3>1
    <3>2. CASE i \in 1..Len(entries)
      <4>1. entries'[i] = entries[i]
        BY <2>1, <2>2, <3>2
      <4>2. entries[i].seq = sequence - Len(entries) + i
        BY <3>2
      <4> QED BY <4>1, <4>2, <2>1, <3>2
    <3> QED BY <3>1, <3>2
  <2> QED BY <2>1, <2>3, <2>4
<1>2. ASSUME NEW seq \in 0..MaxSequence, Checkpoint(seq)
      PROVE  WalInv'
  BY <1>2 DEF Checkpoint
<1>3. CASE Close
  BY <1>3 DEF Close
<1>4. CASE UNCHANGED walVars
  BY <1>4 DEF walVars
<1> QED BY <1>1, <1>2, <1>3, <1>4 DEF WalNext

\* In a state of the invariant Replay is exact.
LEMMA ReplayFromInv == WalInv => ReplayExact
<1> SUFFICES ASSUME WalInv, ~closed
             PROVE  /\ Len(Replay) = sequence - committed
                    /\ \A i \in DOMAIN Replay : Replay[i].seq = committed + i
  BY DEF ReplayExact
<1> USE MaxSequenceAssumption DEF WalInv, WalTypeOK, SequencesContiguous
<1>1. /\ entries \in Seq(Entry)
      /\ Len(entries) = sequence
      /\ committed \in Nat
      /\ sequence \in Nat
      /\ committed <= sequence
  OBVIOUS
<1>2. CASE committed >= Len(entries)
  <2>1. Replay = <<>>
    BY <1>2 DEF Replay
  <2> QED BY <2>1, <1>1, <1>2
<1>3. CASE committed < Len(entries)
  <2>1. Replay = SubSeq(entries, committed + 1, Len(entries))
    BY <1>1, <1>3 DEF Replay
  <2>2. /\ Len(Replay) = sequence - committed
        /\ \A i \in 1..(sequence - committed) : Replay[i] = entries[committed + i]
    BY <1>1, <1>3, <2>1
  <2>3. DOMAIN Replay = 1..(sequence - committed)
    BY <1>1, <1>3, <2>1
  <2>4. ASSUME NEW i \in 1..(sequence - committed)
        PROVE  entries[committed + i].seq = committed + i
    <3>1. committed + i \in DOMAIN entries
      BY <1>1
    <3> QED BY <3>1, <1>1
  <2> QED BY <2>2, <2>3, <2>4
<1> QED BY <1>1, <1>2, <1>3

\* The invariant holds in every reachable state.
THEOREM WalInvariant == WalSpec => []WalInv
<1>1. WalInit => WalInv
  BY WalInitInv
<1>2. WalInv /\ [WalNext]_walVars => WalInv'
  BY WalNextInv
<1> QED BY <1>1, <1>2, PTL DEF WalSpec

\* InMemoryLogger keeps its types, whatever is appended.
THEOREM WalTypeCorrect == WalSpec => []WalTypeOK
<1>1. WalInv => WalTypeOK
  BY DEF WalInv
<1> QED BY <1>1, WalInvariant, PTL

\* InMemoryLogger.Replay returns exactly the uncommitted entries in order, as
\* long as the log was not closed, for logs of any length.
THEOREM ReplayIsExact == WalSpec => []ReplayExact
<1> QED BY ReplayFromInv, WalInvariant, PTL

\* The numbers of the entries held stay contiguous, also across Close.
THEOREM SequencesStayContiguous == WalSpec => []SequencesContiguous
<1>1. WalInv => SequencesContiguous
  BY DEF WalInv
<1> QED BY <1>1, WalInvariant, PTL
=============================================================================
