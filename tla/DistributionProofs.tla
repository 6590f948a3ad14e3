------------------------- MODULE DistributionProofs -------------------------
(***************************************************************************)
(* What the runs of MCDistribution check, for every int size: the ranges   *)
(* of every vector tile it, descriptors are gathered in order, and the     *)
(* processes of a program are given once.                                  *)
(***************************************************************************)
EXTENDS MCDistribution, DistributionFacts

(***************************************************************************)
(* What a question of the run is.                                          *)
(***************************************************************************)
QuestionInv ==
    /\ question.kind = "range" => question.n \in Nat /\ question.p \in Nat \ {0}
    /\ question.kind = "gather" =>
          \E p, k \in Nat \ {0} : question.dvs \in Descriptors(p, k)

\* What the run asks is a question about a vector or about descriptors.
LEMMA QuestionInvariant == Spec => []QuestionInv
  <1>1. Init => QuestionInv
    BY DEF Init, NoQuestion, QuestionInv
  <1>2. QuestionInv /\ [Next]_vars => QuestionInv'
    <2>. SUFFICES ASSUME QuestionInv, [Next]_vars PROVE QuestionInv'
      OBVIOUS
    <2>0. Word \in Nat /\ Word > 1
      BY IntMaxAssumption DEF Word
    <2>1. CASE AskRange
      <3>1. PICK n \in 0..Word, p \in 1..MaxProcs : question' = [kind |-> "range", n |-> n, p |-> p]
        BY <2>1 DEF AskRange
      <3>. QED
        BY <2>0, <3>1, BoundsAssumption DEF QuestionInv
    <2>2. CASE AskPieces
      BY <2>2 DEF AskPieces, QuestionInv
    <2>3. CASE AskGather
      <3>0. PICK p \in 1..2, k \in 1..2 :
                \E off \in [1..p -> [1..k -> {0, 1, Word - 1, Word, 2 * Word + 1}]] :
                question' = [kind |-> "gather",
                             dvs |-> [s \in 1..p |->
                                         [i \in 1..k |-> [pid |-> s, resid |-> k * s + i, size |-> Word + i,
                                                          offset |-> off[s][i]]]]]
        BY <2>3 DEF AskGather
      <3>1. PICK off \in [1..p -> [1..k -> {0, 1, Word - 1, Word, 2 * Word + 1}]] :
                question' = [kind |-> "gather",
                             dvs |-> [s \in 1..p |->
                                         [i \in 1..k |-> [pid |-> s, resid |-> k * s + i, size |-> Word + i,
                                                          offset |-> off[s][i]]]]]
        BY <3>0
      <3>2. \A s \in 1..p, i \in 1..k : off[s][i] \in Nat
        <4>1. {0, 1, Word - 1, Word, 2 * Word + 1} \subseteq Nat
          BY <2>0
        <4>2. \A s \in 1..p, i \in 1..k : off[s][i] \in {0, 1, Word - 1, Word, 2 * Word + 1}
          <5>. HIDE DEF Word
          <5>. QED
            BY <3>1
        <4>. QED
          BY <4>1, <4>2
      <3>3. question'.dvs \in Descriptors(p, k)
        BY <2>0, <3>1, <3>2 DEF Descriptors, Part
      <3>4. p \in Nat \ {0} /\ k \in Nat \ {0}
        OBVIOUS
      <3>. QED
        BY <3>1, <3>3, <3>4 DEF QuestionInv
    <2>4. CASE Allocate \/ UNCHANGED vars
      BY <2>4 DEF Allocate, vars, QuestionInv
    <2>. QED
      BY <2>1, <2>2, <2>3, <2>4 DEF Next
  <1>. QED
    BY <1>1, <1>2, PTL DEF Spec

\* div_range cuts every vector of the run as it should.
THEOREM RangesAlwaysTile == Spec => []RangesTile
  <1>1. QuestionInv => RangesTile
    <2>. SUFFICES ASSUME QuestionInv, question.kind = "range", question.n <= IntMax PROVE RangesTile
      BY DEF RangesTile
    <2>1. question.n \in 0..IntMax /\ question.p \in Nat \ {0}
      BY IntMaxAssumption DEF QuestionInv
    <2>. QED
      BY <2>1, DivRangeTiles DEF RangesTile
  <1>. QED
    BY <1>1, QuestionInvariant, PTL

(***************************************************************************)
(* Processes.                                                              *)
(***************************************************************************)

\* What appending does to a sequence.
LEMMA GrantFacts ==
    ASSUME NEW S, NEW s \in Seq(S), NEW e \in S
    PROVE  /\ Append(s, e) \in Seq(S)
           /\ \A i \in DOMAIN s : Append(s, e)[i] = s[i] /\ s[i] \in S
           /\ Append(s, e)[Len(s) + 1] = e
           /\ \A i \in DOMAIN Append(s, e) : i \in DOMAIN s \/ (i = Len(s) + 1 /\ i \notin DOMAIN s)
  OBVIOUS

(***************************************************************************)
(* The allocator keeps the processes from cur_offset on; every process     *)
(* given is below it.                                                      *)
(***************************************************************************)
Grants == [asked : Nat, pids : Seq(1..MaxProcs)]

AllocInv ==
    /\ alloc.cur_offset \in Nat /\ alloc.cur_p \in Nat
    /\ alloc.cur_offset >= 1 /\ alloc.cur_offset + alloc.cur_p = MaxProcs + 1
    /\ given \in Seq(Grants)
    /\ \A i \in DOMAIN given : \A a \in DOMAIN given[i].pids : given[i].pids[a] < alloc.cur_offset
    /\ ProcessesGivenOnce

\* The allocator gives no process twice (ContiguousProcessAllocator).
THEOREM AllocatorGivesOnce == Spec => []ProcessesGivenOnce
  <1>1. Init => AllocInv
    BY BoundsAssumption DEF Init, Allocator, AllocInv, ProcessesGivenOnce
  <1>2. AllocInv /\ [Next]_vars => AllocInv'
    <2>. SUFFICES ASSUME AllocInv, [Next]_vars PROVE AllocInv'
      OBVIOUS
    <2>1. CASE UNCHANGED <<alloc, given>>
      BY <2>1 DEF AllocInv, ProcessesGivenOnce
    <2>2. CASE Allocate
      <3>1. PICK p \in 0..MaxProcs :
                /\ given' = Append(given, [asked |-> p, pids |-> AllocatedProcs(alloc, p)])
                /\ alloc' = AfterAllocate(alloc, p)
        BY <2>2 DEF Allocate
      <3>. DEFINE new == AllocatedProcs(alloc, p)
                  o == alloc.cur_offset
      <3>2. /\ o \in Nat /\ alloc.cur_p \in Nat /\ o >= 1 /\ o + alloc.cur_p = MaxProcs + 1
            /\ given \in Seq(Grants) /\ p \in Nat /\ MaxProcs \in Nat /\ ProcessesGivenOnce
        BY BoundsAssumption DEF AllocInv
      <3>3. /\ new \in Seq(1..MaxProcs)
            /\ \A a \in DOMAIN new : new[a] = o + a - 1 /\ a \in Nat /\ a >= 1 /\ a <= p
            /\ Len(new) \in {0, p}
            /\ alloc'.cur_offset \in Nat /\ alloc'.cur_p \in Nat /\ alloc'.cur_offset >= o
            /\ alloc'.cur_offset + alloc'.cur_p = MaxProcs + 1
            /\ \A a \in DOMAIN new : new[a] < alloc'.cur_offset
        <4>1. CASE alloc.cur_p < p
          BY <3>1, <3>2, <4>1 DEF AllocatedProcs, AfterAllocate
        <4>2. CASE ~ (alloc.cur_p < p)
          <5>1. new = [i \in 1..p |-> o + i - 1]
            BY <4>2 DEF AllocatedProcs
          <5>2. \A i \in 1..p : o + i - 1 \in 1..MaxProcs
            BY <3>2, <4>2
          <5>3. new \in Seq(1..MaxProcs) /\ Len(new) = p /\ DOMAIN new = 1..p
            BY <3>2, <5>1, <5>2
          <5>4. alloc' = [cur_offset |-> o + p, cur_p |-> alloc.cur_p - p]
            BY <3>1, <4>2 DEF AfterAllocate
          <5>5. \A a \in 1..p : new[a] = o + a - 1
            BY <5>1
          <5>. HIDE DEF new, o
          <5>. QED
            BY <3>2, <4>2, <5>3, <5>4, <5>5
        <4>. QED
          BY <4>1, <4>2
      <3>. HIDE DEF new, o
      <3>. DEFINE e == [asked |-> p, pids |-> new]
      <3>4. e \in Grants /\ e.asked = p /\ e.pids = new /\ given' = Append(given, e)
        BY <3>1, <3>2, <3>3 DEF Grants, new
      <3>. HIDE DEF e
      <3>5. /\ given' \in Seq(Grants)
            /\ \A i \in DOMAIN given : given'[i] = given[i]
            /\ given'[Len(given) + 1] = e
            /\ \A i \in DOMAIN given' : i \in DOMAIN given \/ (i = Len(given) + 1 /\ i \notin DOMAIN given)
        BY <3>2, <3>4, GrantFacts
      <3>6. \A i \in DOMAIN given : \A a \in DOMAIN given[i].pids : given[i].pids[a] < o
        BY DEF AllocInv, o
      <3>7. \A i \in DOMAIN given : \A a \in DOMAIN given[i].pids : given[i].pids[a] \in Nat
        <4>. SUFFICES ASSUME NEW i \in DOMAIN given, NEW a \in DOMAIN given[i].pids PROVE given[i].pids[a] \in Nat
          OBVIOUS
        <4>1. given[i] \in Grants
          BY <3>2, GrantFacts
        <4>2. given[i].pids \in Seq(1..MaxProcs)
          BY <4>1 DEF Grants
        <4>. QED
          BY <3>2, <4>2
      <3>8. \A i \in DOMAIN given' : \A a \in DOMAIN given'[i].pids : given'[i].pids[a] < alloc'.cur_offset
        <4>. SUFFICES ASSUME NEW i \in DOMAIN given', NEW a \in DOMAIN given'[i].pids
                      PROVE  given'[i].pids[a] < alloc'.cur_offset
          OBVIOUS
        <4>1. CASE i \in DOMAIN given
          <5>1. given'[i].pids[a] \in Nat /\ given'[i].pids[a] < o
            BY <3>5, <3>6, <3>7, <4>1
          <5>. QED
            BY <3>2, <3>3, <5>1
        <4>2. CASE i = Len(given) + 1
          BY <3>3, <3>4, <3>5, <4>2
        <4>. QED
          BY <3>5, <4>1, <4>2
      <3>9. ProcessesGivenOnce'
        <4>. SUFFICES ASSUME NEW i \in DOMAIN given', NEW j \in DOMAIN given'
                      PROVE  /\ given'[i].pids \in Seq(1..MaxProcs)
                             /\ Len(given'[i].pids) \in {0, given'[i].asked}
                             /\ \A a \in DOMAIN given'[i].pids, b \in DOMAIN given'[j].pids :
                                   given'[i].pids[a] = given'[j].pids[b] => i = j /\ a = b
          BY DEF ProcessesGivenOnce
        <4>0. \A l \in DOMAIN given : \A a \in DOMAIN given[l].pids, b \in DOMAIN new : given[l].pids[a] # new[b]
          <5>. SUFFICES ASSUME NEW l \in DOMAIN given, NEW a \in DOMAIN given[l].pids, NEW b \in DOMAIN new
                        PROVE  given[l].pids[a] # new[b]
            OBVIOUS
          <5>1. given[l].pids[a] \in Nat /\ given[l].pids[a] < o
            BY <3>6, <3>7
          <5>2. new[b] = o + b - 1 /\ b \in Nat /\ b >= 1
            BY <3>3
          <5>. QED
            BY <3>2, <5>1, <5>2
        <4>1. CASE i \in DOMAIN given /\ j \in DOMAIN given
          <5>1. given'[i] = given[i] /\ given'[j] = given[j]
            BY <3>5, <4>1
          <5>2. /\ given[i].pids \in Seq(1..MaxProcs)
                /\ Len(given[i].pids) \in {0, given[i].asked}
                /\ \A a \in DOMAIN given[i].pids, b \in DOMAIN given[j].pids :
                      given[i].pids[a] = given[j].pids[b] => i = j /\ a = b
            BY <3>2, <4>1, Zenon DEF ProcessesGivenOnce
          <5>. QED
            BY <5>1, <5>2, Zenon
        <4>2. CASE i \in DOMAIN given /\ j = Len(given) + 1
          <5>1. given'[i] = given[i] /\ given'[j].pids = new
            BY <3>4, <3>5, <4>2
          <5>2. given[i].pids \in Seq(1..MaxProcs) /\ Len(given[i].pids) \in {0, given[i].asked}
            BY <3>2, <4>2 DEF ProcessesGivenOnce
          <5>. QED
            BY <4>0, <4>2, <5>1, <5>2
        <4>3. CASE i = Len(given) + 1 /\ j \in DOMAIN given
          <5>1. given'[j] = given[j] /\ given'[i].pids = new /\ given'[i].asked = p
            BY <3>4, <3>5, <4>3
          <5>. QED
            BY <3>3, <4>0, <4>3, <5>1
        <4>4. CASE i = Len(given) + 1 /\ j = Len(given) + 1
          <5>1. ASSUME NEW a \in DOMAIN new, NEW b \in DOMAIN new, new[a] = new[b] PROVE a = b
            <6>1. new[a] = o + a - 1 /\ new[b] = o + b - 1 /\ a \in Nat /\ b \in Nat
              BY <3>3, Zenon
            <6>2. o + a - 1 = o + b - 1
              BY <5>1, <6>1, Zenon
            <6>3. o \in Nat
              BY <3>2
            <6>. QED
              BY <6>1, <6>2, <6>3
          <5>2. given'[i].pids = new /\ given'[i].asked = p /\ given'[j].pids = new
            BY <3>4, <3>5, <4>4
          <5>. QED
            BY <3>3, <4>4, <5>1, <5>2
        <4>. QED
          BY <3>5, <4>1, <4>2, <4>3, <4>4
      <3>. QED
        BY <3>2, <3>3, <3>5, <3>8, <3>9 DEF AllocInv
    <2>. QED
      BY <2>1, <2>2 DEF Next, AskRange, AskPieces, AskGather, vars
  <1>3. AllocInv => ProcessesGivenOnce
    BY DEF AllocInv
  <1>. QED
    BY <1>1, <1>2, <1>3, PTL DEF Spec

\* The descriptors of the run are gathered in order.
THEOREM AlwaysGatheredInOrder == Spec => []GatheredInOrder
  <1>1. QuestionInv => GatheredInOrder
    <2>. DEFINE dvs == question.dvs
    <2>. SUFFICES ASSUME QuestionInv, question.kind = "gather",
                         \A s \in DOMAIN dvs : dvs[s][Len(dvs[s])].offset < Word
                  PROVE  GatheredInOrder
      BY DEF GatheredInOrder
    <2>1. PICK p, k \in Nat \ {0} : dvs \in Descriptors(p, k)
      BY DEF QuestionInv
    <2>. HIDE DEF dvs
    <2>2. DOMAIN dvs = 1..p /\ Len(dvs) = p /\ \A s \in 1..p : Len(dvs[s]) = k
      <3>1. DOMAIN dvs = 1..p /\ Len(dvs) = p
        BY <2>1 DEF Descriptors
      <3>2. ASSUME NEW s \in 1..p PROVE Len(dvs[s]) = k
        <4>1. dvs[s] \in [1..k -> Part]
          BY <2>1 DEF Descriptors
        <4>. QED
          BY <4>1
      <3>. QED
        BY <3>1, <3>2
    <2>3. \A s \in 1..p : dvs[s][k].offset < Word
      BY <2>2 DEF dvs
    <2>4. /\ Len(Gathered(dvs)) = k * p
          /\ \A s \in 1..p, i \in 1..k : Gathered(dvs)[k * (s - 1) + i] = dvs[s][i]
          /\ ReceivedParts(Cardinality(DOMAIN GatheredBuf(dvs))) = k * p
      BY <2>1, <2>3, GatherKeepsParts
    <2>5. Len(dvs[1]) = k
      BY <2>2
    <2>. QED
      BY <2>2, <2>4, <2>5 DEF GatheredInOrder, dvs
  <1>. QED
    BY <1>1, QuestionInvariant, PTL

=============================================================================
