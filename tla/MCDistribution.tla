--------------------------- MODULE MCDistribution ---------------------------
(***************************************************************************)
(* The operators of Distribution over every input of a bounded set.  A     *)
(* state is one question: a vector to divide, a range to read of a vector  *)
(* in any partition into parts, descriptors to gather, or the processes    *)
(* given to the actors of a program so far.                                *)
(***************************************************************************)
EXTENDS Distribution, FiniteSets

CONSTANTS
    MaxElems,    \* bound: elements of a vector that is read
    MaxProcs,    \* bound: processes of an actor
    MaxParts     \* bound: parts of a vector that is read

ASSUME BoundsAssumption == MaxElems \in Nat /\ MaxProcs \in Nat \ {0} /\ MaxParts \in Nat

VARIABLES question, alloc, given

vars == <<question, alloc, given>>

NoQuestion == [kind |-> "none"]

(***************************************************************************)
(* The partitions of 0..n-1 into parts in order, empty parts included, by  *)
(* the places where they are cut.                                          *)
(***************************************************************************)
Cuts(n, k) == {c \in [0..k -> 0..n] : c[0] = 0 /\ c[k] = n /\ \A i \in 1..k : c[i - 1] <= c[i]}
PartsOf(c, k) == [i \in 1..k |-> [pid |-> (i - 1) % 2, resid |-> i,
                                  offset |-> c[i - 1], size |-> c[i] - c[i - 1]]]

Init ==
    /\ question = NoQuestion
    /\ alloc = Allocator(1, MaxProcs)
    /\ given = << >>

AskRange ==
    /\ question = NoQuestion /\ given = << >>
    /\ \E n \in 0..Word, p \in 1..MaxProcs : question' = [kind |-> "range", n |-> n, p |-> p]
    /\ UNCHANGED <<alloc, given>>

AskPieces ==
    /\ question = NoQuestion /\ given = << >>
    /\ \E n \in 1..MaxElems, k \in 1..MaxParts : \E c \in Cuts(n, k), o \in 0..(n - 1) : \E z \in 0..(n - o) :
          question' = [kind |-> "pieces", dv |-> PartsOf(c, k), n |-> n, offset |-> o, size |-> z]
    /\ UNCHANGED <<alloc, given>>

(***************************************************************************)
(* Each process registers the same number of parts; offsets go past what a *)
(* word holds.                                                             *)
(***************************************************************************)
AskGather ==
    /\ question = NoQuestion /\ given = << >>
    /\ \E p \in 1..2, k \in 1..2 :
          \E off \in [1..p -> [1..k -> {0, 1, Word - 1, Word, 2 * Word + 1}]] :
             question' = [kind |-> "gather",
                          dvs |-> [s \in 1..p |->
                                      [i \in 1..k |-> [pid |-> s, resid |-> k * s + i, size |-> Word + i,
                                                       offset |-> off[s][i]]]]]
    /\ UNCHANGED <<alloc, given>>

Allocate ==
    /\ question = NoQuestion
    /\ \E p \in 0..MaxProcs :
          /\ given' = Append(given, [asked |-> p, pids |-> AllocatedProcs(alloc, p)])
          /\ alloc' = AfterAllocate(alloc, p)
    /\ Len(given) < MaxProcs
    /\ UNCHANGED question

Next == AskRange \/ AskPieces \/ AskGather \/ Allocate

Spec == Init /\ [][Next]_vars

(***************************************************************************)
(* The ranges div_range gives to the processes of an actor are consecutive *)
(* and are the whole vector, and no process has two elements more than     *)
(* another, as long as the number of elements is an int.                   *)
(***************************************************************************)
RangesTile ==
    question.kind = "range" /\ question.n <= IntMax =>
        LET n == question.n
            p == question.p
        IN  /\ Beg(n, 0, p) = 0
            /\ End(n, p - 1, p) = n
            /\ \A s \in 0..(p - 2) : End(n, s, p) = Beg(n, s + 1, p)
            /\ \A s, t \in 0..(p - 1) : PartSize(n, s, p) - PartSize(n, t, p) \in {-1, 0, 1}

(***************************************************************************)
(* The pieces dv_get_part asks for fill the reader's buffer, every byte    *)
(* once and with the byte of the vector that belongs there, and no piece   *)
(* leaves the part it is taken from.                                       *)
(***************************************************************************)
PiecesFillTheBuffer ==
    question.kind = "pieces" =>
        LET pieces == Pieces(question.dv, question.offset, question.size)
            part(i) == CHOOSE k \in DOMAIN question.dv : question.dv[k].resid = pieces[i].resid
            writes == {w \in (DOMAIN pieces) \X (0..question.n) : w[2] < pieces[w[1]].size}
        IN  /\ \A i \in DOMAIN pieces :
                  pieces[i].offset >= 0 /\ pieces[i].size >= 0
                  /\ pieces[i].offset + pieces[i].size <= question.dv[part(i)].size
            /\ \A w \in writes :
                  question.dv[part(w[1])].offset + pieces[w[1]].offset + w[2]
                    = question.offset + pieces[w[1]].dst + w[2]
            /\ {pieces[w[1]].dst + w[2] : w \in writes} = 0..(question.size - 1)
            /\ Cardinality(writes) = question.size

(***************************************************************************)
(* A gathered descriptor has the parts of every process, in the order of   *)
(* the processes, provided that the last offset each registers fits in one *)
(* word: parts_offset does not count the padding, and the high word of     *)
(* that offset is lost.                                                    *)
(***************************************************************************)
GatheredInOrder ==
    question.kind = "gather" /\ (\A s \in DOMAIN question.dvs :
                                    LET dv == question.dvs[s] IN dv[Len(dv)].offset < Word) =>
        LET k == Len(question.dvs[1])
            all == Gathered(question.dvs)
        IN  /\ Len(all) = k * Len(question.dvs)
            /\ \A s \in DOMAIN question.dvs, i \in 1..k : all[k * (s - 1) + i] = question.dvs[s][i]
            /\ ReceivedParts(Cardinality(DOMAIN GatheredBuf(question.dvs))) = Len(all)

(***************************************************************************)
(* No process is given to two actors of a program, whatever the sizes they *)
(* ask for and whether they are granted.                                   *)
(***************************************************************************)
ProcessesGivenOnce ==
    \A i, j \in DOMAIN given :
        /\ given[i].pids \in Seq(1..MaxProcs)
        /\ Len(given[i].pids) \in {0, given[i].asked}
        /\ \A a \in DOMAIN given[i].pids, b \in DOMAIN given[j].pids :
              given[i].pids[a] = given[j].pids[b] => i = j /\ a = b
=============================================================================
