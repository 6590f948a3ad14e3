--------------------------- MODULE SequenceFacts ---------------------------
(***************************************************************************)
(* What the proofs use of sequences: channels, queues and lists of calls   *)
(* that grow at the end and shrink at the front.                           *)
(***************************************************************************)
EXTENDS Integers, Sequences, TLAPS

\* What the first message of a nonempty channel and the rest of it are.
LEMMA TailFacts ==
    ASSUME NEW S, NEW s \in Seq(S), s # << >>
    PROVE  /\ Head(s) \in S /\ Head(s) = s[1]
           /\ Len(s) \in Nat /\ Len(s) >= 1
           /\ Tail(s) \in Seq(S)
           /\ Len(Tail(s)) = Len(s) - 1
           /\ \A i \in 1..Len(Tail(s)) : Tail(s)[i] = s[i + 1]
  OBVIOUS

\* What a channel is after a message was appended.
LEMMA AppendFacts ==
    ASSUME NEW S, NEW s \in Seq(S), NEW e \in S
    PROVE  /\ Append(s, e) \in Seq(S)
           /\ Append(s, e) # << >>
           /\ Len(s) \in Nat
           /\ Len(Append(s, e)) = Len(s) + 1
           /\ Append(s, e)[Len(s) + 1] = e
           /\ \A i \in 1..Len(s) : Append(s, e)[i] = s[i]
  OBVIOUS

\* Appending to the empty sequence.
LEMMA AppendEmpty ==
    ASSUME NEW S, NEW e \in S
    PROVE  /\ Append(<< >>, e) = <<e>>
           /\ <<e>> \in Seq(S) /\ <<e>> # << >>
           /\ Len(<<e>>) = 1 /\ <<e>>[1] = e /\ DOMAIN <<e>> = {1}
  OBVIOUS

\* The empty sequence is the one of length zero.
LEMMA EmptyFacts ==
    ASSUME NEW S, NEW s \in Seq(S)
    PROVE  Len(s) \in Nat /\ (s = << >> <=> Len(s) = 0)
  OBVIOUS

(***************************************************************************)
(* The same for a sequence whose elements have no common type.             *)
(***************************************************************************)
IsSeq(s) == Len(s) \in Nat /\ s = [i \in 1..Len(s) |-> s[i]]

\* A sequence is one of its own elements.
LEMMA SeqOfRange ==
    ASSUME NEW s, IsSeq(s)
    PROVE  s \in Seq({s[i] : i \in 1..Len(s)})
  <1>1. s \in [1..Len(s) -> {s[i] : i \in 1..Len(s)}]
    BY DEF IsSeq
  <1>. QED
    BY <1>1 DEF IsSeq

\* What has a type is a sequence.
LEMMA TypedIsSeq ==
    ASSUME NEW S, NEW s \in Seq(S)
    PROVE  IsSeq(s)
  BY DEF IsSeq

\* The first message of such a channel and the rest of it.
LEMMA TailOf ==
    ASSUME NEW s, IsSeq(s), s # << >>
    PROVE  /\ IsSeq(Tail(s)) /\ Head(s) = s[1] /\ Len(s) >= 1
           /\ Len(Tail(s)) = Len(s) - 1
           /\ \A i \in 1..Len(Tail(s)) : Tail(s)[i] = s[i + 1] /\ i + 1 \in 1..Len(s)
  <1>. DEFINE S == {s[i] : i \in 1..Len(s)}
  <1>1. s \in Seq(S)
    BY SeqOfRange
  <1>. HIDE DEF S
  <1>2. Tail(s) \in Seq(S)
    BY <1>1
  <1>3. IsSeq(Tail(s))
    BY <1>2, TypedIsSeq
  <1>4. /\ Head(s) = s[1] /\ Len(s) \in Nat /\ Len(s) >= 1 /\ Len(Tail(s)) = Len(s) - 1
        /\ \A i \in 1..Len(Tail(s)) : Tail(s)[i] = s[i + 1]
    BY <1>1, TailFacts
  <1>. QED
    BY <1>3, <1>4

\* Messages that are sent after the others.
LEMMA ConcatOf ==
    ASSUME NEW s, NEW t, IsSeq(s), IsSeq(t)
    PROVE  /\ IsSeq(s \o t)
           /\ Len(s \o t) = Len(s) + Len(t)
           /\ \A i \in 1..Len(s) : (s \o t)[i] = s[i]
           /\ \A i \in 1..Len(t) : (s \o t)[Len(s) + i] = t[i]
           /\ \A i \in 1..(Len(s) + Len(t)) :
                 \/ i \in 1..Len(s) /\ (s \o t)[i] = s[i]
                 \/ i - Len(s) \in 1..Len(t) /\ (s \o t)[i] = t[i - Len(s)]
  <1>. DEFINE S == {s[i] : i \in 1..Len(s)} \cup {t[i] : i \in 1..Len(t)}
  <1>1. s \in [1..Len(s) -> S] /\ t \in [1..Len(t) -> S] /\ Len(s) \in Nat /\ Len(t) \in Nat
    BY DEF IsSeq
  <1>. HIDE DEF S
  <1>2. s \in Seq(S) /\ t \in Seq(S)
    BY <1>1
  <1>3. s \o t \in Seq(S)
    BY <1>2
  <1>4. IsSeq(s \o t)
    BY <1>3, TypedIsSeq
  <1>. QED
    BY <1>1, <1>2, <1>4

\* One message more.
LEMMA AppendOf ==
    ASSUME NEW s, NEW e, IsSeq(s)
    PROVE  /\ IsSeq(Append(s, e))
           /\ Len(Append(s, e)) = Len(s) + 1
           /\ \A i \in 1..Len(s) : Append(s, e)[i] = s[i]
           /\ Append(s, e)[Len(s) + 1] = e
  <1>. DEFINE S == {s[i] : i \in 1..Len(s)} \cup {e}
  <1>1. s \in [1..Len(s) -> S] /\ e \in S /\ Len(s) \in Nat
    BY DEF IsSeq
  <1>. HIDE DEF S
  <1>2. s \in Seq(S)
    BY <1>1
  <1>3. Append(s, e) \in Seq(S)
    BY <1>1, <1>2
  <1>4. IsSeq(Append(s, e))
    BY <1>3, TypedIsSeq
  <1>. QED
    BY <1>1, <1>2, <1>4

\* The empty channel.
LEMMA EmptyOf ==
    ASSUME NEW s, IsSeq(s)
    PROVE  IsSeq(<< >>) /\ Len(<< >>) = 0 /\ (s = << >> <=> Len(s) = 0)
  <1>. DEFINE S == {s[i] : i \in 1..Len(s)}
  <1>1. s \in Seq(S)
    BY SeqOfRange
  <1>. HIDE DEF S
  <1>2. << >> \in Seq(S)
    OBVIOUS
  <1>3. IsSeq(<< >>)
    BY <1>2, TypedIsSeq
  <1>. QED
    BY <1>1, <1>3
=============================================================================
