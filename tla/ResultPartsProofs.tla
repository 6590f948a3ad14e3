------------------------- MODULE ResultPartsProofs --------------------------
(***************************************************************************)
(* Why the keys of parts never meet, why a reader gets no more pieces than *)
(* it waits for, and why a part that is released is there.                 *)
(*                                                                         *)
(* The parts of a process get keys from two counters.  The head of an      *)
(* actor counts down and gives the keys of all its processes; the process  *)
(* itself counts up.  A key goes from the head's answer to a message of    *)
(* the program and from there to the store, and is at one of these places  *)
(* only (KeyInv).  Every head counts from the same number, so two of them  *)
(* that give keys to one process give the same ones: the hypothesis        *)
(* SameHead excludes that, and the code does not.  Without it the          *)
(* theorems fail: keys meet (run keys_meet), stale requests are served.    *)
(*                                                                         *)
(* A key is thus stored once, and a request that stays in the table after  *)
(* it was served is not served again: the pieces on their way and those    *)
(* not sent yet are never more than the receives a reader posted (ReadInv). *)
(*                                                                         *)
(* A reader that has all its pieces leaves every part it met in the store  *)
(* (PlaceInv).  The processes of an actor together meet every part of the  *)
(* vector they copy, when its elements are counted by an int (SizeInv).    *)
(***************************************************************************)
EXTENDS ResultParts, DistributionFacts, SequenceFacts

\* The inductive invariant.
\* Head h gives keys to process p.
GivenBy(p, h) == \E g \in Groups : g[1] = h /\ \E i \in DOMAIN g : g[i] = p

\* The actors that live on a process, one after the other, have the same head.
SameHead == \A f, g \in Groups : Share(f, g) => f[1] = g[1]

\* The keys head h has given, and those process p took itself.
Given(p, key) == \E h \in Ranks : GivenBy(p, h) /\ localKey[h] < key /\ key <= -1
Taken(p, key) == 0 <= key /\ key < nextKey[p]

KeyTypes ==
    /\ DOMAIN mgmt = Procs /\ DOMAIN reply = Ranks /\ DOMAIN store = Ranks
    /\ \A c \in Procs : DOMAIN mgmt[c] = Ranks
    /\ \A c \in Procs, p \in Ranks : IsSeq(mgmt[c][p])
    /\ \A h \in Ranks : IsSeq(reply[h]) /\ \A i \in 1..Len(reply[h]) : IsSeq(reply[h][i])
    /\ nextKey \in [Ranks -> Nat]
    /\ localKey \in [Ranks -> Int] /\ \A h \in Ranks : localKey[h] <= -1

\* What process c may have sent to p.
MayBeSent(c, p, m) ==
    \/ m.type \in {"GET", "RELEASE"}
    \/ m.type = "DISTRIBUTE" /\ m.group \in Groups /\ m.group[1] = p
    \/ /\ m.type = "STORE" /\ m.resid \in Int
       /\ (c = Client /\ Given(p, m.resid)) \/ (c = p /\ Taken(p, m.resid))

SentInv == \A c \in Procs, p \in Ranks : \A i \in 1..Len(mgmt[c][p]) : MayBeSent(c, p, mgmt[c][p][i])

\* A key is on its way once, and not yet in the store.
Storing(c, p, i) == i \in 1..Len(mgmt[c][p]) /\ mgmt[c][p][i].type = "STORE"

OnceInv ==
    \A c \in Procs, p \in Ranks : \A i \in 1..Len(mgmt[c][p]) : Storing(c, p, i) =>
        /\ mgmt[c][p][i].resid \notin DOMAIN store[p]
        /\ \A j \in 1..Len(mgmt[c][p]) : Storing(c, p, j) /\ i # j => mgmt[c][p][i].resid # mgmt[c][p][j].resid

StoredInv == \A p \in Ranks : \A key \in DOMAIN store[p] : key \in Int /\ (Given(p, key) \/ Taken(p, key))

\* The keys of a descriptor that the program did not receive are new.
NewKey(h, part) ==
    /\ part.pid \in Ranks /\ part.resid \in Int
    /\ GivenBy(part.pid, h) /\ localKey[h] < part.resid /\ part.resid <= -1
    /\ part.resid \notin DOMAIN store[part.pid]
    /\ \A i \in 1..Len(mgmt[Client][part.pid]) :
          Storing(Client, part.pid, i) => mgmt[Client][part.pid][i].resid # part.resid

NewInv ==
    \A h \in Ranks : \A i \in 1..Len(reply[h]) : \A k \in 1..Len(reply[h][i]) : NewKey(h, reply[h][i][k])

ApartInv ==
    \A h \in Ranks : \A i, j \in 1..Len(reply[h]) :
        \A k \in 1..Len(reply[h][i]), l \in 1..Len(reply[h][j]) :
            i # j \/ k # l => reply[h][i][k].resid # reply[h][j][l].resid

\* Descriptors are sequences of parts.
LengthInv ==
    /\ DOMAIN dvs = Vectors /\ \A v \in Vectors : Len(dvs[v]) \in Nat
    /\ DOMAIN made = Ranks /\ \A r \in Ranks : Len(made[r]) \in Nat

KeyInv == KeyTypes /\ SentInv /\ OnceInv /\ StoredInv /\ NewInv /\ ApartInv

-----------------------------------------------------------------------------
\* Steps that store nothing.

\* What OnceInv says of one message.
LEMMA StoringOnce ==
    ASSUME OnceInv, NEW c \in Procs, NEW p \in Ranks, NEW i \in 1..Len(mgmt[c][p]), Storing(c, p, i)
    PROVE  /\ mgmt[c][p][i].resid \notin DOMAIN store[p]
           /\ \A j \in 1..Len(mgmt[c][p]) :
                 Storing(c, p, j) /\ i # j => mgmt[c][p][i].resid # mgmt[c][p][j].resid
  BY DEF OnceInv

\* Answers that stay where they are stay apart.
LEMMA ApartKept ==
    ASSUME ApartInv, reply' = reply
    PROVE  ApartInv'
  <1>. SUFFICES ASSUME NEW h \in Ranks, NEW i \in 1..Len(reply'[h]), NEW j \in 1..Len(reply'[h]),
                       NEW k \in 1..Len(reply'[h][i]), NEW l \in 1..Len(reply'[h][j]), i # j \/ k # l
                PROVE  reply'[h][i][k].resid # reply'[h][j][l].resid
    BY Zenon DEF ApartInv
  <1>1. /\ i \in 1..Len(reply[h]) /\ j \in 1..Len(reply[h])
        /\ k \in 1..Len(reply[h][i]) /\ l \in 1..Len(reply[h][j])
    OBVIOUS
  <1>2. reply[h][i][k].resid # reply[h][j][l].resid
    BY <1>1, ZenonT(60) DEF ApartInv
  <1>. QED
    BY <1>2

\* The counters only move away from zero.
CountersGrow ==
    /\ nextKey' \in [Ranks -> Nat] /\ localKey' \in [Ranks -> Int]
    /\ \A p \in Ranks : nextKey[p] <= nextKey'[p] /\ localKey'[p] <= localKey[p]

LEMMA KeysStayGiven ==
    ASSUME KeyTypes, CountersGrow
    PROVE  /\ \A p \in Ranks : \A key \in Int : (Given(p, key) => Given(p, key)') /\ (Taken(p, key) => Taken(p, key)')
           /\ \A c \in Procs, p \in Ranks : \A m : MayBeSent(c, p, m) => MayBeSent(c, p, m)'
  <1>1. ASSUME NEW p \in Ranks, NEW key \in Int
        PROVE  (Given(p, key) => Given(p, key)') /\ (Taken(p, key) => Taken(p, key)')
    <2>1. Taken(p, key) => Taken(p, key)'
      BY DEF Taken, CountersGrow, KeyTypes
    <2>2. ASSUME NEW h \in Ranks, GivenBy(p, h), localKey[h] < key, key <= -1
          PROVE  localKey'[h] < key
      BY <2>2 DEF CountersGrow, KeyTypes
    <2>3. Given(p, key) => Given(p, key)'
      BY <2>2 DEF Given, GivenBy
    <2>. QED
      BY <2>1, <2>3
  <1>2. ASSUME NEW c \in Procs, NEW p \in Ranks, NEW m, MayBeSent(c, p, m)
        PROVE  MayBeSent(c, p, m)'
    BY <1>1, <1>2 DEF MayBeSent
  <1>. QED
    BY <1>1, <1>2

(***************************************************************************)
(* at[c][p][i] is where the i-th message on a channel was before the step; *)
(* a message that was not there stores nothing.                            *)
(***************************************************************************)
Moved(at) ==
    \A c \in Procs, p \in Ranks :
        /\ \A i \in 1..Len(mgmt'[c][p]) :
              \/ at[c][p][i] \in 1..Len(mgmt[c][p]) /\ mgmt'[c][p][i] = mgmt[c][p][at[c][p][i]]
              \/ mgmt'[c][p][i].type # "STORE" /\ MayBeSent(c, p, mgmt'[c][p][i])
        /\ \A i, j \in 1..Len(mgmt'[c][p]) : i # j => at[c][p][i] # at[c][p][j]

LEMMA MovedKeys ==
    ASSUME KeyInv, CountersGrow, NEW at, Moved(at),
           \A p \in Ranks : DOMAIN store'[p] \subseteq DOMAIN store[p]
    PROVE  /\ SentInv' /\ OnceInv' /\ StoredInv'
           /\ \A h \in Ranks : \A part : NewKey(h, part) => NewKey(h, part)'
  <1>0. KeyTypes /\ SentInv /\ OnceInv /\ StoredInv /\ NewInv /\ ApartInv
    BY DEF KeyInv
  <1>a. ASSUME NEW c \in Procs, NEW p \in Ranks, NEW i \in 1..Len(mgmt'[c][p])
        PROVE  \/ at[c][p][i] \in 1..Len(mgmt[c][p]) /\ mgmt'[c][p][i] = mgmt[c][p][at[c][p][i]]
               \/ mgmt'[c][p][i].type # "STORE" /\ MayBeSent(c, p, mgmt'[c][p][i])
    BY Zenon DEF Moved
  <1>1. SentInv'
    <2>. SUFFICES ASSUME NEW c \in Procs, NEW p \in Ranks, NEW i \in 1..Len(mgmt'[c][p])
                  PROVE  MayBeSent(c, p, mgmt[c][p][i])'
      BY Zenon DEF SentInv
    <2>1. MayBeSent(c, p, mgmt'[c][p][i])
      BY <1>0, <1>a, Zenon DEF SentInv
    <2>2. MayBeSent(c, p, mgmt'[c][p][i]) => MayBeSent(c, p, mgmt[c][p][i])'
      BY <1>0, KeysStayGiven, Zenon
    <2>. QED
      BY <2>1, <2>2, Zenon
  <1>2. ASSUME NEW c \in Procs, NEW p \in Ranks, NEW i \in 1..Len(mgmt'[c][p]), Storing(c, p, i)'
        PROVE  /\ at[c][p][i] \in 1..Len(mgmt[c][p]) /\ Storing(c, p, at[c][p][i])
               /\ mgmt'[c][p][i] = mgmt[c][p][at[c][p][i]]
    BY <1>2, <1>a, Zenon DEF Storing
  <1>3. OnceInv'
    <2>. SUFFICES ASSUME NEW c \in Procs, NEW p \in Ranks, NEW i \in 1..Len(mgmt'[c][p]), Storing(c, p, i)'
                  PROVE  /\ mgmt'[c][p][i].resid \notin DOMAIN store'[p]
                         /\ \A j \in 1..Len(mgmt'[c][p]) :
                               Storing(c, p, j)' /\ i # j => mgmt'[c][p][i].resid # mgmt'[c][p][j].resid
      BY DEF OnceInv
    <2>1. mgmt'[c][p][i].resid \notin DOMAIN store'[p]
      <3>1. /\ at[c][p][i] \in 1..Len(mgmt[c][p]) /\ Storing(c, p, at[c][p][i])
            /\ mgmt'[c][p][i] = mgmt[c][p][at[c][p][i]]
        BY <1>2
      <3>2. mgmt[c][p][at[c][p][i]].resid \notin DOMAIN store[p]
        BY <1>0, <3>1, StoringOnce
      <3>. QED
        BY <3>1, <3>2
    <2>2. ASSUME NEW j \in 1..Len(mgmt'[c][p]), Storing(c, p, j)', i # j
          PROVE  mgmt'[c][p][i].resid # mgmt'[c][p][j].resid
      <3>1. at[c][p][i] # at[c][p][j]
        BY <2>2 DEF Moved
      <3>2. /\ at[c][p][i] \in 1..Len(mgmt[c][p]) /\ Storing(c, p, at[c][p][i])
            /\ mgmt'[c][p][i] = mgmt[c][p][at[c][p][i]]
        BY <1>2
      <3>3. /\ at[c][p][j] \in 1..Len(mgmt[c][p]) /\ Storing(c, p, at[c][p][j])
            /\ mgmt'[c][p][j] = mgmt[c][p][at[c][p][j]]
        BY <1>2, <2>2
      <3>. QED
        BY <1>0, <3>1, <3>2, <3>3, StoringOnce, ZenonT(60)
    <2>. QED
      BY <2>1, <2>2
  <1>4. StoredInv'
    <2>. SUFFICES ASSUME NEW p \in Ranks, NEW key \in DOMAIN store'[p]
                  PROVE  key \in Int /\ (Given(p, key) \/ Taken(p, key))'
      BY DEF StoredInv
    <2>1. key \in Int /\ (Given(p, key) \/ Taken(p, key))
      BY <1>0 DEF StoredInv
    <2>. QED
      BY <1>0, <2>1, KeysStayGiven
  <1>5. ASSUME NEW h \in Ranks, NEW part, NewKey(h, part)
        PROVE  NewKey(h, part)'
    <2>1. /\ part.pid \in Ranks /\ part.resid \in Int
          /\ GivenBy(part.pid, h) /\ localKey[h] < part.resid /\ part.resid <= -1
          /\ part.resid \notin DOMAIN store[part.pid]
      BY <1>5 DEF NewKey
    <2>2. localKey'[h] < part.resid
      BY <1>0, <2>1 DEF CountersGrow, KeyTypes
    <2>3. part.resid \notin DOMAIN store'[part.pid]
      BY <2>1
    <2>4. Client \in Procs
      BY DEF Procs
    <2>5. ASSUME NEW i \in 1..Len(mgmt'[Client][part.pid]), Storing(Client, part.pid, i)'
          PROVE  mgmt'[Client][part.pid][i].resid # part.resid
      <3>1. /\ at[Client][part.pid][i] \in 1..Len(mgmt[Client][part.pid])
            /\ Storing(Client, part.pid, at[Client][part.pid][i])
            /\ mgmt'[Client][part.pid][i] = mgmt[Client][part.pid][at[Client][part.pid][i]]
        BY <1>2, <2>1, <2>4, <2>5, ZenonT(60)
      <3>. QED
        BY <1>5, <3>1 DEF NewKey
    <2>. QED
      BY <2>1, <2>2, <2>3, <2>5 DEF NewKey, GivenBy
  <1>. QED
    BY <1>1, <1>3, <1>4, <1>5

\* The same, of a step that leaves the answers of the heads alone.
LEMMA OnlyMoved ==
    ASSUME KeyInv, KeyTypes', CountersGrow, reply' = reply, NEW at, Moved(at),
           \A p \in Ranks : DOMAIN store'[p] \subseteq DOMAIN store[p]
    PROVE  KeyInv'
  <1>0. KeyTypes /\ NewInv /\ ApartInv
    BY DEF KeyInv
  <1>1. /\ SentInv' /\ OnceInv' /\ StoredInv'
        /\ \A h \in Ranks : \A part : NewKey(h, part) => NewKey(h, part)'
    BY MovedKeys
  <1>2. NewInv'
    <2>. SUFFICES ASSUME NEW h \in Ranks, NEW i \in 1..Len(reply'[h]), NEW k \in 1..Len(reply'[h][i])
                  PROVE  NewKey(h, reply[h][i][k])'
      BY Zenon DEF NewInv
    <2>1. NewKey(h, reply'[h][i][k])
      BY <1>0 DEF NewInv
    <2>. QED
      BY <1>1, <2>1
  <1>3. ApartInv'
    BY <1>0, ApartKept
  <1>. QED
    BY <1>1, <1>2, <1>3 DEF KeyInv

\* A step that touches neither channels, stores nor counters.
LEMMA NothingMoved ==
    ASSUME KeyInv, UNCHANGED <<mgmt, reply, store, nextKey, localKey>>
    PROVE  KeyInv'
  <1>. DEFINE at == [c \in Procs |-> [p \in Ranks |-> [i \in 1..Len(mgmt[c][p]) |-> i]]]
  <1>1. KeyTypes
    BY DEF KeyInv
  <1>2. KeyTypes'
    BY <1>1 DEF KeyTypes
  <1>3. CountersGrow
    <2>1. nextKey \in [Ranks -> Nat] /\ localKey \in [Ranks -> Int] /\ nextKey' = nextKey /\ localKey' = localKey
      BY <1>1 DEF KeyTypes
    <2>. QED
      BY <2>1 DEF CountersGrow
  <1>4. Moved(at)
    <2>1. ASSUME NEW c \in Procs, NEW p \in Ranks, NEW i \in 1..Len(mgmt'[c][p])
          PROVE  at[c][p][i] = i /\ i \in 1..Len(mgmt[c][p]) /\ mgmt'[c][p][i] = mgmt[c][p][i]
      <3>1. mgmt' = mgmt
        OBVIOUS
      <3>2. i \in 1..Len(mgmt[c][p])
        BY <3>1, Zenon
      <3>3. at[c] = [q \in Ranks |-> [k \in 1..Len(mgmt[c][q]) |-> k]]
        OBVIOUS
      <3>4. at[c][p] = [k \in 1..Len(mgmt[c][p]) |-> k]
        BY <3>3
      <3>. HIDE DEF at
      <3>. QED
        BY <3>1, <3>2, <3>4
    <2>. HIDE DEF at
    <2>2. ASSUME NEW c \in Procs, NEW p \in Ranks, NEW i \in 1..Len(mgmt'[c][p])
          PROVE  at[c][p][i] \in 1..Len(mgmt[c][p]) /\ mgmt'[c][p][i] = mgmt[c][p][at[c][p][i]]
      BY <2>1
    <2>3. ASSUME NEW c \in Procs, NEW p \in Ranks, NEW i \in 1..Len(mgmt'[c][p]), NEW j \in 1..Len(mgmt'[c][p]), i # j
          PROVE  at[c][p][i] # at[c][p][j]
      BY <2>1, <2>3
    <2>. QED
      BY <2>2, <2>3 DEF Moved
  <1>5. \A p \in Ranks : DOMAIN store'[p] \subseteq DOMAIN store[p]
    OBVIOUS
  <1>6. reply' = reply
    OBVIOUS
  <1>. HIDE DEF at
  <1>. QED
    BY <1>2, <1>3, <1>4, <1>5, <1>6, OnlyMoved

(***************************************************************************)
(* What SendAll adds to the channels of its sender: messages of the mail   *)
(* in their order, at the ends.                                            *)
(***************************************************************************)
Mine(mail, p) == {i \in DOMAIN mail : mail[i].to = p}
Place(c, mail, p, i) == Nth(Mine(mail, p), i - Len(mgmt[c][p]))

LEMMA SendAllEffect ==
    ASSUME KeyTypes, NEW c \in Procs, NEW n \in Nat, NEW mail, DOMAIN mail = 1..n, mgmt' = SendAll(c, mail)
    PROVE  /\ DOMAIN mgmt' = Procs /\ \A d \in Procs : DOMAIN mgmt'[d] = Ranks
           /\ \A d \in Procs \ {c} : mgmt'[d] = mgmt[d]
           /\ \A d \in Procs, p \in Ranks : IsSeq(mgmt'[d][p])
           /\ \A p \in Ranks : /\ Len(mgmt'[c][p]) = Len(mgmt[c][p]) + Cardinality(Mine(mail, p))
                               /\ \A i \in 1..Len(mgmt[c][p]) :
                                     i \in 1..Len(mgmt'[c][p]) /\ mgmt'[c][p][i] = mgmt[c][p][i]
           /\ \A p \in Ranks : \A i \in 1..Len(mgmt'[c][p]) : i \notin 1..Len(mgmt[c][p]) =>
                 /\ Place(c, mail, p, i) \in 1..n /\ mail[Place(c, mail, p, i)].to = p
                 /\ mgmt'[c][p][i] = mail[Place(c, mail, p, i)].msg
           /\ \A p \in Ranks : \A i, j \in 1..Len(mgmt'[c][p]) :
                 i \notin 1..Len(mgmt[c][p]) /\ j \notin 1..Len(mgmt[c][p]) /\ i # j =>
                    Place(c, mail, p, i) # Place(c, mail, p, j)
  <1>. DEFINE new(p) == [i \in 1..Len(Chosen(mail, Mine(mail, p))) |-> Chosen(mail, Mine(mail, p))[i].msg]
  <1>0. DOMAIN mgmt = Procs /\ DOMAIN mgmt[c] = Ranks /\ \A d \in Procs, p \in Ranks : IsSeq(mgmt[d][p]) /\ Len(mgmt[d][p]) \in Nat
    BY DEF KeyTypes, IsSeq
  <1>1. mgmt' = [mgmt EXCEPT ![c] = [p \in Ranks |-> mgmt[c][p] \o new(p)]]
    BY <1>0 DEF SendAll, Mine
  <1>2. ASSUME NEW p \in Ranks
        PROVE  /\ Cardinality(Mine(mail, p)) \in Nat
               /\ IsSeq(new(p)) /\ Len(new(p)) = Cardinality(Mine(mail, p))
               /\ \A k \in 1..Cardinality(Mine(mail, p)) :
                     /\ Nth(Mine(mail, p), k) \in 1..n /\ mail[Nth(Mine(mail, p), k)].to = p
                     /\ new(p)[k] = mail[Nth(Mine(mail, p), k)].msg
               /\ \A k, l \in 1..Cardinality(Mine(mail, p)) : k # l => Nth(Mine(mail, p), k) # Nth(Mine(mail, p), l)
    <2>. DEFINE I == Mine(mail, p)
                s == Chosen(mail, I)
    <2>1. I \subseteq 1..n /\ \A i \in I : i \in 1..n /\ mail[i].to = p
      BY DEF Mine
    <2>. HIDE DEF I
    <2>2. /\ Cardinality(I) \in Nat /\ Len(s) = Cardinality(I)
          /\ \A k \in 1..Cardinality(I) : Nth(I, k) \in I /\ s[k] = mail[Nth(I, k)]
          /\ \A k, l \in 1..Cardinality(I) : k # l => Nth(I, k) # Nth(I, l)
      BY <2>1, ChosenFacts
    <2>. HIDE DEF s
    <2>3. new(p) = [i \in 1..Len(s) |-> s[i].msg]
      BY DEF s, I
    <2>. HIDE DEF new
    <2>4. Len(new(p)) = Len(s) /\ IsSeq(new(p)) /\ \A k \in 1..Len(s) : new(p)[k] = s[k].msg
      BY <2>2, <2>3 DEF IsSeq
    <2>5. \A k \in 1..Cardinality(I) : Nth(I, k) \in 1..n /\ mail[Nth(I, k)].to = p /\ new(p)[k] = mail[Nth(I, k)].msg
      BY <2>1, <2>2, <2>4
    <2>. QED
      BY <2>2, <2>4, <2>5 DEF I
  <1>. HIDE DEF new
  <1>3. /\ DOMAIN mgmt' = Procs /\ \A d \in Procs \ {c} : mgmt'[d] = mgmt[d]
        /\ DOMAIN mgmt'[c] = Ranks /\ \A p \in Ranks : mgmt'[c][p] = mgmt[c][p] \o new(p)
    <2>. DEFINE row == [p \in Ranks |-> mgmt[c][p] \o new(p)]
    <2>1. DOMAIN row = Ranks /\ \A p \in Ranks : row[p] = mgmt[c][p] \o new(p)
      OBVIOUS
    <2>. HIDE DEF row
    <2>2. mgmt' = [mgmt EXCEPT ![c] = row]
      BY <1>1 DEF row
    <2>3. DOMAIN mgmt' = Procs /\ mgmt'[c] = row /\ \A d \in Procs \ {c} : mgmt'[d] = mgmt[d]
      BY <1>0, <2>2
    <2>. QED
      BY <2>1, <2>3
  <1>4. ASSUME NEW p \in Ranks
        PROVE  /\ IsSeq(mgmt'[c][p])
               /\ Len(mgmt'[c][p]) = Len(mgmt[c][p]) + Cardinality(Mine(mail, p))
               /\ \A i \in 1..Len(mgmt[c][p]) : mgmt'[c][p][i] = mgmt[c][p][i]
               /\ \A i \in 1..Cardinality(Mine(mail, p)) : mgmt'[c][p][Len(mgmt[c][p]) + i] = new(p)[i]
    <2>1. IsSeq(mgmt[c][p]) /\ IsSeq(new(p)) /\ mgmt'[c][p] = mgmt[c][p] \o new(p)
      BY <1>0, <1>2, <1>3
    <2>2. /\ IsSeq(mgmt'[c][p])
          /\ Len(mgmt'[c][p]) = Len(mgmt[c][p]) + Len(new(p))
          /\ \A i \in 1..Len(mgmt[c][p]) : mgmt'[c][p][i] = mgmt[c][p][i]
          /\ \A i \in 1..Len(new(p)) : mgmt'[c][p][Len(mgmt[c][p]) + i] = new(p)[i]
      <3>. DEFINE old == mgmt[c][p]
                  add == new(p)
      <3>1. /\ IsSeq(old \o add)
            /\ Len(old \o add) = Len(old) + Len(add)
            /\ \A i \in 1..Len(old) : (old \o add)[i] = old[i]
            /\ \A i \in 1..Len(add) : (old \o add)[Len(old) + i] = add[i]
        <4>1. IsSeq(old) /\ IsSeq(add)
          BY <2>1
        <4>. HIDE DEF old, add
        <4>. QED
          BY ONLY <4>1, ConcatOf
      <3>2. mgmt'[c][p] = old \o add
        BY <2>1
      <3>. QED
        BY <3>1, <3>2
    <2>3. Len(new(p)) = Cardinality(Mine(mail, p))
      BY <1>2
    <2>. QED
      BY <2>2, <2>3
  <1>5. ASSUME NEW p \in Ranks, NEW i \in 1..Len(mgmt'[c][p]), i \notin 1..Len(mgmt[c][p])
        PROVE  /\ i - Len(mgmt[c][p]) \in 1..Cardinality(Mine(mail, p))
               /\ Place(c, mail, p, i) \in 1..n /\ mail[Place(c, mail, p, i)].to = p
               /\ mgmt'[c][p][i] = mail[Place(c, mail, p, i)].msg
    <2>. DEFINE k == i - Len(mgmt[c][p])
    <2>1. k \in 1..Cardinality(Mine(mail, p)) /\ i = Len(mgmt[c][p]) + k
      BY <1>0, <1>2, <1>4, <1>5
    <2>2. Place(c, mail, p, i) = Nth(Mine(mail, p), k)
      BY DEF Place
    <2>. HIDE DEF k
    <2>3. mgmt'[c][p][i] = new(p)[k]
      BY <1>4, <2>1
    <2>. QED
      BY <1>2, <2>1, <2>2, <2>3 DEF k
  <1>6. ASSUME NEW p \in Ranks, NEW i \in 1..Len(mgmt'[c][p]), NEW j \in 1..Len(mgmt'[c][p]),
               i \notin 1..Len(mgmt[c][p]), j \notin 1..Len(mgmt[c][p]), i # j
        PROVE  Place(c, mail, p, i) # Place(c, mail, p, j)
    <2>1. /\ i - Len(mgmt[c][p]) \in 1..Cardinality(Mine(mail, p))
          /\ j - Len(mgmt[c][p]) \in 1..Cardinality(Mine(mail, p))
          /\ i - Len(mgmt[c][p]) # j - Len(mgmt[c][p])
      BY <1>0, <1>2, <1>4, <1>5, <1>6
    <2>. QED
      BY <1>2, <2>1 DEF Place
  <1>7. \A d \in Procs : DOMAIN mgmt'[d] = Ranks /\ \A p \in Ranks : IsSeq(mgmt'[d][p])
    BY <1>0, <1>3, <1>4, ZenonT(60) DEF KeyTypes
  <1>8. \A p \in Ranks : \A i \in 1..Len(mgmt[c][p]) : i \in 1..Len(mgmt'[c][p])
    BY <1>0, <1>2, <1>4
  <1>. QED
    BY <1>3, <1>4, <1>5, <1>6, <1>7, <1>8

\* The counters of a step that leaves them alone.
LEMMA CountersStay ==
    ASSUME KeyTypes, nextKey' = nextKey, localKey' = localKey
    PROVE  CountersGrow
  BY DEF KeyTypes, CountersGrow

\* A step that only sends messages that store nothing.
LEMMA OnlyAsked ==
    ASSUME KeyInv, UNCHANGED <<reply, store, nextKey, localKey>>,
           DOMAIN mgmt' = Procs, \A c \in Procs : DOMAIN mgmt'[c] = Ranks,
           \A c \in Procs, p \in Ranks :
              /\ IsSeq(mgmt'[c][p])
              /\ \A i \in 1..Len(mgmt'[c][p]) :
                    \/ i \in 1..Len(mgmt[c][p]) /\ mgmt'[c][p][i] = mgmt[c][p][i]
                    \/ mgmt'[c][p][i].type # "STORE" /\ MayBeSent(c, p, mgmt'[c][p][i])
    PROVE  KeyInv'
  <1>. DEFINE at == [c \in Procs |-> [p \in Ranks |-> [i \in 1..Len(mgmt'[c][p]) |-> i]]]
  <1>1. KeyTypes
    BY DEF KeyInv
  <1>2. KeyTypes'
    BY <1>1 DEF KeyTypes
  <1>3. CountersGrow
    BY <1>1, CountersStay
  <1>4. ASSUME NEW c \in Procs, NEW p \in Ranks, NEW i \in 1..Len(mgmt'[c][p])
        PROVE  at[c][p][i] = i
    <2>1. at[c] = [q \in Ranks |-> [k \in 1..Len(mgmt'[c][q]) |-> k]]
      OBVIOUS
    <2>2. at[c][p] = [k \in 1..Len(mgmt'[c][p]) |-> k]
      BY <2>1
    <2>. HIDE DEF at
    <2>. QED
      BY <2>2
  <1>. HIDE DEF at
  <1>5. Moved(at)
    <2>2. ASSUME NEW c \in Procs, NEW p \in Ranks, NEW i \in 1..Len(mgmt'[c][p])
          PROVE  \/ at[c][p][i] \in 1..Len(mgmt[c][p]) /\ mgmt'[c][p][i] = mgmt[c][p][at[c][p][i]]
                 \/ mgmt'[c][p][i].type # "STORE" /\ MayBeSent(c, p, mgmt'[c][p][i])
      BY <1>4
    <2>3. ASSUME NEW c \in Procs, NEW p \in Ranks, NEW i \in 1..Len(mgmt'[c][p]), NEW j \in 1..Len(mgmt'[c][p]), i # j
          PROVE  at[c][p][i] # at[c][p][j]
      BY <1>4, <2>3
    <2>. QED
      BY <2>2, <2>3 DEF Moved
  <1>6. reply' = reply /\ \A p \in Ranks : DOMAIN store'[p] \subseteq DOMAIN store[p]
    OBVIOUS
  <1>. QED
    BY <1>2, <1>3, <1>5, <1>6, OnlyMoved

\* The channel a message was taken from.
LEMMA ReceivedEffect ==
    ASSUME KeyTypes, NEW c \in Procs, NEW p \in Ranks, mgmt[c][p] # << >>, mgmt' = Received(c, p)
    PROVE  /\ DOMAIN mgmt' = Procs /\ \A d \in Procs : DOMAIN mgmt'[d] = Ranks
           /\ \A d \in Procs, q \in Ranks : IsSeq(mgmt'[d][q])
           /\ \A d \in Procs, q \in Ranks : d # c \/ q # p => mgmt'[d][q] = mgmt[d][q]
           /\ Len(mgmt[c][p]) \in Nat /\ 1 \in 1..Len(mgmt[c][p]) /\ Head(mgmt[c][p]) = mgmt[c][p][1]
           /\ Len(mgmt'[c][p]) = Len(mgmt[c][p]) - 1
           /\ \A i \in 1..Len(mgmt'[c][p]) : i + 1 \in 1..Len(mgmt[c][p]) /\ mgmt'[c][p][i] = mgmt[c][p][i + 1]
  <1>1. DOMAIN mgmt = Procs /\ \A d \in Procs : DOMAIN mgmt[d] = Ranks /\ \A q \in Ranks : IsSeq(mgmt[d][q])
    BY DEF KeyTypes
  <1>2. mgmt' = [mgmt EXCEPT ![c] = [mgmt[c] EXCEPT ![p] = Tail(mgmt[c][p])]]
    BY <1>1 DEF Received
  <1>3. /\ DOMAIN mgmt' = Procs /\ \A d \in Procs : DOMAIN mgmt'[d] = Ranks
        /\ \A d \in Procs, q \in Ranks : d # c \/ q # p => mgmt'[d][q] = mgmt[d][q]
        /\ mgmt'[c][p] = Tail(mgmt[c][p])
    BY <1>1, <1>2
  <1>. DEFINE s == mgmt[c][p]
  <1>4. IsSeq(s) /\ s # << >>
    BY <1>1
  <1>. HIDE DEF s
  <1>5. /\ IsSeq(Tail(s)) /\ Head(s) = s[1] /\ Len(s) >= 1
        /\ Len(Tail(s)) = Len(s) - 1
        /\ \A i \in 1..Len(Tail(s)) : Tail(s)[i] = s[i + 1] /\ i + 1 \in 1..Len(s)
    BY ONLY <1>4, TailOf
  <1>6. Len(s) \in Nat /\ 1 \in 1..Len(s)
    BY <1>4, <1>5 DEF IsSeq
  <1>. QED
    BY <1>1, <1>3, <1>5, <1>6 DEF s

\* Messages that move up by one.
LEMMA TakenMoved ==
    ASSUME NEW c \in Procs, NEW p \in Ranks,
           \A d \in Procs, q \in Ranks : d # c \/ q # p => mgmt'[d][q] = mgmt[d][q],
           \A i \in 1..Len(mgmt'[c][p]) : i + 1 \in 1..Len(mgmt[c][p]) /\ mgmt'[c][p][i] = mgmt[c][p][i + 1]
    PROVE  Moved([d \in Procs |-> [q \in Ranks |->
                    [i \in 1..Len(mgmt'[d][q]) |-> IF d = c /\ q = p THEN i + 1 ELSE i]]])
  <1>. DEFINE at == [d \in Procs |-> [q \in Ranks |->
                        [i \in 1..Len(mgmt'[d][q]) |-> IF d = c /\ q = p THEN i + 1 ELSE i]]]
  <1>5. ASSUME NEW d \in Procs, NEW q \in Ranks, NEW i \in 1..Len(mgmt'[d][q])
        PROVE  at[d][q][i] = IF d = c /\ q = p THEN i + 1 ELSE i
    <2>1. at[d] = [r \in Ranks |-> [k \in 1..Len(mgmt'[d][r]) |-> IF d = c /\ r = p THEN k + 1 ELSE k]]
      OBVIOUS
    <2>2. at[d][q] = [k \in 1..Len(mgmt'[d][q]) |-> IF d = c /\ q = p THEN k + 1 ELSE k]
      BY <2>1
    <2>. HIDE DEF at
    <2>. QED
      BY <2>2
  <1>. HIDE DEF at
  <1>6. Moved(at)
    <2>2. ASSUME NEW d \in Procs, NEW q \in Ranks, NEW i \in 1..Len(mgmt'[d][q])
          PROVE  at[d][q][i] \in 1..Len(mgmt[d][q]) /\ mgmt'[d][q][i] = mgmt[d][q][at[d][q][i]]
      <3>1. CASE d = c /\ q = p
        BY <1>5, <3>1, SMTT(40)
      <3>2. CASE d # c \/ q # p
        BY <1>5, <3>2
      <3>. QED
        BY <3>1, <3>2
    <2>3. ASSUME NEW d \in Procs, NEW q \in Ranks, NEW i \in 1..Len(mgmt'[d][q]), NEW j \in 1..Len(mgmt'[d][q]), i # j
          PROVE  at[d][q][i] # at[d][q][j]
      BY <1>5, <2>3
    <2>. QED
      BY <2>2, <2>3 DEF Moved
  <1>. QED
    BY <1>6 DEF at

\* A step that takes a message and stores nothing.
LEMMA OnlyTaken ==
    ASSUME KeyInv, NEW c \in Procs, NEW p \in Ranks, mgmt[c][p] # << >>, mgmt' = Received(c, p),
           UNCHANGED <<reply, nextKey, localKey>>, DOMAIN store' = Ranks,
           \A q \in Ranks : DOMAIN store'[q] \subseteq DOMAIN store[q]
    PROVE  KeyInv'
  <1>. DEFINE at == [d \in Procs |-> [q \in Ranks |->
                        [i \in 1..Len(mgmt'[d][q]) |-> IF d = c /\ q = p THEN i + 1 ELSE i]]]
  <1>1. KeyTypes
    BY DEF KeyInv
  <1>2. /\ DOMAIN mgmt' = Procs /\ \A d \in Procs : DOMAIN mgmt'[d] = Ranks
        /\ \A d \in Procs, q \in Ranks : IsSeq(mgmt'[d][q])
        /\ \A d \in Procs, q \in Ranks : d # c \/ q # p => mgmt'[d][q] = mgmt[d][q]
        /\ \A i \in 1..Len(mgmt'[c][p]) : i + 1 \in 1..Len(mgmt[c][p]) /\ mgmt'[c][p][i] = mgmt[c][p][i + 1]
    BY <1>1, ReceivedEffect
  <1>3. KeyTypes'
    BY <1>1, <1>2 DEF KeyTypes
  <1>4. CountersGrow
    BY <1>1, CountersStay
  <1>6. Moved(at)
    BY <1>2, TakenMoved
  <1>. HIDE DEF at
  <1>7. reply' = reply
    OBVIOUS
  <1>. QED
    BY <1>3, <1>4, <1>6, <1>7, OnlyMoved

-----------------------------------------------------------------------------
\* The actions that store nothing.

\* The processes of an actor.
LEMMA GroupProcs ==
    ASSUME NEW g \in Groups
    PROVE  /\ g \in Seq(Ranks) /\ g # << >> /\ Len(g) \in Nat /\ DOMAIN g = 1..Len(g)
           /\ 1 \in 1..Len(g) /\ g[1] \in Ranks
           /\ \A i \in 1..Len(g) : g[i] \in Ranks
  <1>1. g \in Seq(Ranks) /\ g # << >>
    BY GroupsAssumption
  <1>2. Len(g) >= 1 /\ Len(g) \in Nat
    BY <1>1, TailFacts
  <1>. QED
    BY <1>1, <1>2

LEMMA AskDistributeKeys ==
    ASSUME KeyInv, NEW g \in Groups, NEW v \in Vectors, AskDistribute(g, v)
    PROVE  KeyInv'
  <1>1. KeyTypes
    BY DEF KeyInv
  <1>2. g[1] \in Ranks /\ Client \in Procs
    BY GroupProcs DEF Procs
  <1>. DEFINE m == DistributeMsg(g)
              s == mgmt[Client][g[1]]
  <1>3. m.type = "DISTRIBUTE" /\ m.group = g
    BY DEF DistributeMsg
  <1>. HIDE DEF m
  <1>4. mgmt' = [mgmt EXCEPT ![Client] = [mgmt[Client] EXCEPT ![g[1]] = Append(s, m)]]
    BY <1>1, <1>2 DEF AskDistribute, KeyTypes, m
  <1>5. /\ DOMAIN mgmt' = Procs /\ \A c \in Procs : DOMAIN mgmt'[c] = Ranks
        /\ \A c \in Procs, p \in Ranks : c # Client \/ p # g[1] => mgmt'[c][p] = mgmt[c][p]
        /\ mgmt'[Client][g[1]] = Append(s, m)
    BY <1>1, <1>2, <1>4 DEF KeyTypes
  <1>6. IsSeq(s)
    BY <1>1, <1>2 DEF KeyTypes
  <1>7. UNCHANGED <<reply, store, nextKey, localKey>>
    BY DEF AskDistribute, servers
  <1>. HIDE DEF s
  <1>8. /\ IsSeq(Append(s, m)) /\ Len(s) \in Nat
        /\ Len(Append(s, m)) = Len(s) + 1
        /\ \A i \in 1..Len(s) : Append(s, m)[i] = s[i]
        /\ Append(s, m)[Len(s) + 1] = m
    BY ONLY <1>6, AppendOf DEF IsSeq
  <1>9. \A c \in Procs, p \in Ranks :
           /\ IsSeq(mgmt'[c][p])
           /\ \A i \in 1..Len(mgmt'[c][p]) :
                 \/ i \in 1..Len(mgmt[c][p]) /\ mgmt'[c][p][i] = mgmt[c][p][i]
                 \/ mgmt'[c][p][i].type # "STORE" /\ MayBeSent(c, p, mgmt'[c][p][i])
    <2>. SUFFICES ASSUME NEW c \in Procs, NEW p \in Ranks
                  PROVE  /\ IsSeq(mgmt'[c][p])
                         /\ \A i \in 1..Len(mgmt'[c][p]) :
                               \/ i \in 1..Len(mgmt[c][p]) /\ mgmt'[c][p][i] = mgmt[c][p][i]
                               \/ mgmt'[c][p][i].type # "STORE" /\ MayBeSent(c, p, mgmt'[c][p][i])
      OBVIOUS
    <2>1. CASE c = Client /\ p = g[1]
      <3>1. mgmt'[c][p] = Append(s, m) /\ mgmt[c][p] = s
        BY <1>5, <2>1 DEF s
      <3>2. MayBeSent(c, p, m) /\ m.type # "STORE"
        BY <1>3, <2>1 DEF MayBeSent
      <3>. QED
        BY <1>8, <3>1, <3>2
    <2>2. CASE c # Client \/ p # g[1]
      BY <1>1, <1>5, <2>2 DEF KeyTypes
    <2>. QED
      BY <2>1, <2>2
  <1>. QED
    BY <1>5, <1>7, <1>9, OnlyAsked

LEMMA AskPiecesKeys ==
    ASSUME KeyInv, NEW r \in Procs, AskPieces(r)
    PROVE  KeyInv'
  <1>1. KeyTypes
    BY DEF KeyInv
  <1>. DEFINE row == [p \in Ranks |-> IF reader[r].asked[p] = << >> THEN mgmt[r][p]
                                      ELSE Append(mgmt[r][p], GetMsg(r, reader[r].asked[p]))]
  <1>2. DOMAIN row = Ranks /\ \A p \in Ranks :
           row[p] = mgmt[r][p] \/ row[p] = Append(mgmt[r][p], GetMsg(r, reader[r].asked[p]))
    OBVIOUS
  <1>3. mgmt' = [mgmt EXCEPT ![r] = row]
    BY <1>1 DEF AskPieces, KeyTypes
  <1>. HIDE DEF row
  <1>4. /\ DOMAIN mgmt' = Procs /\ \A c \in Procs : DOMAIN mgmt'[c] = Ranks
        /\ \A c \in Procs : c # r => mgmt'[c] = mgmt[c]
        /\ mgmt'[r] = row
    BY <1>1, <1>2, <1>3 DEF KeyTypes
  <1>5. UNCHANGED <<reply, store, nextKey, localKey>>
    BY DEF AskPieces, servers, program
  <1>6. \A c \in Procs, p \in Ranks :
           /\ IsSeq(mgmt'[c][p])
           /\ \A i \in 1..Len(mgmt'[c][p]) :
                 \/ i \in 1..Len(mgmt[c][p]) /\ mgmt'[c][p][i] = mgmt[c][p][i]
                 \/ mgmt'[c][p][i].type # "STORE" /\ MayBeSent(c, p, mgmt'[c][p][i])
    <2>. SUFFICES ASSUME NEW c \in Procs, NEW p \in Ranks
                  PROVE  /\ IsSeq(mgmt'[c][p])
                         /\ \A i \in 1..Len(mgmt'[c][p]) :
                               \/ i \in 1..Len(mgmt[c][p]) /\ mgmt'[c][p][i] = mgmt[c][p][i]
                               \/ mgmt'[c][p][i].type # "STORE" /\ MayBeSent(c, p, mgmt'[c][p][i])
      OBVIOUS
    <2>. DEFINE s == mgmt[c][p]
                m == GetMsg(c, reader[c].asked[p])
    <2>1. IsSeq(s)
      BY <1>1 DEF KeyTypes
    <2>2. CASE mgmt'[c][p] = s
      BY <2>1, <2>2
    <2>3. CASE c = r /\ mgmt'[c][p] = Append(s, m)
      <3>1. m.type = "GET"
        BY DEF GetMsg
      <3>2. MayBeSent(c, p, m) /\ m.type # "STORE"
        BY <3>1 DEF MayBeSent
      <3>. HIDE DEF s, m
      <3>3. /\ IsSeq(Append(s, m)) /\ Len(s) \in Nat
            /\ Len(Append(s, m)) = Len(s) + 1
            /\ \A i \in 1..Len(s) : Append(s, m)[i] = s[i]
            /\ Append(s, m)[Len(s) + 1] = m
        BY ONLY <2>1, AppendOf DEF IsSeq
      <3>. QED
        BY <2>3, <3>2, <3>3 DEF s
    <2>. QED
      BY <1>2, <1>4, <2>2, <2>3
  <1>. QED
    BY <1>4, <1>5, <1>6, OnlyAsked

LEMMA ReleaseVectorKeys ==
    ASSUME KeyInv, LengthInv, NEW v \in Vectors, ReleaseVector(v)
    PROVE  KeyInv'
  <1>1. KeyTypes
    BY DEF KeyInv
  <1>. DEFINE n == Len(dvs[v])
              mail == [i \in 1..n |-> [to |-> dvs[v][i].pid, msg |-> ReleaseMsg(dvs[v][i].resid)]]
  <1>2. n \in Nat /\ DOMAIN mail = 1..n /\ \A i \in 1..n : mail[i].msg = ReleaseMsg(dvs[v][i].resid)
    BY DEF LengthInv
  <1>3. mgmt' = SendAll(Client, mail) /\ UNCHANGED <<reply, store, nextKey, localKey>>
    BY DEF ReleaseVector, servers
  <1>4. \A i \in 1..n : mail[i].msg.type = "RELEASE"
    BY <1>2 DEF ReleaseMsg
  <1>. HIDE DEF n, mail
  <1>5. Client \in Procs
    BY DEF Procs
  <1>6. /\ DOMAIN mgmt' = Procs /\ \A d \in Procs : DOMAIN mgmt'[d] = Ranks
        /\ \A d \in Procs \ {Client} : mgmt'[d] = mgmt[d]
        /\ \A d \in Procs, p \in Ranks : IsSeq(mgmt'[d][p])
        /\ \A p \in Ranks : \A i \in 1..Len(mgmt[Client][p]) : mgmt'[Client][p][i] = mgmt[Client][p][i]
        /\ \A p \in Ranks : \A i \in 1..Len(mgmt'[Client][p]) : i \notin 1..Len(mgmt[Client][p]) =>
              Place(Client, mail, p, i) \in 1..n /\ mgmt'[Client][p][i] = mail[Place(Client, mail, p, i)].msg
    BY <1>1, <1>2, <1>3, <1>5, SendAllEffect
  <1>7. \A c \in Procs, p \in Ranks : \A i \in 1..Len(mgmt'[c][p]) :
           \/ i \in 1..Len(mgmt[c][p]) /\ mgmt'[c][p][i] = mgmt[c][p][i]
           \/ mgmt'[c][p][i].type # "STORE" /\ MayBeSent(c, p, mgmt'[c][p][i])
    <2>. SUFFICES ASSUME NEW c \in Procs, NEW p \in Ranks, NEW i \in 1..Len(mgmt'[c][p])
                  PROVE  \/ i \in 1..Len(mgmt[c][p]) /\ mgmt'[c][p][i] = mgmt[c][p][i]
                         \/ mgmt'[c][p][i].type # "STORE" /\ MayBeSent(c, p, mgmt'[c][p][i])
      OBVIOUS
    <2>1. CASE c = Client /\ i \notin 1..Len(mgmt[Client][p])
      <3>1. mgmt'[c][p][i].type = "RELEASE"
        BY <1>4, <1>6, <2>1
      <3>. QED
        BY <3>1 DEF MayBeSent
    <2>2. CASE c # Client \/ i \in 1..Len(mgmt[Client][p])
      BY <1>6, <2>2, SMTT(40)
    <2>. QED
      BY <2>1, <2>2
  <1>. QED
    BY <1>3, <1>6, <1>7, OnlyAsked

LEMMA HandleGetKeys ==
    ASSUME KeyInv, NEW c \in Procs, NEW p \in Ranks, HandleGet(c, p)
    PROVE  KeyInv'
  <1>1. /\ mgmt[c][p] # << >> /\ mgmt' = Received(c, p)
        /\ UNCHANGED <<reply, nextKey, localKey>> /\ store' = store
    BY DEF HandleGet, Handles, program
  <1>2. DOMAIN store' = Ranks
    BY <1>1 DEF KeyInv, KeyTypes
  <1>. QED
    BY <1>1, <1>2, OnlyTaken, SMTT(40)

LEMMA HandleReleaseKeys ==
    ASSUME KeyInv, NEW c \in Procs, NEW p \in Ranks, HandleRelease(c, p)
    PROVE  KeyInv'
  <1>. DEFINE key == Head(mgmt[c][p]).resid
  <1>1. /\ mgmt[c][p] # << >> /\ mgmt' = Received(c, p)
        /\ UNCHANGED <<reply, nextKey, localKey>>
        /\ store' = [store EXCEPT ![p] = RemovePart(store[p], key)]
    BY DEF HandleRelease, Handles, program
  <1>2. DOMAIN store = Ranks
    BY DEF KeyInv, KeyTypes
  <1>. HIDE DEF key
  <1>3. DOMAIN RemovePart(store[p], key) = DOMAIN store[p] \ {key}
    BY DEF RemovePart, Restrict
  <1>4. DOMAIN store' = Ranks /\ \A q \in Ranks : DOMAIN store'[q] \subseteq DOMAIN store[q]
    BY <1>1, <1>2, <1>3
  <1>. QED
    BY <1>1, <1>4, OnlyTaken

-----------------------------------------------------------------------------
\* The head gives keys.

\* One head alone gives keys to a process.
LEMMA OneHead ==
    ASSUME SameHead, NEW p, NEW h, NEW k, GivenBy(p, h), GivenBy(p, k)
    PROVE  h = k
  <1>1. PICK f \in Groups : f[1] = h /\ \E i \in DOMAIN f : f[i] = p
    BY DEF GivenBy
  <1>2. PICK g \in Groups : g[1] = k /\ \E i \in DOMAIN g : g[i] = p
    BY DEF GivenBy
  <1>3. f[1] = g[1]
    BY <1>1, <1>2 DEF SameHead, Share
  <1>. QED
    BY <1>1, <1>2, <1>3

\* A key given by a head is below zero, a key a process took is not.
LEMMA KeySigns ==
    ASSUME KeyTypes, NEW p \in Ranks, NEW key \in Int
    PROVE  (Given(p, key) => key <= -1) /\ (Taken(p, key) => 0 <= key) /\ ~ (Given(p, key) /\ Taken(p, key))
  <1>1. (Given(p, key) => key <= -1) /\ (Taken(p, key) => 0 <= key)
    BY DEF Given, Taken
  <1>. QED
    BY <1>1

\* What a key is that p knows and that head h gives to p.
LEMMA GivenKeys ==
    ASSUME SameHead, KeyTypes, NEW p \in Ranks, NEW h \in Ranks, GivenBy(p, h), NEW key \in Int,
           Given(p, key) \/ Taken(p, key)
    PROVE  localKey[h] < key
  <1>1. CASE Given(p, key)
    <2>1. PICK k \in Ranks : GivenBy(p, k) /\ localKey[k] < key
      BY <1>1 DEF Given
    <2>. QED
      BY <2>1, OneHead
  <1>2. CASE Taken(p, key)
    <2>1. localKey[h] \in Int /\ localKey[h] <= -1
      BY DEF KeyTypes
    <2>. QED
      BY <1>2, <2>1 DEF Taken
  <1>. QED
    BY <1>1, <1>2

\* The message that is taken is the first; what it says is what may be sent.
LEMMA HeadSent ==
    ASSUME KeyTypes, SentInv, NEW c \in Procs, NEW p \in Ranks, mgmt[c][p] # << >>
    PROVE  MayBeSent(c, p, mgmt[c][p][1]) /\ Head(mgmt[c][p]) = mgmt[c][p][1] /\ 1 \in 1..Len(mgmt[c][p])
  <1>. DEFINE s == mgmt[c][p]
  <1>1. IsSeq(s) /\ s # << >>
    BY DEF KeyTypes
  <1>. HIDE DEF s
  <1>2. Head(s) = s[1] /\ Len(s) >= 1 /\ Len(s) \in Nat
    BY ONLY <1>1, TailOf DEF IsSeq
  <1>3. 1 \in 1..Len(s)
    BY <1>2
  <1>. QED
    BY <1>2, <1>3 DEF SentInv, s

\* The parts of a distributed vector and their keys.
LEMMA BlockPartsKeys ==
    ASSUME NEW p \in Ranks, localKey[p] \in Int, NEW g \in Groups, NEW dv, dv = BlockParts(N, 1, g, LocalKeys(p, Len(g)))
    PROVE  /\ IsSeq(dv) /\ Len(dv) = Len(g)
           /\ \A k \in 1..Len(dv) : dv[k].pid = g[k] /\ dv[k].resid = localKey[p] - k + 1
  <1>1. Len(g) \in Nat
    BY GroupProcs
  <1>2. \A k \in 1..Len(g) : LocalKeys(p, Len(g))[k] = localKey[p] - k + 1
    BY <1>1 DEF LocalKeys
  <1>3. DOMAIN dv = 1..Len(g) /\ Len(dv) = Len(g)
    BY <1>1 DEF BlockParts
  <1>4. \A k \in 1..Len(g) : dv[k].pid = g[k] /\ dv[k].resid = LocalKeys(p, Len(g))[k]
    BY <1>1 DEF BlockParts
  <1>5. IsSeq(dv)
    BY <1>1, <1>3 DEF IsSeq, BlockParts
  <1>. QED
    BY <1>2, <1>3, <1>4, <1>5

LEMMA HandleDistributeKeys ==
    ASSUME SameHead, KeyInv, NEW c \in Procs, NEW p \in Ranks, HandleDistribute(c, p)
    PROVE  KeyInv'
  <1>0. KeyTypes /\ SentInv /\ OnceInv /\ StoredInv /\ NewInv /\ ApartInv
    BY DEF KeyInv
  <1>. DEFINE g == Head(mgmt[c][p]).group
              dv == BlockParts(N, 1, g, LocalKeys(p, Len(g)))
              old == reply[p]
  <1>1. /\ mgmt[c][p] # << >> /\ Head(mgmt[c][p]).type = "DISTRIBUTE" /\ mgmt' = Received(c, p)
        /\ reply' = [reply EXCEPT ![p] = Append(old, dv)]
        /\ localKey' = [localKey EXCEPT ![p] = localKey[p] - Len(g)]
        /\ UNCHANGED <<store, nextKey>>
    BY <1>0 DEF HandleDistribute, Handles, servers, KeyTypes
  <1>2. g \in Groups /\ g[1] = p
    BY <1>0, <1>1, HeadSent DEF MayBeSent
  <1>3. Len(g) \in Nat /\ DOMAIN g = 1..Len(g) /\ \A i \in 1..Len(g) : g[i] \in Ranks /\ GivenBy(g[i], p)
    BY <1>2, GroupProcs DEF GivenBy
  <1>. HIDE DEF g
  <1>4. localKey[p] \in Int /\ localKey[p] <= -1
    BY <1>0 DEF KeyTypes
  <1>5. /\ IsSeq(dv) /\ Len(dv) = Len(g)
        /\ \A k \in 1..Len(dv) : dv[k].pid = g[k] /\ dv[k].resid = localKey[p] - k + 1
    BY <1>2, <1>4, BlockPartsKeys
  <1>. HIDE DEF dv
  <1>6. IsSeq(old)
    BY <1>0 DEF KeyTypes
  <1>7. /\ IsSeq(Append(old, dv)) /\ Len(old) \in Nat /\ Len(Append(old, dv)) = Len(old) + 1
        /\ \A i \in 1..Len(old) : Append(old, dv)[i] = old[i]
        /\ Append(old, dv)[Len(old) + 1] = dv
    BY <1>6, AppendOf DEF IsSeq
  <1>8. /\ DOMAIN reply' = Ranks /\ reply'[p] = Append(old, dv)
        /\ \A h \in Ranks : h # p => reply'[h] = reply[h]
    BY <1>0, <1>1 DEF KeyTypes
  <1>. HIDE DEF old
  <1>9. /\ localKey' \in [Ranks -> Int] /\ \A h \in Ranks : localKey'[h] <= -1 /\ localKey'[h] <= localKey[h]
        /\ localKey'[p] = localKey[p] - Len(g)
    BY <1>0, <1>1, <1>3, <1>4 DEF KeyTypes
  <1>10. CountersGrow
    BY <1>0, <1>1, <1>9 DEF CountersGrow, KeyTypes
  <1>11. /\ DOMAIN mgmt' = Procs /\ \A d \in Procs : DOMAIN mgmt'[d] = Ranks
         /\ \A d \in Procs, q \in Ranks : IsSeq(mgmt'[d][q])
         /\ \A d \in Procs, q \in Ranks : d # c \/ q # p => mgmt'[d][q] = mgmt[d][q]
         /\ \A i \in 1..Len(mgmt'[c][p]) : i + 1 \in 1..Len(mgmt[c][p]) /\ mgmt'[c][p][i] = mgmt[c][p][i + 1]
    BY <1>0, <1>1, ReceivedEffect
  <1>12. ASSUME NEW h \in Ranks, NEW i \in 1..Len(reply'[h])
         PROVE  \/ i \in 1..Len(reply[h]) /\ reply'[h][i] = reply[h][i]
                \/ h = p /\ i = Len(old) + 1 /\ reply'[h][i] = dv
    <2>1. CASE h = p
      BY <1>7, <1>8, <2>1 DEF old
    <2>2. CASE h # p
      BY <1>8, <2>2
    <2>. QED
      BY <2>1, <2>2
  <1>13. KeyTypes'
    <2>1. \A h \in Ranks : IsSeq(reply'[h])
      BY <1>0, <1>7, <1>8 DEF KeyTypes
    <2>2. \A h \in Ranks : \A i \in 1..Len(reply'[h]) : IsSeq(reply'[h][i])
      BY <1>0, <1>5, <1>12 DEF KeyTypes
    <2>. QED
      BY <1>0, <1>1, <1>8, <1>9, <1>11, <2>1, <2>2 DEF KeyTypes
  <1>. DEFINE at == [d \in Procs |-> [q \in Ranks |->
                        [i \in 1..Len(mgmt'[d][q]) |-> IF d = c /\ q = p THEN i + 1 ELSE i]]]
  <1>14. Moved(at)
    BY <1>11, TakenMoved
  <1>. HIDE DEF at
  <1>15. /\ SentInv' /\ OnceInv' /\ StoredInv'
         /\ \A h \in Ranks : \A part : NewKey(h, part) => NewKey(h, part)'
    BY <1>1, <1>10, <1>14, MovedKeys
  <1>16. ASSUME NEW k \in 1..Len(dv), NEW part, part = dv[k]
         PROVE  NewKey(p, part)'
    <2>1. /\ part.pid \in Ranks /\ GivenBy(part.pid, p) /\ k \in 1..Len(g)
          /\ part.resid = localKey[p] - k + 1
      BY <1>3, <1>5, <1>16
    <2>2. part.resid \in Int /\ localKey'[p] < part.resid /\ part.resid <= -1 /\ part.resid <= localKey[p]
      BY <1>3, <1>4, <1>9, <2>1
    <2>3. ASSUME NEW key \in Int, Given(part.pid, key) \/ Taken(part.pid, key)
          PROVE  key # part.resid
      <3>1. localKey[p] < key
        BY <1>0, <2>1, <2>3, GivenKeys
      <3>. QED
        BY <1>4, <2>2, <3>1
    <2>4. part.resid \notin DOMAIN store'[part.pid]
      BY <1>0, <1>1, <2>1, <2>3 DEF StoredInv
    <2>5. ASSUME NEW q \in Ranks, q = part.pid, NEW i \in 1..Len(mgmt'[Client][q]), Storing(Client, q, i)'
          PROVE  mgmt'[Client][q][i].resid # part.resid
      <3>. DEFINE m == mgmt'[Client][q][i]
      <3>0. Client \in Procs
        BY DEF Procs
      <3>1. \E j \in 1..Len(mgmt[Client][q]) : m = mgmt[Client][q][j]
        <4>1. CASE Client = c /\ q = p
          <5>1. i \in 1..Len(mgmt'[c][p]) /\ m = mgmt'[c][p][i]
            BY <4>1
          <5>. QED
            BY <1>11, <4>1, <5>1
        <4>2. CASE Client # c \/ q # p
          <5>1. mgmt'[Client][q] = mgmt[Client][q]
            BY <1>11, <3>0, <4>2
          <5>. QED
            BY <5>1
        <4>. QED
          BY <4>1, <4>2
      <3>2. MayBeSent(Client, q, m)
        BY <1>0, <3>0, <3>1 DEF SentInv
      <3>3. m.type = "STORE"
        BY <2>5 DEF Storing
      <3>4. m.resid \in Int /\ (Given(q, m.resid) \/ Taken(q, m.resid))
        BY <3>2, <3>3 DEF MayBeSent
      <3>. HIDE DEF m
      <3>5. m.resid # part.resid
        BY <2>3, <2>5, <3>4
      <3>. QED
        BY <3>5 DEF m
    <2>. QED
      BY <2>1, <2>2, <2>4, <2>5 DEF NewKey, GivenBy
  <1>17. NewInv'
    <2>. SUFFICES ASSUME NEW h \in Ranks, NEW i \in 1..Len(reply'[h]), NEW k \in 1..Len(reply'[h][i])
                  PROVE  NewKey(h, reply[h][i][k])'
      BY Zenon DEF NewInv
    <2>1. CASE i \in 1..Len(reply[h]) /\ reply'[h][i] = reply[h][i]
      <3>1. NewKey(h, reply'[h][i][k])
        BY <1>0, <2>1 DEF NewInv
      <3>. QED
        BY <1>15, <3>1
    <2>2. CASE h = p /\ reply'[h][i] = dv
      <3>1. k \in 1..Len(dv) /\ reply'[h][i][k] = dv[k]
        BY <2>2
      <3>2. \A part : part = dv[k] => NewKey(p, part)'
        BY <1>16, <3>1
      <3>. QED
        BY <2>2, <3>1, <3>2
    <2>. QED
      BY <1>12, <2>1, <2>2
  <1>18. ASSUME NEW i \in 1..Len(reply[p]), NEW k \in 1..Len(reply[p][i]), NEW l \in 1..Len(dv)
         PROVE  reply[p][i][k].resid # dv[l].resid
    <2>1. NewKey(p, reply[p][i][k])
      BY <1>0 DEF NewInv
    <2>2. reply[p][i][k].resid \in Int /\ localKey[p] < reply[p][i][k].resid
      BY <2>1 DEF NewKey
    <2>3. dv[l].resid <= localKey[p] /\ dv[l].resid \in Int
      BY <1>3, <1>4, <1>5
    <2>. QED
      BY <1>4, <2>2, <2>3, SMTT(40)
  <1>19. \A k, l \in 1..Len(dv) : k # l => dv[k].resid # dv[l].resid
    BY <1>3, <1>4, <1>5, SMTT(40)
  <1>20. ApartInv'
    <2>. SUFFICES ASSUME NEW h \in Ranks, NEW i \in 1..Len(reply'[h]), NEW j \in 1..Len(reply'[h]),
                         NEW k \in 1..Len(reply'[h][i]), NEW l \in 1..Len(reply'[h][j]), i # j \/ k # l
                  PROVE  reply'[h][i][k].resid # reply'[h][j][l].resid
      BY Zenon DEF ApartInv
    <2>1. CASE /\ i \in 1..Len(reply[h]) /\ reply'[h][i] = reply[h][i]
               /\ j \in 1..Len(reply[h]) /\ reply'[h][j] = reply[h][j]
      <3>1. /\ i \in 1..Len(reply[h]) /\ k \in 1..Len(reply[h][i])
            /\ j \in 1..Len(reply[h]) /\ l \in 1..Len(reply[h][j])
        BY <2>1
      <3>2. reply[h][i][k].resid # reply[h][j][l].resid
        BY <1>0, <3>1, ZenonT(60) DEF ApartInv
      <3>. QED
        BY <2>1, <3>2
    <2>2. CASE i \in 1..Len(reply[h]) /\ reply'[h][i] = reply[h][i] /\ h = p /\ reply'[h][j] = dv
      BY <1>18, <2>2
    <2>3. CASE j \in 1..Len(reply[h]) /\ reply'[h][j] = reply[h][j] /\ h = p /\ reply'[h][i] = dv
      BY <1>18, <2>3
    <2>4. CASE i = j /\ reply'[h][i] = dv
      BY <1>19, <2>4
    <2>. QED
      BY <1>12, <2>1, <2>2, <2>3, <2>4
  <1>. QED
    BY <1>13, <1>15, <1>17, <1>20 DEF KeyInv

-----------------------------------------------------------------------------
\* The program sends the parts of a descriptor.

LEMMA StorePartsKeys ==
    ASSUME SameHead, KeyInv, NEW h \in Ranks, StoreParts(h)
    PROVE  KeyInv'
  <1>0. KeyTypes /\ SentInv /\ OnceInv /\ StoredInv /\ NewInv /\ ApartInv
    BY DEF KeyInv
  <1>. DEFINE v == reader[Client].vec
              s == reply[h]
              dv == Head(s)
              n == Len(dv)
              mail == [i \in 1..n |-> [to |-> dv[i].pid, msg |-> StoreMsg(dv[i].resid, Bytes(v, dv[i]))]]
  <1>1. /\ s # << >> /\ reply' = [reply EXCEPT ![h] = Tail(s)]
        /\ mgmt' = SendAll(Client, mail)
        /\ UNCHANGED <<store, nextKey, localKey>>
    BY <1>0 DEF StoreParts, servers, KeyTypes
  <1>2. IsSeq(s) /\ DOMAIN reply = Ranks
    BY <1>0 DEF KeyTypes
  <1>3. dv = s[1] /\ 1 \in 1..Len(s)
    <2>. HIDE DEF s, mail
    <2>1. Head(s) = s[1] /\ Len(s) >= 1 /\ Len(s) \in Nat
      BY ONLY <1>1, <1>2, TailOf DEF IsSeq
    <2>. QED
      BY <2>1
  <1>4. \A i \in 1..Len(Tail(s)) : Tail(s)[i] = s[i + 1] /\ i + 1 \in 1..Len(s) /\ i + 1 # 1
    <2>. HIDE DEF s, mail
    <2>1. \A i \in 1..Len(Tail(s)) : Tail(s)[i] = s[i + 1] /\ i + 1 \in 1..Len(s)
      BY ONLY <1>1, <1>2, TailOf
    <2>2. \A i \in 1..Len(Tail(s)) : i + 1 # 1
      OBVIOUS
    <2>. QED
      BY <2>1, <2>2
  <1>5. IsSeq(Tail(s))
    <2>. HIDE DEF s, mail
    <2>. QED
      BY ONLY <1>1, <1>2, TailOf
  <1>6. IsSeq(dv) /\ n \in Nat
    BY <1>0, <1>3 DEF KeyTypes, IsSeq
  <1>7. \A k \in 1..n : NewKey(h, dv[k])
    BY <1>0, <1>3 DEF NewInv
  <1>8. DOMAIN mail = 1..n /\ \A k \in 1..n : /\ mail[k].to = dv[k].pid /\ mail[k].msg.type = "STORE"
                                              /\ mail[k].msg.resid = dv[k].resid
    BY <1>6 DEF StoreMsg
  <1>9. ASSUME NEW k \in 1..n, NEW l \in 1..n, k # l
        PROVE  dv[k].resid # dv[l].resid
    <2>. HIDE DEF mail
    <2>1. k \in 1..Len(reply[h][1]) /\ l \in 1..Len(reply[h][1]) /\ 1 \in 1..Len(reply[h])
      BY <1>3
    <2>2. reply[h][1][k].resid # reply[h][1][l].resid
      BY <1>0, <1>9, <2>1 DEF ApartInv
    <2>. QED
      BY <1>3, <2>2
  <1>10. /\ DOMAIN reply' = Ranks /\ reply'[h] = Tail(s)
         /\ \A q \in Ranks : q # h => reply'[q] = reply[q]
    BY <1>1, <1>2
  <1>. HIDE DEF mail, n, dv, v, s
  <1>11. Client \in Procs
    BY DEF Procs
  <1>12. /\ DOMAIN mgmt' = Procs /\ \A d \in Procs : DOMAIN mgmt'[d] = Ranks
         /\ \A d \in Procs \ {Client} : mgmt'[d] = mgmt[d]
         /\ \A d \in Procs, p \in Ranks : IsSeq(mgmt'[d][p])
         /\ \A p \in Ranks : \A i \in 1..Len(mgmt[Client][p]) : mgmt'[Client][p][i] = mgmt[Client][p][i]
         /\ \A p \in Ranks : \A i \in 1..Len(mgmt'[Client][p]) : i \notin 1..Len(mgmt[Client][p]) =>
               /\ Place(Client, mail, p, i) \in 1..n /\ mail[Place(Client, mail, p, i)].to = p
               /\ mgmt'[Client][p][i] = mail[Place(Client, mail, p, i)].msg
         /\ \A p \in Ranks : \A i, j \in 1..Len(mgmt'[Client][p]) :
               i \notin 1..Len(mgmt[Client][p]) /\ j \notin 1..Len(mgmt[Client][p]) /\ i # j =>
                  Place(Client, mail, p, i) # Place(Client, mail, p, j)
    BY <1>0, <1>1, <1>6, <1>8, <1>11, SendAllEffect
  <1>13. CountersGrow
    BY <1>0, <1>1, CountersStay
  \* Messages to p that are new, by the part they carry.
  <1>. DEFINE Old(p, i) == i \in 1..Len(mgmt[Client][p])
              K(p, i) == Place(Client, mail, p, i)
  <1>14. ASSUME NEW p \in Ranks, NEW i \in 1..Len(mgmt'[Client][p]), ~ Old(p, i)
         PROVE  /\ K(p, i) \in 1..n /\ dv[K(p, i)].pid = p
                /\ mgmt'[Client][p][i].type = "STORE" /\ mgmt'[Client][p][i].resid = dv[K(p, i)].resid
    BY <1>8, <1>12, <1>14
  <1>15. ASSUME NEW p \in Ranks, NEW i \in 1..Len(mgmt'[Client][p]), Old(p, i)
         PROVE  mgmt'[Client][p][i] = mgmt[Client][p][i]
    BY <1>12, <1>15
  <1>16. ASSUME NEW p \in Ranks, NEW i \in 1..Len(mgmt'[Client][p]), NEW j \in 1..Len(mgmt'[Client][p]),
                ~ Old(p, i), ~ Old(p, j), i # j
         PROVE  K(p, i) # K(p, j)
    BY <1>12, <1>16
  <1>. HIDE DEF K
  <1>17. ASSUME NEW p \in Ranks, NEW i \in 1..Len(mgmt'[Client][p]), ~ Old(p, i)
         PROVE  /\ mgmt'[Client][p][i].resid \in Int /\ Given(p, mgmt'[Client][p][i].resid)
                /\ mgmt'[Client][p][i].resid \notin DOMAIN store[p]
                /\ \A j \in 1..Len(mgmt[Client][p]) :
                      Storing(Client, p, j) => mgmt[Client][p][j].resid # mgmt'[Client][p][i].resid
    <2>1. NewKey(h, dv[K(p, i)]) /\ dv[K(p, i)].pid = p /\ mgmt'[Client][p][i].resid = dv[K(p, i)].resid
      BY <1>7, <1>14, <1>17
    <2>. QED
      BY <2>1 DEF NewKey, Given
  <1>18. KeyTypes'
    <2>1. \A q \in Ranks : IsSeq(reply'[q])
      BY <1>0, <1>5, <1>10 DEF KeyTypes
    <2>2. \A q \in Ranks : \A i \in 1..Len(reply'[q]) : IsSeq(reply'[q][i])
      <3>1. \A i \in 1..Len(Tail(s)) : IsSeq(Tail(s)[i])
        BY <1>0, <1>4 DEF KeyTypes, s
      <3>. QED
        BY <1>0, <1>10, <3>1 DEF KeyTypes
    <2>. QED
      BY <1>0, <1>1, <1>10, <1>12, <2>1, <2>2 DEF KeyTypes
  <1>19. ASSUME NEW p \in Ranks, NEW i \in 1..Len(mgmt'[Client][p])
         PROVE  MayBeSent(Client, p, mgmt'[Client][p][i])
    <2>1. CASE Old(p, i)
      BY <1>0, <1>11, <1>15, <2>1 DEF SentInv
    <2>2. CASE ~ Old(p, i)
      BY <1>14, <1>17, <2>2 DEF MayBeSent
    <2>. QED
      BY <2>1, <2>2
  <1>20. SentInv'
    <2>. SUFFICES ASSUME NEW d \in Procs, NEW p \in Ranks, NEW i \in 1..Len(mgmt'[d][p])
                  PROVE  MayBeSent(d, p, mgmt[d][p][i])'
      BY Zenon DEF SentInv
    <2>1. MayBeSent(d, p, mgmt'[d][p][i])
      BY <1>0, <1>12, <1>19 DEF SentInv
    <2>2. MayBeSent(d, p, mgmt'[d][p][i]) => MayBeSent(d, p, mgmt[d][p][i])'
      BY <1>0, <1>13, KeysStayGiven, Zenon
    <2>. QED
      BY <2>1, <2>2, Zenon

  <1>21. ASSUME NEW p \in Ranks, NEW i \in 1..Len(mgmt'[Client][p]), Storing(Client, p, i)',
                NEW j \in 1..Len(mgmt'[Client][p]), Storing(Client, p, j)', i # j
         PROVE  mgmt'[Client][p][i].resid # mgmt'[Client][p][j].resid
    <2>1. CASE Old(p, i) /\ Old(p, j)
      <3>1. Storing(Client, p, i) /\ Storing(Client, p, j)
        BY <1>15, <1>21, <2>1 DEF Storing
      <3>. QED
        BY <1>0, <1>11, <1>15, <1>21, <2>1, <3>1, StoringOnce, SMTT(40)
    <2>2. CASE Old(p, i) /\ ~ Old(p, j)
      <3>1. Storing(Client, p, i)
        BY <1>15, <1>21, <2>2 DEF Storing
      <3>. QED
        BY <1>15, <1>17, <2>2, <3>1, SMTT(40)
    <2>3. CASE ~ Old(p, i) /\ Old(p, j)
      <3>1. Storing(Client, p, j)
        BY <1>15, <1>21, <2>3 DEF Storing
      <3>. QED
        BY <1>15, <1>17, <2>3, <3>1
    <2>4. CASE ~ Old(p, i) /\ ~ Old(p, j)
      <3>1. K(p, i) # K(p, j) /\ K(p, i) \in 1..n /\ K(p, j) \in 1..n
        BY <1>14, <1>16, <1>21, <2>4
      <3>. QED
        BY <1>9, <1>14, <2>4, <3>1
    <2>. QED
      BY <2>1, <2>2, <2>3, <2>4
  <1>22. ASSUME NEW p \in Ranks, NEW i \in 1..Len(mgmt'[Client][p]), Storing(Client, p, i)'
         PROVE  mgmt'[Client][p][i].resid \notin DOMAIN store[p]
    <2>1. CASE Old(p, i)
      <3>1. Storing(Client, p, i)
        BY <1>15, <1>22, <2>1 DEF Storing
      <3>. QED
        BY <1>0, <1>11, <1>15, <2>1, <3>1, StoringOnce
    <2>. QED
      BY <1>17, <2>1
  <1>23. OnceInv'
    <2>. SUFFICES ASSUME NEW d \in Procs, NEW p \in Ranks, NEW i \in 1..Len(mgmt'[d][p]), Storing(d, p, i)'
                  PROVE  /\ mgmt'[d][p][i].resid \notin DOMAIN store'[p]
                         /\ \A j \in 1..Len(mgmt'[d][p]) :
                               Storing(d, p, j)' /\ i # j => mgmt'[d][p][i].resid # mgmt'[d][p][j].resid
      BY DEF OnceInv
    <2>1. CASE d = Client
      BY <1>1, <1>21, <1>22, <2>1
    <2>2. CASE d # Client
      <3>1. mgmt'[d] = mgmt[d]
        BY <1>12, <2>2
      <3>2. \A j \in 1..Len(mgmt[d][p]) : Storing(d, p, j)' => Storing(d, p, j)
        BY <3>1 DEF Storing
      <3>. QED
        BY <1>0, <1>1, <3>1, <3>2, StoringOnce
    <2>. QED
      BY <2>1, <2>2
  <1>24. StoredInv'
    <2>. SUFFICES ASSUME NEW p \in Ranks, NEW key \in DOMAIN store'[p]
                  PROVE  key \in Int /\ (Given(p, key) \/ Taken(p, key))'
      BY DEF StoredInv
    <2>1. key \in Int /\ (Given(p, key) \/ Taken(p, key))
      BY <1>0, <1>1 DEF StoredInv
    <2>. QED
      BY <1>0, <1>13, <2>1, KeysStayGiven
  \* The parts that stay with the heads are other ones.
  <1>25. ASSUME NEW q \in Ranks, NEW part, NewKey(q, part),
                \A k \in 1..n : q = h => part.resid # dv[k].resid
         PROVE  NewKey(q, part)'
    <2>1. ASSUME NEW p \in Ranks, p = part.pid, NEW i \in 1..Len(mgmt'[Client][p]), Storing(Client, p, i)'
          PROVE  mgmt'[Client][p][i].resid # part.resid
      <3>1. CASE Old(p, i)
        <4>1. Storing(Client, p, i)
          BY <1>15, <2>1, <3>1 DEF Storing
        <4>. QED
          BY <1>15, <1>25, <2>1, <3>1, <4>1 DEF NewKey
      <3>2. CASE ~ Old(p, i)
        <4>1. NewKey(h, dv[K(p, i)]) /\ dv[K(p, i)].pid = p /\ mgmt'[Client][p][i].resid = dv[K(p, i)].resid
              /\ K(p, i) \in 1..n
          BY <1>7, <1>14, <3>2
        <4>2. GivenBy(p, h) /\ GivenBy(p, q)
          BY <1>25, <2>1, <4>1 DEF NewKey
        <4>3. q = h
          BY <4>2, OneHead
        <4>. QED
          BY <1>25, <4>1, <4>3
      <3>. QED
        BY <3>1, <3>2
    <2>2. /\ part.pid \in Ranks /\ part.resid \in Int
          /\ GivenBy(part.pid, q) /\ localKey'[q] < part.resid /\ part.resid <= -1
          /\ part.resid \notin DOMAIN store'[part.pid]
      BY <1>1, <1>25 DEF NewKey
    <2>. QED
      BY <2>1, <2>2 DEF NewKey, GivenBy
  <1>26. NewInv'
    <2>. SUFFICES ASSUME NEW q \in Ranks, NEW i \in 1..Len(reply'[q]), NEW k \in 1..Len(reply'[q][i])
                  PROVE  NewKey(q, reply[q][i][k])'
      BY Zenon DEF NewInv
    <2>1. CASE q = h
      <3>1. reply'[q][i] = s[i + 1] /\ i + 1 \in 1..Len(s) /\ i + 1 # 1
        BY <1>4, <1>10, <2>1
      <3>2. NewKey(h, s[i + 1][k])
        BY <1>0, <2>1, <3>1 DEF NewInv, s
      <3>3. ASSUME NEW l \in 1..n
            PROVE  s[i + 1][k].resid # dv[l].resid
        <4>1. /\ k \in 1..Len(reply[h][i + 1]) /\ i + 1 \in 1..Len(reply[h])
              /\ l \in 1..Len(reply[h][1]) /\ 1 \in 1..Len(reply[h]) /\ i + 1 # 1
          BY <1>3, <2>1, <3>1 DEF s, n
        <4>2. reply[h][i + 1][k].resid # reply[h][1][l].resid
          BY <1>0, <4>1, ZenonT(60) DEF ApartInv
        <4>. QED
          BY <1>3, <4>2 DEF s
      <3>4. \A part : part = s[i + 1][k] => NewKey(h, part)'
        BY <1>25, <3>2, <3>3
      <3>. QED
        BY <2>1, <3>1, <3>4
    <2>2. CASE q # h
      <3>1. reply'[q] = reply[q]
        BY <1>10, <2>2
      <3>2. NewKey(q, reply'[q][i][k])
        BY <1>0, <3>1 DEF NewInv
      <3>. QED
        BY <1>25, <2>2, <3>2
    <2>. QED
      BY <2>1, <2>2
  <1>27. ApartInv'
    <2>. SUFFICES ASSUME NEW q \in Ranks, NEW i \in 1..Len(reply'[q]), NEW j \in 1..Len(reply'[q]),
                         NEW k \in 1..Len(reply'[q][i]), NEW l \in 1..Len(reply'[q][j]), i # j \/ k # l
                  PROVE  reply'[q][i][k].resid # reply'[q][j][l].resid
      BY Zenon DEF ApartInv
    <2>1. CASE q = h
      <3>1. /\ reply'[q][i] = s[i + 1] /\ i + 1 \in 1..Len(s)
            /\ reply'[q][j] = s[j + 1] /\ j + 1 \in 1..Len(s)
        BY <1>4, <1>10, <2>1
      <3>2. i + 1 # j + 1 \/ k # l
        OBVIOUS
      <3>3. /\ k \in 1..Len(reply[h][i + 1]) /\ i + 1 \in 1..Len(reply[h])
            /\ l \in 1..Len(reply[h][j + 1]) /\ j + 1 \in 1..Len(reply[h])
        BY <3>1 DEF s
      <3>. DEFINE x == i + 1
                  y == j + 1
      <3>4. reply[h][x][k].resid # reply[h][y][l].resid
        <4>1. /\ k \in 1..Len(reply[h][x]) /\ x \in 1..Len(reply[h])
              /\ l \in 1..Len(reply[h][y]) /\ y \in 1..Len(reply[h]) /\ (x # y \/ k # l)
          BY <3>2, <3>3
        <4>. HIDE DEF x, y
        <4>. QED
          BY <1>0, <4>1, ZenonT(60) DEF ApartInv
      <3>. QED
        BY <3>1, <3>4 DEF s
    <2>2. CASE q # h
      <3>1. reply'[q] = reply[q]
        BY <1>10, <2>2
      <3>2. /\ i \in 1..Len(reply[q]) /\ j \in 1..Len(reply[q])
            /\ k \in 1..Len(reply[q][i]) /\ l \in 1..Len(reply[q][j])
        BY <3>1
      <3>3. reply[q][i][k].resid # reply[q][j][l].resid
        BY <1>0, <3>2, ZenonT(60) DEF ApartInv
      <3>. QED
        BY <3>1, <3>3
    <2>. QED
      BY <2>1, <2>2
  <1>. QED
    BY <1>18, <1>20, <1>23, <1>24, <1>26, <1>27 DEF KeyInv

-----------------------------------------------------------------------------
\* A process registers its parts under keys it takes itself.

LEMMA StoreAndRegisterKeys ==
    ASSUME KeyInv, NEW g \in Groups, NEW r \in Ranks, NEW extra, StoreAndRegister(g, r, extra)
    PROVE  KeyInv'
  <1>0. KeyTypes /\ SentInv /\ OnceInv /\ StoredInv /\ NewInv /\ ApartInv
    BY DEF KeyInv
  <1>. DEFINE n == PartsPerProc
              s == mgmt[r][r]
              new == [k \in 1..n |-> StoreMsg(nextKey[r] + k - 1, PartBytes(r, StoredAs(k) + 1))]
  <1>1. r \in Procs /\ r # Client /\ Client \in Procs
    BY ClientAssumption DEF Procs
  <1>2. /\ mgmt' = [mgmt EXCEPT ![r] = [mgmt[r] EXCEPT ![r] = s \o new]]
        /\ nextKey' = [nextKey EXCEPT ![r] = nextKey[r] + n]
        /\ UNCHANGED <<store, localKey, reply>>
    BY <1>0, <1>1 DEF StoreAndRegister, servers, program, KeyTypes
  <1>3. n \in Nat /\ nextKey[r] \in Nat
    BY <1>0, BoundsAssumption DEF KeyTypes
  <1>4. /\ IsSeq(new) /\ Len(new) = n
        /\ \A k \in 1..n : new[k].type = "STORE" /\ new[k].resid = nextKey[r] + k - 1
    <2>1. DOMAIN new = 1..n /\ Len(new) = n
      BY <1>3
    <2>2. \A k \in 1..n : new[k] = StoreMsg(nextKey[r] + k - 1, PartBytes(r, StoredAs(k) + 1))
      OBVIOUS
    <2>3. IsSeq(new)
      BY <2>1, <1>3 DEF IsSeq
    <2>. HIDE DEF new
    <2>4. \A key, data : StoreMsg(key, data).type = "STORE" /\ StoreMsg(key, data).resid = key
      BY DEF StoreMsg
    <2>5. ASSUME NEW k \in 1..n
          PROVE  new[k].type = "STORE" /\ new[k].resid = nextKey[r] + k - 1
      <3>1. new[k] = StoreMsg(nextKey[r] + k - 1, PartBytes(r, StoredAs(k) + 1))
        BY <2>2
      <3>. QED
        BY <2>4, <3>1
    <2>. QED
      BY <2>1, <2>3, <2>5
  <1>5. IsSeq(s) /\ Len(s) \in Nat
    BY <1>0, <1>1 DEF KeyTypes, IsSeq
  <1>. HIDE DEF s, new, n
  <1>6. /\ IsSeq(s \o new)
        /\ Len(s \o new) = Len(s) + Len(new)
        /\ \A i \in 1..(Len(s) + Len(new)) :
              \/ i \in 1..Len(s) /\ (s \o new)[i] = s[i]
              \/ i - Len(s) \in 1..Len(new) /\ (s \o new)[i] = new[i - Len(s)]
    BY <1>4, <1>5, ConcatOf
  <1>7. /\ DOMAIN mgmt' = Procs /\ \A d \in Procs : DOMAIN mgmt'[d] = Ranks
        /\ \A d \in Procs, q \in Ranks : d # r \/ q # r => mgmt'[d][q] = mgmt[d][q]
        /\ mgmt'[r][r] = s \o new
    BY <1>0, <1>1, <1>2 DEF KeyTypes
  <1>8. CountersGrow /\ nextKey' \in [Ranks -> Nat] /\ nextKey'[r] = nextKey[r] + n
    BY <1>0, <1>2, <1>3 DEF CountersGrow, KeyTypes
  <1>9. KeyTypes'
    BY <1>0, <1>2, <1>6, <1>7, <1>8 DEF KeyTypes
  <1>10. ASSUME NEW i \in 1..Len(mgmt'[r][r])
         PROVE  \/ i \in 1..Len(s) /\ mgmt'[r][r][i] = s[i]
                \/ /\ i - Len(s) \in 1..n /\ mgmt'[r][r][i].type = "STORE"
                   /\ mgmt'[r][r][i].resid = nextKey[r] + (i - Len(s)) - 1
    <2>1. i \in 1..(Len(s) + Len(new))
      BY <1>6, <1>7
    <2>2. \/ i \in 1..Len(s) /\ mgmt'[r][r][i] = s[i]
          \/ i - Len(s) \in 1..n /\ mgmt'[r][r][i] = new[i - Len(s)]
      BY <1>4, <1>6, <1>7, <2>1
    <2>. QED
      BY <1>4, <2>2
  <1>11. ASSUME NEW key \in Int, Given(r, key) \/ Taken(r, key)
         PROVE  key < nextKey[r]
    BY <1>0, <1>3, <1>11, KeySigns DEF Taken
  <1>12. ASSUME NEW i \in 1..Len(s), s[i].type = "STORE"
         PROVE  s[i].resid \in Int /\ s[i].resid < nextKey[r]
    <2>1. MayBeSent(r, r, s[i])
      BY <1>0, <1>1 DEF SentInv, s
    <2>. QED
      BY <1>11, <1>12, <2>1 DEF MayBeSent
  <1>13. ASSUME NEW i \in 1..Len(mgmt'[r][r])
         PROVE  MayBeSent(r, r, mgmt[r][r][i])'
    <2>1. CASE i \in 1..Len(s) /\ mgmt'[r][r][i] = s[i]
      <3>1. MayBeSent(r, r, mgmt'[r][r][i])
        BY <1>0, <1>1, <2>1 DEF SentInv, s
      <3>. QED
        BY <1>0, <1>1, <1>8, <3>1, KeysStayGiven, Zenon
    <2>2. CASE /\ i - Len(s) \in 1..n /\ mgmt'[r][r][i].type = "STORE"
               /\ mgmt'[r][r][i].resid = nextKey[r] + (i - Len(s)) - 1
      <3>. DEFINE key == nextKey[r] + (i - Len(s)) - 1
      <3>1. key \in Int /\ 0 <= key /\ key < nextKey'[r]
        BY <1>3, <1>5, <1>8, <2>2
      <3>2. mgmt'[r][r][i].resid = key
        BY <2>2
      <3>. HIDE DEF key
      <3>. QED
        BY <2>2, <3>1, <3>2 DEF MayBeSent, Taken
    <2>. QED
      BY <1>10, <2>1, <2>2
  <1>14. SentInv'
    <2>. SUFFICES ASSUME NEW d \in Procs, NEW p \in Ranks, NEW i \in 1..Len(mgmt'[d][p])
                  PROVE  MayBeSent(d, p, mgmt[d][p][i])'
      BY Zenon DEF SentInv
    <2>1. CASE d = r /\ p = r
      <3>1. i \in 1..Len(mgmt'[r][r])
        BY <2>1
      <3>2. MayBeSent(r, r, mgmt[r][r][i])'
        BY <1>13, <3>1
      <3>. QED
        BY <2>1, <3>2
    <2>2. CASE d # r \/ p # r
      <3>1. mgmt'[d][p] = mgmt[d][p]
        BY <1>7, <2>2
      <3>2. MayBeSent(d, p, mgmt'[d][p][i])
        BY <1>0, <3>1 DEF SentInv
      <3>3. MayBeSent(d, p, mgmt'[d][p][i]) => MayBeSent(d, p, mgmt[d][p][i])'
        BY <1>0, <1>8, KeysStayGiven, Zenon
      <3>. QED
        BY <3>2, <3>3, Zenon
    <2>. QED
      BY <2>1, <2>2

  <1>15. ASSUME NEW i \in 1..Len(mgmt'[r][r]), Storing(r, r, i)'
         PROVE  /\ mgmt'[r][r][i].resid \notin DOMAIN store[r]
                /\ \A j \in 1..Len(mgmt'[r][r]) :
                      Storing(r, r, j)' /\ i # j => mgmt'[r][r][i].resid # mgmt'[r][r][j].resid
    <2>1. CASE i \in 1..Len(s) /\ mgmt'[r][r][i] = s[i]
      <3>1. Storing(r, r, i) /\ s[i].type = "STORE"
        BY <1>15, <2>1 DEF Storing, s
      <3>2. ASSUME NEW j \in 1..Len(mgmt'[r][r]), Storing(r, r, j)', i # j
            PROVE  mgmt'[r][r][i].resid # mgmt'[r][r][j].resid
        <4>1. CASE j \in 1..Len(s) /\ mgmt'[r][r][j] = s[j]
          <5>1. Storing(r, r, j)
            BY <3>2, <4>1 DEF Storing, s
          <5>. QED
            BY <1>0, <1>1, <2>1, <3>1, <3>2, <4>1, <5>1, StoringOnce DEF s
        <4>2. CASE j - Len(s) \in 1..n /\ mgmt'[r][r][j].resid = nextKey[r] + (j - Len(s)) - 1
          BY <1>3, <1>5, <1>12, <2>1, <3>1, <4>2
        <4>. QED
          BY <1>10, <4>1, <4>2
      <3>3. mgmt'[r][r][i].resid \notin DOMAIN store[r]
        BY <1>0, <1>1, <2>1, <3>1, StoringOnce DEF s
      <3>. QED
        BY <3>2, <3>3
    <2>2. CASE i - Len(s) \in 1..n /\ mgmt'[r][r][i].resid = nextKey[r] + (i - Len(s)) - 1
      <3>1. mgmt'[r][r][i].resid \notin DOMAIN store[r]
        <4>1. ASSUME NEW key \in DOMAIN store[r] PROVE key \in Int /\ key < nextKey[r]
          BY <1>0, <1>11 DEF StoredInv
        <4>2. ~ (mgmt'[r][r][i].resid < nextKey[r])
          BY <1>3, <1>5, <2>2
        <4>. QED
          BY <4>1, <4>2
      <3>2. ASSUME NEW j \in 1..Len(mgmt'[r][r]), Storing(r, r, j)', i # j
            PROVE  mgmt'[r][r][i].resid # mgmt'[r][r][j].resid
        <4>1. CASE j \in 1..Len(s) /\ mgmt'[r][r][j] = s[j]
          <5>1. s[j].type = "STORE"
            BY <3>2, <4>1 DEF Storing
          <5>2. s[j].resid \in Int /\ s[j].resid < nextKey[r]
            BY <1>12, <4>1, <5>1
          <5>. QED
            BY <1>3, <1>5, <2>2, <4>1, <5>2
        <4>2. CASE j - Len(s) \in 1..n /\ mgmt'[r][r][j].resid = nextKey[r] + (j - Len(s)) - 1
          BY <1>3, <1>5, <2>2, <3>2, <4>2, SMTT(40)
        <4>. QED
          BY <1>10, <4>1, <4>2
      <3>. QED
        BY <3>1, <3>2
    <2>. QED
      BY <1>10, <2>1, <2>2
  <1>16. OnceInv'
    <2>. SUFFICES ASSUME NEW d \in Procs, NEW p \in Ranks, NEW i \in 1..Len(mgmt'[d][p]), Storing(d, p, i)'
                  PROVE  /\ mgmt'[d][p][i].resid \notin DOMAIN store'[p]
                         /\ \A j \in 1..Len(mgmt'[d][p]) :
                               Storing(d, p, j)' /\ i # j => mgmt'[d][p][i].resid # mgmt'[d][p][j].resid
      BY DEF OnceInv
    <2>1. CASE d = r /\ p = r
      <3>1. i \in 1..Len(mgmt'[r][r]) /\ Storing(r, r, i)'
        BY <2>1
      <3>. QED
        BY <1>2, <1>15, <2>1, <3>1
    <2>2. CASE d # r \/ p # r
      <3>1. mgmt'[d][p] = mgmt[d][p]
        BY <1>7, <2>2
      <3>2. \A j \in 1..Len(mgmt[d][p]) : Storing(d, p, j)' => Storing(d, p, j)
        BY <3>1 DEF Storing
      <3>. QED
        BY <1>0, <1>2, <3>1, <3>2, StoringOnce
    <2>. QED
      BY <2>1, <2>2
  <1>17. StoredInv'
    <2>. SUFFICES ASSUME NEW p \in Ranks, NEW key \in DOMAIN store'[p]
                  PROVE  key \in Int /\ (Given(p, key) \/ Taken(p, key))'
      BY DEF StoredInv
    <2>1. key \in Int /\ (Given(p, key) \/ Taken(p, key))
      BY <1>0, <1>2 DEF StoredInv
    <2>. QED
      BY <1>0, <1>8, <2>1, KeysStayGiven
  <1>18. ASSUME NEW h \in Ranks, NEW part, NewKey(h, part)
         PROVE  NewKey(h, part)'
    <2>1. ASSUME NEW p \in Ranks, p = part.pid, NEW i \in 1..Len(mgmt'[Client][p]), Storing(Client, p, i)'
          PROVE  mgmt'[Client][p][i].resid # part.resid
      <3>1. mgmt'[Client][p] = mgmt[Client][p]
        BY <1>1, <1>7
      <3>2. Storing(Client, p, i)
        BY <2>1, <3>1 DEF Storing
      <3>. QED
        BY <1>18, <2>1, <3>1, <3>2 DEF NewKey
    <2>2. /\ part.pid \in Ranks /\ part.resid \in Int
          /\ GivenBy(part.pid, h) /\ localKey'[h] < part.resid /\ part.resid <= -1
          /\ part.resid \notin DOMAIN store'[part.pid]
      BY <1>2, <1>18 DEF NewKey
    <2>. QED
      BY <2>1, <2>2 DEF NewKey, GivenBy
  <1>19. NewInv'
    <2>. SUFFICES ASSUME NEW h \in Ranks, NEW i \in 1..Len(reply'[h]), NEW k \in 1..Len(reply'[h][i])
                  PROVE  NewKey(h, reply[h][i][k])'
      BY Zenon DEF NewInv
    <2>1. NewKey(h, reply'[h][i][k])
      BY <1>0, <1>2 DEF NewInv
    <2>. QED
      BY <1>18, <2>1
  <1>20. ApartInv'
    BY <1>0, <1>2, ApartKept
  <1>. QED
    BY <1>9, <1>14, <1>16, <1>17, <1>19, <1>20 DEF KeyInv

-----------------------------------------------------------------------------
\* A part is stored.

LEMMA HandleStoreKeys ==
    ASSUME KeyInv, NEW c \in Procs, NEW p \in Ranks, HandleStore(c, p)
    PROVE  KeyInv'
  <1>0. KeyTypes /\ SentInv /\ OnceInv /\ StoredInv /\ NewInv /\ ApartInv
    BY DEF KeyInv
  <1>. DEFINE m == mgmt[c][p][1]
              key == m.resid
  <1>1. /\ mgmt[c][p] # << >> /\ mgmt' = Received(c, p) /\ Head(mgmt[c][p]).type = "STORE"
        /\ store' = [store EXCEPT ![p] = StorePartMessage(store[p], Head(mgmt[c][p]).resid, Head(mgmt[c][p]).data)]
        /\ UNCHANGED <<nextKey, localKey, reply>>
    BY <1>0 DEF HandleStore, Handles, program, KeyTypes
  <1>2. /\ MayBeSent(c, p, m) /\ Head(mgmt[c][p]) = m /\ Storing(c, p, 1) /\ 1 \in 1..Len(mgmt[c][p])
        /\ m.type = "STORE"
    BY <1>0, <1>1, HeadSent DEF Storing
  <1>3. key \in Int /\ ((c = Client /\ Given(p, key)) \/ (c = p /\ Taken(p, key)))
    BY <1>2 DEF MayBeSent
  <1>4. /\ DOMAIN store' = Ranks /\ DOMAIN store'[p] = DOMAIN store[p] \cup {key}
        /\ \A q \in Ranks : q # p => store'[q] = store[q]
    <2>1. DOMAIN StorePartMessage(store[p], key, m.data) = DOMAIN store[p] \cup {key}
      BY DEF StorePartMessage, WithPart
    <2>2. store' = [store EXCEPT ![p] = StorePartMessage(store[p], key, m.data)] /\ DOMAIN store = Ranks
      BY <1>0, <1>1, <1>2 DEF KeyTypes
    <2>. HIDE DEF key, m
    <2>. QED
      BY <2>1, <2>2
  <1>5. /\ DOMAIN mgmt' = Procs /\ \A d \in Procs : DOMAIN mgmt'[d] = Ranks
        /\ \A d \in Procs, q \in Ranks : IsSeq(mgmt'[d][q])
        /\ \A d \in Procs, q \in Ranks : d # c \/ q # p => mgmt'[d][q] = mgmt[d][q]
        /\ \A i \in 1..Len(mgmt'[c][p]) : i + 1 \in 1..Len(mgmt[c][p]) /\ mgmt'[c][p][i] = mgmt[c][p][i + 1]
    BY <1>0, <1>1, ReceivedEffect
  <1>6. CountersGrow
    BY <1>0, <1>1, CountersStay
  <1>7. KeyTypes'
    BY <1>0, <1>1, <1>4, <1>5 DEF KeyTypes
  <1>8. \A i \in 1..Len(mgmt[c][p]) : Storing(c, p, i) /\ i # 1 => mgmt[c][p][i].resid # key
    BY <1>0, <1>2, StoringOnce
  <1>9. key \notin DOMAIN store[p]
    BY <1>0, <1>2, StoringOnce
  <1>. HIDE DEF key, m
  <1>. DEFINE src(d, q, i) == IF d = c /\ q = p THEN i + 1 ELSE i
  <1>10. ASSUME NEW d \in Procs, NEW q \in Ranks, NEW i \in 1..Len(mgmt'[d][q])
         PROVE  /\ src(d, q, i) \in 1..Len(mgmt[d][q]) /\ mgmt'[d][q][i] = mgmt[d][q][src(d, q, i)]
                /\ d = c /\ q = p => src(d, q, i) # 1
                /\ \A j \in 1..Len(mgmt'[d][q]) : i # j => src(d, q, i) # src(d, q, j)
    <2>1. CASE d = c /\ q = p
      BY <1>5, <2>1
    <2>2. CASE ~ (d = c /\ q = p)
      BY <1>5, <2>2
    <2>. QED
      BY <2>1, <2>2
  <1>. HIDE DEF src
  <1>11. ASSUME NEW d \in Procs, NEW q \in Ranks, NEW i \in 1..Len(mgmt'[d][q]), Storing(d, q, i)'
         PROVE  Storing(d, q, src(d, q, i))
    BY <1>10, <1>11 DEF Storing
  \* The other parts that are on their way have other keys.
  <1>12. ASSUME NEW d \in Procs, NEW i \in 1..Len(mgmt'[d][p]), Storing(d, p, i)'
         PROVE  mgmt'[d][p][i].resid # key
    <2>1. Storing(d, p, src(d, p, i)) /\ src(d, p, i) \in 1..Len(mgmt[d][p])
      BY <1>10, <1>11, <1>12
    <2>2. mgmt'[d][p][i] = mgmt[d][p][src(d, p, i)] /\ (d = c => src(d, p, i) # 1)
      BY <1>10
    <2>3. CASE d = c
      BY <1>8, <2>1, <2>2, <2>3
    <2>4. CASE d # c
      <3>. DEFINE x == mgmt'[d][p][i]
      <3>1. MayBeSent(d, p, x) /\ x.type = "STORE"
        BY <1>0, <2>1, <2>2 DEF SentInv, Storing
      <3>. HIDE DEF x
      <3>2. x.resid \in Int /\ ((d = Client /\ Given(p, x.resid)) \/ (d = p /\ Taken(p, x.resid)))
        BY <3>1 DEF MayBeSent
      <3>3. x.resid # key
        BY <1>0, <1>3, <2>4, <3>2, KeySigns
      <3>. QED
        BY <3>3 DEF x
    <2>. QED
      BY <2>3, <2>4
  <1>13. SentInv'
    <2>. SUFFICES ASSUME NEW d \in Procs, NEW q \in Ranks, NEW i \in 1..Len(mgmt'[d][q])
                  PROVE  MayBeSent(d, q, mgmt[d][q][i])'
      BY Zenon DEF SentInv
    <2>1. MayBeSent(d, q, mgmt'[d][q][i])
      BY <1>0, <1>10 DEF SentInv
    <2>2. MayBeSent(d, q, mgmt'[d][q][i]) => MayBeSent(d, q, mgmt[d][q][i])'
      BY <1>0, <1>6, KeysStayGiven, Zenon
    <2>. QED
      BY <2>1, <2>2, Zenon
  <1>14. OnceInv'
    <2>. SUFFICES ASSUME NEW d \in Procs, NEW q \in Ranks, NEW i \in 1..Len(mgmt'[d][q]), Storing(d, q, i)'
                  PROVE  /\ mgmt'[d][q][i].resid \notin DOMAIN store'[q]
                         /\ \A j \in 1..Len(mgmt'[d][q]) :
                               Storing(d, q, j)' /\ i # j => mgmt'[d][q][i].resid # mgmt'[d][q][j].resid
      BY DEF OnceInv
    <2>. DEFINE x == src(d, q, i)
    <2>1. /\ x \in 1..Len(mgmt[d][q]) /\ Storing(d, q, x)
          /\ mgmt'[d][q][i] = mgmt[d][q][x]
      BY <1>10, <1>11
    <2>. HIDE DEF x
    <2>2. mgmt'[d][q][i].resid \notin DOMAIN store[q]
      BY <1>0, <2>1, StoringOnce
    <2>3. mgmt'[d][q][i].resid \notin DOMAIN store'[q]
      <3>1. CASE q = p
        <4>1. i \in 1..Len(mgmt'[d][p]) /\ Storing(d, p, i)' /\ mgmt'[d][q][i] = mgmt'[d][p][i]
          BY <3>1
        <4>2. mgmt'[d][p][i].resid # key
          BY <1>12, <4>1
        <4>. QED
          BY <1>4, <2>2, <3>1, <4>1, <4>2
      <3>2. CASE q # p
        BY <1>4, <2>2, <3>2
      <3>. QED
        BY <3>1, <3>2
    <2>4. ASSUME NEW j \in 1..Len(mgmt'[d][q]), Storing(d, q, j)', i # j
          PROVE  mgmt'[d][q][i].resid # mgmt'[d][q][j].resid
      <3>. DEFINE y == src(d, q, j)
      <3>1. /\ y \in 1..Len(mgmt[d][q]) /\ Storing(d, q, y)
            /\ mgmt'[d][q][j] = mgmt[d][q][y]
        BY <1>10, <1>11, <2>4
      <3>2. x # y
        BY <1>10, <2>4 DEF x
      <3>. HIDE DEF y
      <3>3. mgmt[d][q][x].resid # mgmt[d][q][y].resid
        BY <1>0, <2>1, <3>1, <3>2, StoringOnce
      <3>. QED
        BY <2>1, <3>1, <3>3
    <2>. QED
      BY <2>3, <2>4
  <1>15. StoredInv'
    <2>. SUFFICES ASSUME NEW q \in Ranks, NEW k \in DOMAIN store'[q]
                  PROVE  k \in Int /\ (Given(q, k) \/ Taken(q, k))'
      BY DEF StoredInv
    <2>1. k \in Int /\ (Given(q, k) \/ Taken(q, k))
      BY <1>0, <1>3, <1>4 DEF StoredInv
    <2>. QED
      BY <1>0, <1>6, <2>1, KeysStayGiven
  <1>16. ASSUME NEW h \in Ranks, NEW part, NewKey(h, part)
         PROVE  NewKey(h, part)'
    <2>1. Client \in Procs
      BY DEF Procs
    <2>2. /\ part.pid \in Ranks /\ part.resid \in Int
          /\ GivenBy(part.pid, h) /\ localKey'[h] < part.resid /\ part.resid <= -1
          /\ part.resid \notin DOMAIN store[part.pid]
      BY <1>1, <1>16 DEF NewKey
    <2>3. ASSUME NEW q \in Ranks, q = part.pid, NEW i \in 1..Len(mgmt'[Client][q]), Storing(Client, q, i)'
          PROVE  mgmt'[Client][q][i].resid # part.resid
      <3>. DEFINE x == src(Client, q, i)
      <3>1. /\ x \in 1..Len(mgmt[Client][q]) /\ Storing(Client, q, x)
            /\ mgmt'[Client][q][i] = mgmt[Client][q][x]
        BY <1>10, <1>11, <2>1, <2>3
      <3>. HIDE DEF x
      <3>. QED
        BY <1>16, <2>3, <3>1 DEF NewKey
    <2>4. part.pid = p => part.resid # key
      <3>. SUFFICES ASSUME part.pid = p, part.resid = key PROVE FALSE
        OBVIOUS
      <3>1. CASE c = Client
        BY <1>2, <1>16, <3>1 DEF NewKey, key, m
      <3>2. CASE Taken(p, key)
        BY <2>2, <3>2 DEF Taken
      <3>. QED
        BY <1>3, <3>1, <3>2
    <2>5. part.resid \notin DOMAIN store'[part.pid]
      <3>1. CASE part.pid = p
        BY <1>4, <2>2, <2>4, <3>1
      <3>2. CASE part.pid # p
        BY <1>4, <2>2, <3>2
      <3>. QED
        BY <3>1, <3>2
    <2>. QED
      BY <2>2, <2>3, <2>5 DEF NewKey, GivenBy
  <1>17. NewInv'
    <2>. SUFFICES ASSUME NEW h \in Ranks, NEW i \in 1..Len(reply'[h]), NEW k \in 1..Len(reply'[h][i])
                  PROVE  NewKey(h, reply[h][i][k])'
      BY Zenon DEF NewInv
    <2>1. NewKey(h, reply'[h][i][k])
      BY <1>0, <1>1 DEF NewInv
    <2>. QED
      BY <1>16, <2>1
  <1>18. ApartInv'
    BY <1>0, <1>1, ApartKept
  <1>. QED
    BY <1>7, <1>13, <1>14, <1>15, <1>17, <1>18 DEF KeyInv

-----------------------------------------------------------------------------
\* The descriptors the parts of a released vector are found in.

\* A descriptor that is gathered has the parts of every process.
LEMMA GatheredLength ==
    ASSUME NEW s, Len(s) \in Nat, Len(s[1]) \in Nat
    PROVE  Len(Gathered(s)) \in Nat
  <1>. DEFINE q == Len(s[1])
              p == Len(s)
  <1>1. q \in Nat /\ p \in Nat
    OBVIOUS
  <1>2. q * p \in Nat /\ (6 * q) * p \in Nat
    <2>. HIDE DEF q, p
    <2>. QED
      BY <1>1
  <1>3. GatheredBuf(s)[0] = q * p
    <2>1. 0 \in 0..(1 + (6 * q) * p)
      <3>. HIDE DEF q, p
      <3>. QED
        BY <1>2
    <2>. DEFINE at(w) == CASE w = 0 -> q * p
                           [] w \in PartsOffset..(PartsOffset + (6 * q) * p - 1) ->
                                LET k == (w - PartsOffset) \div (6 * q)
                                IN  Buf(s[k + 1])[PartsOffset + ((w - PartsOffset) % (6 * q))]
                           [] OTHER -> 0
    <2>2. at(0) = q * p
      BY <1>1, <1>2 DEF PartsOffset
    <2>3. GatheredBuf(s) = [w \in 0..(1 + (6 * q) * p) |-> at(w)]
      BY DEF GatheredBuf, PartWords
    <2>. HIDE DEF at
    <2>. QED
      BY <2>1, <2>2, <2>3
  <1>. HIDE DEF q, p
  <1>4. Gathered(s) = [i \in 1..(q * p) |-> GetPart(GatheredBuf(s), i)]
    BY <1>3 DEF Gathered
  <1>. QED
    BY <1>2, <1>4

LEMMA StorePartsLength ==
    ASSUME KeyInv, LengthInv, NEW h \in Ranks, StoreParts(h)
    PROVE  LengthInv'
  <1>. DEFINE v == reader[Client].vec
              s == reply[h]
              dv == Head(s)
  <1>1. s # << >> /\ dvs' = [dvs EXCEPT ![v] = dv] /\ made' = made
    BY DEF StoreParts
  <1>2. IsSeq(s) /\ \A i \in 1..Len(s) : IsSeq(s[i])
    BY DEF KeyInv, KeyTypes
  <1>. HIDE DEF s, v
  <1>3. dv = s[1] /\ Len(s) >= 1 /\ Len(s) \in Nat
    BY <1>1, <1>2, TailOf DEF IsSeq
  <1>. HIDE DEF dv
  <1>4. Len(dv) \in Nat
    BY <1>2, <1>3 DEF IsSeq
  <1>. QED
    BY <1>1, <1>4 DEF LengthInv

LEMMA StoreAndRegisterLength ==
    ASSUME LengthInv, NEW g \in Groups, NEW r \in Ranks, NEW extra, StoreAndRegister(g, r, extra)
    PROVE  LengthInv'
  <1>1. dvs' = dvs /\ made' = [made EXCEPT ![r] = Registered(r, extra)]
    BY DEF StoreAndRegister, program
  <1>2. Len(Registered(r, extra)) = PartsPerProc /\ PartsPerProc \in Nat
    BY BoundsAssumption DEF Registered
  <1>. QED
    BY <1>1, <1>2 DEF LengthInv

LEMMA EndFetchLength ==
    ASSUME LengthInv, NEW g \in Groups, EndFetch(g)
    PROVE  LengthInv'
  <1>. DEFINE s == [k \in 1..Len(g) |-> made[g[k]]]
              dv == Gathered(s)
              v == job[g]
  <1>1. dvs' = [dvs EXCEPT ![v] = dv]
    BY DEF EndFetch
  <1>2. made' = [r \in Ranks |-> IF \E k \in DOMAIN g : g[k] = r THEN << >> ELSE made[r]]
    BY DEF EndFetch
  <1>3. Len(s) = Len(g) /\ Len(g) \in Nat /\ s[1] = made[g[1]] /\ g[1] \in Ranks
    BY GroupProcs
  <1>4. Len(s[1]) \in Nat
    BY <1>3 DEF LengthInv
  <1>. HIDE DEF s
  <1>5. Len(dv) \in Nat
    BY <1>3, <1>4, GatheredLength
  <1>. HIDE DEF dv, v
  <1>6. DOMAIN dvs' = Vectors /\ \A w \in Vectors : Len(dvs'[w]) \in Nat
    BY <1>1, <1>5 DEF LengthInv
  <1>7. DOMAIN made' = Ranks /\ \A r \in Ranks : Len(made'[r]) \in Nat
    <2>1. \A r \in Ranks : made'[r] = << >> \/ made'[r] = made[r]
      BY <1>2
    <2>2. Len(<< >>) = 0
      OBVIOUS
    <2>. QED
      BY <1>2, <2>1, <2>2 DEF LengthInv
  <1>. QED
    BY <1>6, <1>7 DEF LengthInv

\* The other steps make and gather no descriptor.
LEMMA NothingMade ==
    ASSUME LengthInv, dvs' = dvs, made' = made
    PROVE  LengthInv'
  BY DEF LengthInv

-----------------------------------------------------------------------------
\* Every step.

LEMMA InitKeys ==
    ASSUME Init
    PROVE  KeyInv /\ LengthInv
  <1>1. /\ \A c \in Procs, p \in Ranks : mgmt[c][p] = << >>
        /\ \A h \in Ranks : reply[h] = << >> /\ localKey[h] = -1
        /\ \A p \in Ranks : store[p] = << >> /\ nextKey[p] = 0 /\ made[p] = << >>
        /\ \A v \in Vectors : dvs[v] = << >>
    BY DEF Init, EmptyStore
  <1>2. IsSeq(<< >>) /\ Len(<< >>) = 0 /\ DOMAIN << >> = {}
    <2>1. << >> \in Seq({})
      OBVIOUS
    <2>2. IsSeq(<< >>)
      BY ONLY <2>1, TypedIsSeq
    <2>3. Len(<< >>) = 0 /\ DOMAIN << >> = {}
      OBVIOUS
    <2>. QED
      BY <2>2, <2>3
  <1>3. KeyTypes
    <2>1. /\ DOMAIN mgmt = Procs /\ DOMAIN reply = Ranks /\ DOMAIN store = Ranks
          /\ \A c \in Procs : DOMAIN mgmt[c] = Ranks
      BY DEF Init
    <2>2. nextKey \in [Ranks -> Nat] /\ localKey \in [Ranks -> Int]
      BY DEF Init
    <2>3. \A c \in Procs, p \in Ranks : IsSeq(mgmt[c][p])
      BY <1>1, <1>2
    <2>4. \A h \in Ranks : IsSeq(reply[h]) /\ \A i \in 1..Len(reply[h]) : IsSeq(reply[h][i])
      BY <1>1, <1>2
    <2>5. \A h \in Ranks : localKey[h] <= -1
      BY <1>1
    <2>. QED
      BY <2>1, <2>2, <2>3, <2>4, <2>5 DEF KeyTypes
  <1>4. SentInv /\ OnceInv
    BY <1>1, <1>2 DEF SentInv, OnceInv
  <1>5. StoredInv
    BY <1>1, <1>2 DEF StoredInv
  <1>6. NewInv /\ ApartInv
    BY <1>1, <1>2 DEF NewInv, ApartInv
  <1>7. LengthInv
    <2>1. DOMAIN dvs = Vectors /\ DOMAIN made = Ranks
      BY DEF Init
    <2>. QED
      BY <1>1, <1>2, <2>1 DEF LengthInv
  <1>. QED
    BY <1>3, <1>4, <1>5, <1>6, <1>7 DEF KeyInv

LEMMA ServerKeys ==
    ASSUME SameHead, KeyInv, LengthInv, NEW p \in Ranks, ServerStep(p) \/ SpuriousWakeup(p)
    PROVE  KeyInv' /\ LengthInv'
  <1>1. ASSUME NEW c \in Procs, HandleDistribute(c, p)
        PROVE  KeyInv' /\ LengthInv'
    <2>1. dvs' = dvs /\ made' = made
      BY <1>1 DEF HandleDistribute
    <2>. QED
      BY <1>1, <2>1, HandleDistributeKeys, NothingMade
  <1>2. ASSUME NEW c \in Procs, HandleStore(c, p)
        PROVE  KeyInv' /\ LengthInv'
    <2>1. dvs' = dvs /\ made' = made
      BY <1>2, SMTT(40) DEF HandleStore, program
    <2>. QED
      BY <1>2, <2>1, HandleStoreKeys, NothingMade, SMTT(40)
  <1>3. ASSUME NEW c \in Procs, HandleGet(c, p)
        PROVE  KeyInv' /\ LengthInv'
    <2>1. dvs' = dvs /\ made' = made
      BY <1>3 DEF HandleGet, program
    <2>. QED
      BY <1>3, <2>1, HandleGetKeys, NothingMade
  <1>4. ASSUME NEW c \in Procs, HandleRelease(c, p)
        PROVE  KeyInv' /\ LengthInv'
    <2>1. dvs' = dvs /\ made' = made
      BY <1>4 DEF HandleRelease, program
    <2>. QED
      BY <1>4, <2>1, HandleReleaseKeys, NothingMade
  <1>5. CASE CheckDvPartRequired(p)
    <2>1. UNCHANGED <<mgmt, reply, store, nextKey, localKey>> /\ dvs' = dvs /\ made' = made
      BY <1>5 DEF CheckDvPartRequired, program
    <2>. QED
      BY <2>1, NothingMoved, NothingMade
  <1>6. CASE SpuriousWakeup(p)
    <2>1. UNCHANGED <<mgmt, reply, store, nextKey, localKey>> /\ dvs' = dvs /\ made' = made
      BY <1>6 DEF SpuriousWakeup, servers, program
    <2>. QED
      BY <2>1, NothingMoved, NothingMade
  <1>. QED
    BY <1>1, <1>2, <1>3, <1>4, <1>5, <1>6 DEF ServerStep

LEMMA ReaderKeys ==
    ASSUME KeyInv, LengthInv, NEW r \in Procs, ReaderStep(r)
    PROVE  KeyInv' /\ LengthInv'
  <1>1. CASE AskPieces(r)
    <2>1. dvs' = dvs /\ made' = made
      BY <1>1 DEF AskPieces, program
    <2>. QED
      BY <1>1, <2>1, AskPiecesKeys, NothingMade
  <1>2. ASSUME NEW p \in Ranks, ReceivePiece(r, p)
        PROVE  KeyInv' /\ LengthInv'
    <2>1. UNCHANGED <<mgmt, reply, store, nextKey, localKey>> /\ dvs' = dvs /\ made' = made
      BY <1>2 DEF ReceivePiece, servers, program
    <2>. QED
      BY <2>1, NothingMoved, NothingMade
  <1>. QED
    BY <1>1, <1>2 DEF ReaderStep

LEMMA ActorKeys ==
    ASSUME KeyInv, LengthInv, NEW g \in Groups, ActorStep(g)
    PROVE  KeyInv' /\ LengthInv'
  <1>1. \A s \in DOMAIN g : g[s] \in Ranks /\ g[s] \in Procs
    BY GroupProcs DEF Procs
  <1>2. ASSUME NEW s \in DOMAIN g, StartFetch(g, s)
        PROVE  KeyInv' /\ LengthInv'
    <2>1. UNCHANGED <<mgmt, reply, store, nextKey, localKey>> /\ dvs' = dvs /\ made' = made
      BY <1>2 DEF StartFetch, servers, program
    <2>. QED
      BY <2>1, NothingMoved, NothingMade
  <1>3. ASSUME NEW s \in DOMAIN g, ReadLocal(g[s])
        PROVE  KeyInv' /\ LengthInv'
    <2>1. UNCHANGED <<mgmt, reply, store, nextKey, localKey>> /\ dvs' = dvs /\ made' = made
      BY <1>3 DEF ReadLocal, servers, program
    <2>. QED
      BY <2>1, NothingMoved, NothingMade
  <1>4. ASSUME NEW s \in DOMAIN g, ReaderStep(g[s])
        PROVE  KeyInv' /\ LengthInv'
    BY <1>1, <1>4, ReaderKeys
  <1>5. ASSUME NEW s \in DOMAIN g, NEW extra \in Misdeclared, StoreAndRegister(g, g[s], extra)
        PROVE  KeyInv' /\ LengthInv'
    BY <1>1, <1>5, StoreAndRegisterKeys, StoreAndRegisterLength
  <1>6. CASE EndFetch(g)
    <2>1. UNCHANGED <<mgmt, reply, store, nextKey, localKey>>
      BY <1>6 DEF EndFetch, servers
    <2>. QED
      BY <1>6, <2>1, NothingMoved, EndFetchLength
  <1>. QED
    BY <1>2, <1>3, <1>4, <1>5, <1>6 DEF ActorStep, WorkerStep

LEMMA ProgramKeys ==
    ASSUME SameHead, KeyInv, LengthInv, ProgramStep \/ ProgramChoice
    PROVE  KeyInv' /\ LengthInv'
  <1>1. ASSUME NEW h \in Ranks, StoreParts(h)
        PROVE  KeyInv' /\ LengthInv'
    BY <1>1, StorePartsKeys, StorePartsLength
  <1>2. CASE ReaderStep(Client)
    BY <1>2, ReaderKeys DEF Procs
  <1>3. CASE ProgramGot
    <2>1. UNCHANGED <<mgmt, reply, store, nextKey, localKey>> /\ dvs' = dvs /\ made' = made
      BY <1>3 DEF ProgramGot, servers
    <2>. QED
      BY <2>1, NothingMoved, NothingMade
  <1>4. ASSUME NEW v \in Vectors, ReleaseVector(v)
        PROVE  KeyInv' /\ LengthInv'
    <2>1. dvs' = dvs /\ made' = made
      BY <1>4 DEF ReleaseVector
    <2>. QED
      BY <1>4, <2>1, ReleaseVectorKeys, NothingMade
  <1>5. ASSUME NEW v \in Vectors, ProgramGet(v)
        PROVE  KeyInv' /\ LengthInv'
    <2>1. UNCHANGED <<mgmt, reply, store, nextKey, localKey>> /\ dvs' = dvs /\ made' = made
      BY <1>5 DEF ProgramGet, servers, program
    <2>. QED
      BY <2>1, NothingMoved, NothingMade
  <1>6. ASSUME NEW v \in Vectors, NEW g \in Groups, AskDistribute(g, v)
        PROVE  KeyInv' /\ LengthInv'
    <2>1. dvs' = dvs /\ made' = made
      BY <1>6 DEF AskDistribute
    <2>. QED
      BY <1>6, <2>1, AskDistributeKeys, NothingMade
  <1>7. ASSUME NEW v \in Vectors, NEW g \in Groups, NEW w \in Vectors, CallFetch(g, v, w)
        PROVE  KeyInv' /\ LengthInv'
    <2>1. UNCHANGED <<mgmt, reply, store, nextKey, localKey>> /\ dvs' = dvs /\ made' = made
      BY <1>7 DEF CallFetch, servers
    <2>. QED
      BY <2>1, NothingMoved, NothingMade
  <1>. QED
    BY <1>1, <1>2, <1>3, <1>4, <1>5, <1>6, <1>7 DEF ProgramStep, ProgramChoice

\* Where keys come from, and where the one of a part is, holds throughout.
LEMMA KeysInductive ==
    ASSUME SameHead
    PROVE  Spec => [](KeyInv /\ LengthInv)
  <1>1. Init => KeyInv /\ LengthInv
    BY InitKeys
  <1>2. KeyInv /\ LengthInv /\ [Next]_vars => (KeyInv /\ LengthInv)'
    <2>. SUFFICES ASSUME KeyInv, LengthInv, [Next]_vars
                  PROVE  KeyInv' /\ LengthInv'
      OBVIOUS
    <2>1. CASE UNCHANGED vars
      <3>1. UNCHANGED <<mgmt, reply, store, nextKey, localKey>> /\ dvs' = dvs /\ made' = made
        BY <2>1 DEF vars
      <3>. QED
        BY <3>1, NothingMoved, NothingMade
    <2>2. CASE Next
      BY <2>2, ServerKeys, ActorKeys, ProgramKeys DEF Next
    <2>. QED
      BY <2>1, <2>2
  <1>. QED
    BY <1>1, <1>2, PTL DEF Spec

(***************************************************************************)
(* The assertion of DataStore::storePartMessage: a part is stored under a  *)
(* key its process does not hold, whichever of the two counters the keys   *)
(* come from and in whatever order the parts arrive, as long as the actors *)
(* that live on a process one after the other have the same head.          *)
(***************************************************************************)
THEOREM KeysNeverMeet ==
    ASSUME SameHead
    PROVE  Spec => []KeysAreFree
  <1>1. KeyInv => KeysAreFree
    <2>. SUFFICES ASSUME KeyInv, NEW c \in Procs, NEW p \in Ranks, mgmt[c][p] # << >>,
                         Head(mgmt[c][p]).type = "STORE"
                  PROVE  CanStore(store[p], Head(mgmt[c][p]).resid)
      BY DEF KeysAreFree
    <2>1. KeyTypes /\ SentInv /\ OnceInv
      BY DEF KeyInv
    <2>2. Head(mgmt[c][p]) = mgmt[c][p][1] /\ 1 \in 1..Len(mgmt[c][p])
      BY <2>1, HeadSent
    <2>3. Storing(c, p, 1)
      BY <2>2 DEF Storing
    <2>4. mgmt[c][p][1].resid \notin DOMAIN store[p]
      BY <2>1, <2>2, <2>3, StoringOnce
    <2>. QED
      BY <2>2, <2>4 DEF CanStore, Holds
  <1>. QED
    BY <1>1, KeysInductive, PTL

-----------------------------------------------------------------------------
\* Reads and releases.

\* A key in a descriptor that the program has not received.
InReply(p, key) ==
    \E h \in Ranks : \E i \in 1..Len(reply[h]) : \E k \in 1..Len(reply[h][i]) :
        reply[h][i][k].pid = p /\ reply[h][i][k].resid = key

\* A key that a message, a store or a descriptor may name.
Issued(p, key) == key \in Int /\ (Given(p, key) \/ Taken(p, key)) /\ ~ InReply(p, key)

\* A part that is stored and that the waiting readers have not been given.
Coming(p, key) ==
    \/ key \in checking[p]
    \/ \E c \in Procs : \E i \in 1..Len(mgmt[c][p]) : Storing(c, p, i) /\ mgmt[c][p][i].resid = key

ReaderOf(r) ==
    [pc |-> reader[r].pc, vec |-> reader[r].vec, first |-> reader[r].first, size |-> reader[r].size,
     local |-> reader[r].local, asked |-> reader[r].asked, buf |-> reader[r].buf]

ReaderTypes ==
    /\ DOMAIN reader = Procs
    /\ \A r \in Procs :
          /\ reader[r] = ReaderOf(r)
          /\ reader[r].pc \in {"idle", "distributing", "local", "waiting", "receiving"}
          /\ reader[r].vec \in Vectors \cup {None} /\ reader[r].first \in Nat /\ reader[r].size \in Int
          /\ IsSeq(reader[r].local)
          /\ DOMAIN reader[r].asked = Ranks /\ \A p \in Ranks : IsSeq(reader[r].asked[p])

AnswerTypes ==
    /\ DOMAIN answer = Ranks
    /\ \A p \in Ranks : DOMAIN answer[p] = Procs /\ \A r \in Procs : IsSeq(answer[p][r])
    /\ DOMAIN pending = Ranks
    /\ \A p \in Ranks : \A key \in DOMAIN pending[p] : IsSeq(pending[p][key])
    /\ DOMAIN checking = Ranks

VectorTypes ==
    /\ dvs \in [Vectors -> Seq(Part)] /\ made \in [Ranks -> Seq(Part)]
    /\ \A v \in Vectors : \A i \in 1..Len(dvs[v]) : dvs[v][i].pid \in Ranks
    /\ \A r \in Ranks : made[r] = << >> \/ Len(made[r]) = PartsPerProc
    /\ \A h \in Ranks : \A i \in 1..Len(reply[h]) : reply[h][i] \in Seq(Part)
    /\ job \in [Groups -> Vectors \cup {None}]
    /\ source \in [Vectors -> Vectors \cup {None}] /\ origin \in [Vectors -> Vectors \cup {None}]
    /\ released \subseteq Vectors

ReadTypes == ReaderTypes /\ AnswerTypes /\ VectorTypes

\* The keys that are known are issued.
KnownInv ==
    /\ \A p \in Ranks : \A key \in DOMAIN pending[p] : Issued(p, key)
    /\ \A v \in Vectors : \A i \in 1..Len(dvs[v]) : Issued(dvs[v][i].pid, dvs[v][i].resid)
    /\ \A r \in Ranks : \A i \in 1..Len(made[r]) : made[r][i].pid = r /\ Issued(r, made[r][i].resid)

\* No part is in two descriptors, or twice in one.
SamePart(x, y) == x.pid = y.pid /\ x.resid = y.resid

PartsApart ==
    /\ \A v, w \in Vectors : \A i \in 1..Len(dvs[v]), j \in 1..Len(dvs[w]) :
          SamePart(dvs[v][i], dvs[w][j]) => v = w /\ i = j
    /\ \A r \in Ranks, v \in Vectors : \A i \in 1..Len(made[r]), j \in 1..Len(dvs[v]) :
          ~ SamePart(made[r][i], dvs[v][j])
    /\ \A r \in Ranks : \A i, j \in 1..Len(made[r]) : SamePart(made[r][i], made[r][j]) => i = j

\* A vector that is being made is made by one actor, and has no descriptor yet.
JobInv ==
    /\ \A g, h \in Groups : job[g] # None /\ job[h] # None /\ g # h => ~ Share(g, h) /\ job[g] # job[h]
    /\ \A g \in Groups : job[g] # None =>
          /\ dvs[job[g]] = << >> /\ origin[job[g]] # None
          /\ source[job[g]] \in Vectors /\ source[job[g]] \notin released
    /\ \A v \in Vectors : dvs[v] # << >> => origin[v] # None
    /\ reader[Client].pc = "distributing" =>
          /\ reader[Client].vec \in Vectors
          /\ dvs[reader[Client].vec] = << >> /\ origin[reader[Client].vec] # None
          /\ \A g \in Groups : job[g] # reader[Client].vec

Active(r) == reader[r].pc \in {"local", "waiting", "receiving"}
Receiving(r) == reader[r].pc = "receiving"
Vec(r) == dvs[reader[r].vec]

\* The places of the parts that reader r wants of process p, and its questions for them.
Wanted(r, p) == {i \in Met(Vec(r), reader[r].first, reader[r].size) : Vec(r)[i].pid = p}
PiecesFrom(r, p) == PiecesAt(Vec(r), Wanted(r, p), reader[r].first, reader[r].size)

ReaderInv(r) ==
    /\ reader[r].pc = "distributing" => r = Client
    /\ reader[r].pc = "idle" => reader[r].vec = None
    /\ Active(r) =>
          /\ reader[r].vec \in Vectors /\ Vec(r) # << >> /\ reader[r].vec \notin released
          /\ ~ Receiving(r) => \A p \in Ranks \ {r} : reader[r].asked[p] = PiecesFrom(r, p)
          /\ r \in Ranks => reader[r].asked[r] = << >>

Asks(r, p, i) == mgmt[r][p][i].type = "GET"
Asking(r, p) == \E i \in 1..Len(mgmt[r][p]) : Asks(r, p, i)
Listed(r, p, key) == key \in DOMAIN pending[p] /\ \E k \in 1..Len(pending[p][key]) : pending[p][key][k].to = r

\* A question on its way is the only one of a reader that waits for all the pieces.
AskInv(r, p) ==
    \A i \in 1..Len(mgmt[r][p]) : Asks(r, p, i) =>
        /\ r # p /\ mgmt[r][p][i].src = r /\ Receiving(r) /\ answer[p][r] = << >>
        /\ mgmt[r][p][i].parts = reader[r].asked[p]
        /\ reader[r].asked[p] = PiecesFrom(r, p) /\ reader[r].asked[p] # << >>
        /\ \A j \in 1..Len(mgmt[r][p]) : Asks(r, p, j) => i = j

\* A request that waits for a part to be stored is the only one of a reader that waits for it.
ListedOnce(p, key, k) ==
    LET r == pending[p][key][k].to
    IN  /\ r \in Procs /\ r # p /\ Receiving(r) /\ ~ Asking(r, p)
        /\ \E i \in Wanted(r, p) : Vec(r)[i].resid = key
        /\ \A j \in 1..Len(pending[p][key]) : pending[p][key][j].to = r => j = k

ListedInv ==
    \A p \in Ranks : \A key \in DOMAIN pending[p] : Coming(p, key) =>
        \A k \in 1..Len(pending[p][key]) : ListedOnce(p, key, k)

\* The parts of p whose pieces have not been sent to r.
NotYet(r, p) ==
    {i \in Wanted(r, p) :
        \/ Vec(r)[i].resid \notin DOMAIN store[p]
        \/ Asking(r, p)
        \/ Vec(r)[i].resid \in checking[p] /\ Listed(r, p, Vec(r)[i].resid)}

CountInv(r, p) ==
    IF Active(r) /\ p # r
    THEN /\ Len(answer[p][r]) + Cardinality(NotYet(r, p)) <= Len(reader[r].asked[p])
         /\ ~ Receiving(r) => answer[p][r] = << >>
    ELSE answer[p][r] = << >>

CheckInv == \A p \in Ranks : checking[p] = {} \/ \E key \in DOMAIN store[p] : checking[p] = {key}

\* What is to be released is a part of a vector that was released.
ReleaseInv ==
    \A c \in Procs, p \in Ranks : \A i \in 1..Len(mgmt[c][p]) : mgmt[c][p][i].type = "RELEASE" =>
        /\ c = Client
        /\ \E v \in released : \E k \in 1..Len(dvs[v]) : dvs[v][k].pid = p /\ dvs[v][k].resid = mgmt[c][p][i].resid

ReadInv ==
    /\ ReadTypes /\ KnownInv /\ PartsApart /\ JobInv /\ CheckInv /\ ReleaseInv /\ ListedInv
    /\ \A r \in Procs : ReaderInv(r) /\ \A p \in Ranks : AskInv(r, p) /\ CountInv(r, p)

-----------------------------------------------------------------------------
\* Keys that are issued, and parts that are coming.

KeysStay == \A p \in Ranks : \A key : Issued(p, key) => Issued(p, key)'
ComingStays == \A p \in Ranks : \A key : Issued(p, key) /\ Coming(p, key)' => Coming(p, key)
DvsStay == \A v \in Vectors : dvs[v] # << >> => dvs'[v] = dvs[v]

\* The key of a descriptor that the program has not received is not yet in use.
LEMMA InReplyNew ==
    ASSUME KeyInv, NEW p \in Ranks, NEW key, InReply(p, key)
    PROVE  /\ key \in Int /\ key <= -1 /\ key \notin DOMAIN store[p]
           /\ \A i \in 1..Len(mgmt[Client][p]) : Storing(Client, p, i) => mgmt[Client][p][i].resid # key
  <1>1. PICK h \in Ranks : \E i \in 1..Len(reply[h]) : \E k \in 1..Len(reply[h][i]) :
            reply[h][i][k].pid = p /\ reply[h][i][k].resid = key
    BY Zenon DEF InReply
  <1>2. PICK i \in 1..Len(reply[h]) : \E k \in 1..Len(reply[h][i]) :
            reply[h][i][k].pid = p /\ reply[h][i][k].resid = key
    BY <1>1, Zenon
  <1>3. PICK k \in 1..Len(reply[h][i]) : reply[h][i][k].pid = p /\ reply[h][i][k].resid = key
    BY <1>2, Zenon
  <1>4. NewKey(h, reply[h][i][k])
    BY Zenon DEF KeyInv, NewInv
  <1>. QED
    BY <1>3, <1>4 DEF NewKey

\* A step that puts no descriptor on its way to the program.
LEMMA KeysStayIssued ==
    ASSUME KeyTypes, CountersGrow, \A p \in Ranks : \A key : InReply(p, key)' => InReply(p, key)
    PROVE  KeysStay
  <1>. SUFFICES ASSUME NEW p \in Ranks, NEW key, Issued(p, key)
                PROVE  Issued(p, key)'
    BY DEF KeysStay
  <1>1. key \in Int /\ (Given(p, key) \/ Taken(p, key)) /\ ~ InReply(p, key)
    BY DEF Issued
  <1>2. Given(p, key)' \/ Taken(p, key)'
    BY <1>1, KeysStayGiven
  <1>3. ~ InReply(p, key)'
    BY <1>1, Zenon
  <1>. QED
    BY <1>1, <1>2, <1>3 DEF Issued

LEMMA SameReply ==
    ASSUME KeyTypes, UNCHANGED <<reply, nextKey, localKey>>
    PROVE  KeysStay
  <1>1. CountersGrow
    BY CountersStay
  <1>2. ASSUME NEW p \in Ranks, NEW key, InReply(p, key)'
        PROVE  InReply(p, key)
    BY <1>2 DEF InReply
  <1>. QED
    BY <1>1, <1>2, KeysStayIssued

-----------------------------------------------------------------------------
(***************************************************************************)
(* Channels.  at[c][p][i] is where the i-th message was before the step,   *)
(* and T the type of the messages that were not there.                     *)
(***************************************************************************)
Kept(at, T) ==
    \A c \in Procs, p \in Ranks :
        /\ \A i \in 1..Len(mgmt'[c][p]) :
              \/ at[c][p][i] \in 1..Len(mgmt[c][p]) /\ mgmt'[c][p][i] = mgmt[c][p][at[c][p][i]]
              \/ mgmt'[c][p][i].type = T
        /\ \A i, j \in 1..Len(mgmt'[c][p]) : i # j => at[c][p][i] # at[c][p][j]

\* The two conjuncts of Kept for one channel.
LEMMA KeptOne ==
    ASSUME NEW at, NEW T, Kept(at, T), NEW c \in Procs, NEW p \in Ranks
    PROVE  /\ \A i \in 1..Len(mgmt'[c][p]) : mgmt'[c][p][i].type # T =>
                 at[c][p][i] \in 1..Len(mgmt[c][p]) /\ mgmt'[c][p][i] = mgmt[c][p][at[c][p][i]]
           /\ \A i, j \in 1..Len(mgmt'[c][p]) : i # j => at[c][p][i] # at[c][p][j]
  BY Zenon DEF Kept

\* Messages are added behind those that are there.
LEMMA KeptGrown ==
    ASSUME NEW T,
           \A c \in Procs, p \in Ranks : \A i \in 1..Len(mgmt'[c][p]) :
              \/ i \in 1..Len(mgmt[c][p]) /\ mgmt'[c][p][i] = mgmt[c][p][i]
              \/ mgmt'[c][p][i].type = T
    PROVE  \E at : Kept(at, T)
  <1>. DEFINE at == [c \in Procs |-> [p \in Ranks |-> [i \in 1..Len(mgmt'[c][p]) |-> i]]]
  <1>1. ASSUME NEW c \in Procs, NEW p \in Ranks, NEW i \in 1..Len(mgmt'[c][p])
        PROVE  at[c][p][i] = i
    <2>1. at[c] = [q \in Ranks |-> [k \in 1..Len(mgmt'[c][q]) |-> k]]
      OBVIOUS
    <2>2. at[c][p] = [k \in 1..Len(mgmt'[c][p]) |-> k]
      BY <2>1
    <2>. HIDE DEF at
    <2>. QED
      BY <2>2
  <1>. HIDE DEF at
  <1>2. ASSUME NEW c \in Procs, NEW p \in Ranks
        PROVE  /\ \A i \in 1..Len(mgmt'[c][p]) :
                     \/ at[c][p][i] \in 1..Len(mgmt[c][p]) /\ mgmt'[c][p][i] = mgmt[c][p][at[c][p][i]]
                     \/ mgmt'[c][p][i].type = T
               /\ \A i, j \in 1..Len(mgmt'[c][p]) : i # j => at[c][p][i] # at[c][p][j]
    BY <1>1
  <1>3. Kept(at, T)
    BY <1>2, Zenon DEF Kept
  <1>. QED
    BY <1>3

LEMMA KeptSame ==
    ASSUME NEW T, mgmt' = mgmt
    PROVE  \E at : Kept(at, T)
  BY KeptGrown

\* One message is taken.
LEMMA KeptReceived ==
    ASSUME KeyTypes, NEW c \in Procs, NEW p \in Ranks, mgmt[c][p] # << >>, mgmt' = Received(c, p), NEW T
    PROVE  \E at : Kept(at, T)
  <1>. DEFINE at == [d \in Procs |-> [q \in Ranks |->
                        [i \in 1..Len(mgmt'[d][q]) |-> IF d = c /\ q = p THEN i + 1 ELSE i]]]
  <1>1. /\ \A d \in Procs, q \in Ranks : d # c \/ q # p => mgmt'[d][q] = mgmt[d][q]
        /\ \A i \in 1..Len(mgmt'[c][p]) : i + 1 \in 1..Len(mgmt[c][p]) /\ mgmt'[c][p][i] = mgmt[c][p][i + 1]
    BY ReceivedEffect
  <1>2. ASSUME NEW d \in Procs, NEW q \in Ranks, NEW i \in 1..Len(mgmt'[d][q])
        PROVE  at[d][q][i] = IF d = c /\ q = p THEN i + 1 ELSE i
    <2>1. at[d] = [b \in Ranks |-> [k \in 1..Len(mgmt'[d][b]) |-> IF d = c /\ b = p THEN k + 1 ELSE k]]
      OBVIOUS
    <2>2. at[d][q] = [k \in 1..Len(mgmt'[d][q]) |-> IF d = c /\ q = p THEN k + 1 ELSE k]
      BY <2>1
    <2>. HIDE DEF at
    <2>. QED
      BY <2>2
  <1>. HIDE DEF at
  <1>3. ASSUME NEW d \in Procs, NEW q \in Ranks
        PROVE  /\ \A i \in 1..Len(mgmt'[d][q]) :
                     \/ at[d][q][i] \in 1..Len(mgmt[d][q]) /\ mgmt'[d][q][i] = mgmt[d][q][at[d][q][i]]
                     \/ mgmt'[d][q][i].type = T
               /\ \A i, j \in 1..Len(mgmt'[d][q]) : i # j => at[d][q][i] # at[d][q][j]
    <2>1. CASE d = c /\ q = p
      <3>1. \A i \in 1..Len(mgmt'[d][q]) :
              at[d][q][i] \in 1..Len(mgmt[d][q]) /\ mgmt'[d][q][i] = mgmt[d][q][at[d][q][i]]
        BY <1>1, <1>2, <2>1
      <3>2. \A i, j \in 1..Len(mgmt'[d][q]) : i # j => at[d][q][i] # at[d][q][j]
        BY ONLY <1>2, <2>1, c \in Procs, p \in Ranks
      <3>. QED
        BY <3>1, <3>2
    <2>2. CASE ~ (d = c /\ q = p)
      BY <1>1, <1>2, <2>2
    <2>. QED
      BY <2>1, <2>2
  <1>4. Kept(at, T)
    BY <1>3, Zenon DEF Kept
  <1>. QED
    BY <1>4

\* No part is coming that was not.
LEMMA ComingFrom ==
    ASSUME NEW at, NEW T, Kept(at, T), T # "STORE", \A p \in Ranks : \A key \in checking'[p] : Coming(p, key)
    PROVE  \A p \in Ranks : \A key : Coming(p, key)' => Coming(p, key)
  <1>. SUFFICES ASSUME NEW p \in Ranks, NEW key, Coming(p, key)'
                PROVE  Coming(p, key)
    OBVIOUS
  <1>1. CASE key \in checking'[p]
    BY <1>1
  <1>2. CASE \E c \in Procs : \E i \in 1..Len(mgmt'[c][p]) : Storing(c, p, i)' /\ mgmt'[c][p][i].resid = key
    <2>1. PICK c \in Procs : \E i \in 1..Len(mgmt'[c][p]) : Storing(c, p, i)' /\ mgmt'[c][p][i].resid = key
      BY <1>2
    <2>2. PICK i \in 1..Len(mgmt'[c][p]) : Storing(c, p, i)' /\ mgmt'[c][p][i].resid = key
      BY <2>1
    <2>3. mgmt'[c][p][i].type = "STORE"
      BY <2>2 DEF Storing
    <2>4. at[c][p][i] \in 1..Len(mgmt[c][p]) /\ mgmt'[c][p][i] = mgmt[c][p][at[c][p][i]]
      BY <2>3, KeptOne
    <2>. QED
      BY <2>2, <2>3, <2>4 DEF Coming, Storing
  <1>. QED
    BY <1>1, <1>2 DEF Coming

LEMMA ComingKept ==
    ASSUME NEW at, NEW T, Kept(at, T), T # "STORE", \A p \in Ranks : checking'[p] \subseteq checking[p]
    PROVE  \A p \in Ranks : \A key : Coming(p, key)' => Coming(p, key)
  <1>1. \A p \in Ranks : \A key \in checking'[p] : Coming(p, key)
    BY DEF Coming
  <1>. QED
    BY <1>1, ComingFrom

NoNewAsk(r, p, f) ==
    /\ \A i \in 1..Len(mgmt'[r][p]) : Asks(r, p, i)' =>
          f[i] \in 1..Len(mgmt[r][p]) /\ mgmt'[r][p][i] = mgmt[r][p][f[i]] /\ Asks(r, p, f[i])
    /\ \A i, j \in 1..Len(mgmt'[r][p]) : i # j => f[i] # f[j]

LEMMA KeptAsks ==
    ASSUME NEW at, NEW T, Kept(at, T), T # "GET", NEW r \in Procs, NEW p \in Ranks
    PROVE  NoNewAsk(r, p, at[r][p])
  <1>1. ASSUME NEW i \in 1..Len(mgmt'[r][p]), Asks(r, p, i)'
        PROVE  /\ at[r][p][i] \in 1..Len(mgmt[r][p]) /\ mgmt'[r][p][i] = mgmt[r][p][at[r][p][i]]
               /\ Asks(r, p, at[r][p][i])
    <2>1. mgmt'[r][p][i].type = "GET"
      BY <1>1 DEF Asks
    <2>2. at[r][p][i] \in 1..Len(mgmt[r][p]) /\ mgmt'[r][p][i] = mgmt[r][p][at[r][p][i]]
      BY <2>1, KeptOne
    <2>. QED
      BY <2>1, <2>2 DEF Asks
  <1>2. \A i, j \in 1..Len(mgmt'[r][p]) : i # j => at[r][p][i] # at[r][p][j]
    BY KeptOne
  <1>. QED
    BY <1>1, <1>2, Zenon DEF NoNewAsk

LEMMA NoNewAsking ==
    ASSUME NEW r, NEW p, NEW f, NoNewAsk(r, p, f)
    PROVE  Asking(r, p)' => Asking(r, p)
  BY Zenon DEF NoNewAsk, Asking

-----------------------------------------------------------------------------
\* What does not change while a reader reads.

SameRange(r) ==
    /\ reader'[r].vec = reader[r].vec /\ reader'[r].first = reader[r].first /\ reader'[r].size = reader[r].size
    /\ Active(r)' <=> Active(r)
    /\ Receiving(r)' <=> Receiving(r)
    /\ reader'[r].pc = "idle" <=> reader[r].pc = "idle"
    /\ reader'[r].pc = "distributing" <=> reader[r].pc = "distributing"

SameReader(r) == SameRange(r) /\ reader'[r].asked = reader[r].asked

LEMMA SameRecord ==
    ASSUME NEW r, reader'[r] = reader[r]
    PROVE  SameReader(r)
  BY DEF SameReader, SameRange, Active, Receiving

\* Who receives is active.
LEMMA ReceivingActive ==
    ASSUME NEW r, Receiving(r)
    PROVE  Active(r)
  BY DEF Receiving, Active

\* The descriptor a reader reads stays, and with it what the reader wants.
LEMMA SameWants ==
    ASSUME DvsStay, NEW r, ReaderInv(r), Active(r), SameRange(r)
    PROVE  /\ Vec(r)' = Vec(r) /\ \A p : Wanted(r, p)' = Wanted(r, p) /\ PiecesFrom(r, p)' = PiecesFrom(r, p)
  <1>1. reader[r].vec \in Vectors /\ dvs[reader[r].vec] # << >>
    BY DEF ReaderInv, Vec
  <1>2. dvs'[reader[r].vec] = dvs[reader[r].vec]
    BY <1>1 DEF DvsStay
  <1>3. reader'[r].vec = reader[r].vec /\ reader'[r].first = reader[r].first /\ reader'[r].size = reader[r].size
    BY DEF SameRange
  <1>4. Vec(r)' = Vec(r)
    BY <1>2, <1>3 DEF Vec
  <1>5. \A p : Wanted(r, p)' = Wanted(r, p)
    BY <1>3, <1>4 DEF Wanted
  <1>6. \A p : PiecesFrom(r, p)' = PiecesFrom(r, p)
    BY <1>3, <1>4, <1>5 DEF PiecesFrom
  <1>. QED
    BY <1>4, <1>5, <1>6

\* The places a reader wants are places of a sequence.
LEMMA WantedFacts ==
    ASSUME ReadTypes, NEW r, reader[r].vec \in Vectors, NEW p
    PROVE  /\ Vec(r) \in Seq(Part) /\ Len(Vec(r)) \in Nat /\ Wanted(r, p) \subseteq 1..Len(Vec(r))
           /\ IsFiniteSet(Wanted(r, p)) /\ Cardinality(Wanted(r, p)) \in Nat
           /\ IsFiniteSet(NotYet(r, p)) /\ Cardinality(NotYet(r, p)) \in Nat
           /\ NotYet(r, p) \subseteq Wanted(r, p) /\ Cardinality(NotYet(r, p)) <= Cardinality(Wanted(r, p))
  <1>1. Vec(r) \in Seq(Part)
    BY DEF ReadTypes, VectorTypes, Vec
  <1>2. Len(Vec(r)) \in Nat /\ DOMAIN Vec(r) = 1..Len(Vec(r))
    BY <1>1
  <1>3. Wanted(r, p) \subseteq 1..Len(Vec(r))
    BY <1>2 DEF Wanted, Met
  <1>4. IsFiniteSet(Wanted(r, p))
    <2>1. IsFiniteSet(1..Len(Vec(r)))
      BY <1>2, FS_Interval
    <2>. QED
      BY <1>3, <2>1, FS_Subset
  <1>5. NotYet(r, p) \subseteq Wanted(r, p)
    BY DEF NotYet
  <1>6. IsFiniteSet(NotYet(r, p)) /\ Cardinality(NotYet(r, p)) <= Cardinality(Wanted(r, p))
    BY <1>4, <1>5, FS_Subset
  <1>. QED
    BY <1>1, <1>2, <1>3, <1>4, <1>5, <1>6, FS_CardinalityType

\* A reader goes on as it was.
LEMMA ReaderKept ==
    ASSUME DvsStay, NEW r \in Procs, ReaderInv(r), SameReader(r), Active(r) => reader[r].vec \notin released'
    PROVE  ReaderInv(r)'
  <1>0. SameRange(r) /\ reader'[r].asked = reader[r].asked
    BY DEF SameReader
  <1>1. reader'[r].pc = "distributing" => r = Client
    BY <1>0 DEF SameRange, ReaderInv
  <1>2. reader'[r].pc = "idle" => reader'[r].vec = None
    BY <1>0 DEF SameRange, ReaderInv
  <1>3. ASSUME Active(r)'
        PROVE  /\ reader'[r].vec \in Vectors /\ Vec(r)' # << >> /\ reader'[r].vec \notin released'
               /\ ~ Receiving(r)' => \A p \in Ranks \ {r} : reader'[r].asked[p] = PiecesFrom(r, p)'
               /\ r \in Ranks => reader'[r].asked[r] = << >>
    <2>1. Active(r) /\ reader'[r].vec = reader[r].vec /\ (Receiving(r)' <=> Receiving(r))
      BY <1>0, <1>3 DEF SameRange
    <2>2. Vec(r)' = Vec(r) /\ \A p : PiecesFrom(r, p)' = PiecesFrom(r, p)
      BY <1>0, <2>1, SameWants
    <2>3. /\ reader[r].vec \in Vectors /\ Vec(r) # << >>
          /\ ~ Receiving(r) => \A p \in Ranks \ {r} : reader[r].asked[p] = PiecesFrom(r, p)
          /\ r \in Ranks => reader[r].asked[r] = << >>
      BY <2>1 DEF ReaderInv
    <2>. QED
      BY <1>0, <2>1, <2>2, <2>3
  <1>. QED
    BY <1>1, <1>2, <1>3 DEF ReaderInv

\* Its questions go on as they were.
LEMMA AskKept ==
    ASSUME DvsStay, NEW r \in Procs, NEW p \in Ranks, NEW f, NoNewAsk(r, p, f), ReaderInv(r), AskInv(r, p),
           Receiving(r) => /\ SameRange(r) /\ reader'[r].asked[p] = reader[r].asked[p]
                           /\ answer[p][r] = << >> => answer'[p][r] = << >>
    PROVE  AskInv(r, p)'
  <1>. SUFFICES ASSUME NEW i \in 1..Len(mgmt'[r][p]), Asks(r, p, i)'
                PROVE  /\ r # p /\ mgmt'[r][p][i].src = r /\ Receiving(r)' /\ answer'[p][r] = << >>
                       /\ mgmt'[r][p][i].parts = reader'[r].asked[p]
                       /\ reader'[r].asked[p] = PiecesFrom(r, p)' /\ reader'[r].asked[p] # << >>
                       /\ \A j \in 1..Len(mgmt'[r][p]) : Asks(r, p, j)' => i = j
    BY DEF AskInv
  <1>1. f[i] \in 1..Len(mgmt[r][p]) /\ mgmt'[r][p][i] = mgmt[r][p][f[i]] /\ Asks(r, p, f[i])
    BY Zenon DEF NoNewAsk
  <1>2. /\ r # p /\ mgmt[r][p][f[i]].src = r /\ Receiving(r) /\ answer[p][r] = << >>
        /\ mgmt[r][p][f[i]].parts = reader[r].asked[p]
        /\ reader[r].asked[p] = PiecesFrom(r, p) /\ reader[r].asked[p] # << >>
        /\ \A j \in 1..Len(mgmt[r][p]) : Asks(r, p, j) => f[i] = j
    BY <1>1, Zenon DEF AskInv
  <1>3. SameRange(r) /\ Active(r) /\ answer'[p][r] = << >>
    BY <1>2, ReceivingActive
  <1>4. PiecesFrom(r, p)' = PiecesFrom(r, p)
    BY <1>3, SameWants
  <1>5. reader'[r].asked[p] = reader[r].asked[p] /\ Receiving(r)'
    BY <1>2, <1>3 DEF SameRange
  <1>6. ASSUME NEW j \in 1..Len(mgmt'[r][p]), Asks(r, p, j)'
        PROVE  i = j
    <2>1. f[j] \in 1..Len(mgmt[r][p]) /\ Asks(r, p, f[j])
      BY <1>6, Zenon DEF NoNewAsk
    <2>2. f[i] = f[j]
      BY <1>2, <2>1
    <2>. QED
      BY <2>2, Zenon DEF NoNewAsk
  <1>. QED
    BY <1>1, <1>2, <1>3, <1>4, <1>5, <1>6

\* What is sent to it is still what it waits for.
LEMMA CountKept ==
    ASSUME ReadTypes, DvsStay, NEW r \in Procs, NEW p \in Ranks, ReaderInv(r), CountInv(r, p),
           SameRange(r), reader'[r].asked[p] = reader[r].asked[p], answer'[p][r] = answer[p][r],
           Active(r) /\ p # r => NotYet(r, p)' \subseteq NotYet(r, p)
    PROVE  CountInv(r, p)'
  <1>0. (Active(r)' <=> Active(r)) /\ (Receiving(r)' <=> Receiving(r))
    BY DEF SameRange
  <1>1. CASE ~ (Active(r) /\ p # r)
    BY <1>0, <1>1 DEF CountInv
  <1>2. CASE Active(r) /\ p # r
    <2>1. reader[r].vec \in Vectors
      BY <1>2 DEF ReaderInv
    <2>2. IsFiniteSet(NotYet(r, p)) /\ Cardinality(NotYet(r, p)) \in Nat
      BY <2>1, WantedFacts
    <2>3. Cardinality(NotYet(r, p)') \in Nat /\ Cardinality(NotYet(r, p)') <= Cardinality(NotYet(r, p))
      <3>. DEFINE S == NotYet(r, p)
                  T == NotYet(r, p)'
      <3>. HIDE DEF S, T
      <3>1. IsFiniteSet(S) /\ T \subseteq S
        BY <1>2, <2>2 DEF S, T
      <3>2. IsFiniteSet(T) /\ Cardinality(T) <= Cardinality(S) /\ Cardinality(T) \in Nat
        BY <3>1, FS_Subset, FS_CardinalityType
      <3>. QED
        BY <3>2 DEF S, T
    <2>4. /\ Len(answer[p][r]) + Cardinality(NotYet(r, p)) <= Len(reader[r].asked[p])
          /\ ~ Receiving(r) => answer[p][r] = << >>
      BY <1>2 DEF CountInv
    <2>5. Len(answer[p][r]) \in Nat /\ Len(reader[r].asked[p]) \in Nat
      BY DEF ReadTypes, ReaderTypes, AnswerTypes, IsSeq
    <2>6. Len(answer'[p][r]) + Cardinality(NotYet(r, p)') <= Len(reader'[r].asked[p])
      <3>. DEFINE s == Cardinality(NotYet(r, p))
                  t == Cardinality(NotYet(r, p)')
                  l == Len(answer[p][r])
                  a == Len(reader[r].asked[p])
      <3>1. s \in Nat /\ t \in Nat /\ t <= s /\ l \in Nat /\ a \in Nat /\ l + s <= a
        BY <2>2, <2>3, <2>4, <2>5
      <3>2. Len(answer'[p][r]) = l /\ Len(reader'[r].asked[p]) = a
        BY <1>0
      <3>. HIDE DEF s, t, l, a
      <3>3. l + t <= a
        BY <3>1
      <3>. QED
        BY <3>2, <3>3 DEF t
    <2>. QED
      BY <1>0, <1>2, <2>4, <2>6 DEF CountInv
  <1>. QED
    BY <1>1, <1>2

\* The parts that are not there yet do not become more while p stores parts only.
LEMMA NotYetKept ==
    ASSUME DvsStay, NEW r \in Procs, NEW p \in Ranks, ReaderInv(r), Active(r), SameRange(r),
           \A i \in Wanted(r, p) : Vec(r)[i].resid \in DOMAIN store[p] => Vec(r)[i].resid \in DOMAIN store'[p],
           Asking(r, p)' => Asking(r, p),
           \A key : key \in checking'[p] /\ Listed(r, p, key)' =>
               key \notin DOMAIN store[p] \/ (key \in checking[p] /\ Listed(r, p, key))
    PROVE  NotYet(r, p)' \subseteq NotYet(r, p)
  <1>1. Vec(r)' = Vec(r) /\ Wanted(r, p)' = Wanted(r, p)
    BY SameWants
  <1>2. SUFFICES ASSUME NEW i \in NotYet(r, p)' PROVE i \in NotYet(r, p)
    OBVIOUS
  <1>3. PICK key : key = Vec(r)[i].resid
    OBVIOUS
  <1>4. /\ i \in Wanted(r, p)
        /\ key \notin DOMAIN store'[p] \/ Asking(r, p)' \/ (key \in checking'[p] /\ Listed(r, p, key)')
    <2>1. Vec(r)'[i].resid = key
      BY <1>1, <1>3
    <2>2. i \in Wanted(r, p)' /\ (\/ Vec(r)'[i].resid \notin DOMAIN store'[p]
                                  \/ Asking(r, p)'
                                  \/ Vec(r)'[i].resid \in checking'[p] /\ Listed(r, p, Vec(r)[i].resid)')
      BY DEF NotYet
    <2>. QED
      BY <1>1, <2>1, <2>2 DEF Listed
  <1>5. key \notin DOMAIN store[p] \/ Asking(r, p) \/ (key \in checking[p] /\ Listed(r, p, key))
    BY <1>3, <1>4
  <1>. QED
    BY <1>3, <1>4, <1>5 DEF NotYet

\* Process p has listed a piece for r whose part is coming.
Awaits(r, p) == \E key \in DOMAIN pending[p] : Coming(p, key) /\ Listed(r, p, key)

\* The conjuncts of ReadInv.
LEMMA ReadParts ==
    ASSUME ReadInv
    PROVE  /\ ReadTypes /\ KnownInv /\ PartsApart /\ JobInv /\ CheckInv /\ ReleaseInv /\ ListedInv
           /\ \A r \in Procs : ReaderInv(r)
           /\ \A r \in Procs, p \in Ranks : AskInv(r, p) /\ CountInv(r, p)
  BY DEF ReadInv

LEMMA ListedOne ==
    ASSUME ListedInv, NEW p \in Ranks, NEW key \in DOMAIN pending[p], Coming(p, key), NEW k \in 1..Len(pending[p][key])
    PROVE  ListedOnce(p, key, k)
  BY Zenon DEF ListedInv

\* Requests that are listed wait on.
LEMMA ListedKept ==
    ASSUME DvsStay, ComingStays, KnownInv, ListedInv, \A r \in Procs : ReaderInv(r), pending' = pending,
           \A r \in Procs, p \in Ranks : Receiving(r) /\ Awaits(r, p) => SameRange(r) /\ (Asking(r, p)' => Asking(r, p))
    PROVE  ListedInv'
  <1>. SUFFICES ASSUME NEW p \in Ranks, NEW key \in DOMAIN pending'[p], Coming(p, key)',
                       NEW k \in 1..Len(pending'[p][key])
                PROVE  ListedOnce(p, key, k)'
    BY Zenon DEF ListedInv
  <1>0. key \in DOMAIN pending[p] /\ k \in 1..Len(pending[p][key])
    OBVIOUS
  <1>1. Coming(p, key)
    BY <1>0, Zenon DEF ComingStays, KnownInv
  <1>2. ListedOnce(p, key, k)
    BY <1>0, <1>1, ListedOne
  <1>3. PICK r : r = pending[p][key][k].to
    OBVIOUS
  <1>4. /\ r \in Procs /\ r # p /\ Receiving(r) /\ ~ Asking(r, p)
        /\ \E i \in Wanted(r, p) : Vec(r)[i].resid = key
        /\ \A j \in 1..Len(pending[p][key]) : pending[p][key][j].to = r => j = k
    BY <1>2, <1>3 DEF ListedOnce
  <1>5. Awaits(r, p)
    BY <1>0, <1>1, <1>3 DEF Awaits, Listed
  <1>6. SameRange(r) /\ ~ Asking(r, p)' /\ Receiving(r)' /\ Active(r)
    BY <1>4, <1>5, ReceivingActive DEF SameRange
  <1>7. Vec(r)' = Vec(r) /\ Wanted(r, p)' = Wanted(r, p)
    BY <1>4, <1>6, SameWants
  <1>8. \E i \in Wanted(r, p)' : Vec(r)'[i].resid = key
    BY <1>4, <1>7
  <1>9. /\ r = pending'[p][key][k].to
        /\ \A j \in 1..Len(pending'[p][key]) : pending'[p][key][j].to = r => j = k
    BY <1>3, <1>4
  <1>. QED
    BY <1>4, <1>6, <1>8, <1>9 DEF ListedOnce

LEMMA ReleaseOne ==
    ASSUME ReleaseInv, NEW c \in Procs, NEW p \in Ranks, NEW i \in 1..Len(mgmt[c][p]), mgmt[c][p][i].type = "RELEASE"
    PROVE  /\ c = Client
           /\ \E v \in released : \E k \in 1..Len(dvs[v]) :
                 dvs[v][k].pid = p /\ dvs[v][k].resid = mgmt[c][p][i].resid
  BY Zenon DEF ReleaseInv

\* Parts that are to be released are still parts of a vector that was released.
LEMMA ReleaseKept ==
    ASSUME DvsStay, VectorTypes, ReleaseInv, NEW at, NEW T, Kept(at, T), T # "RELEASE", released \subseteq released'
    PROVE  ReleaseInv'
  <1>. SUFFICES ASSUME NEW c \in Procs, NEW p \in Ranks, NEW i \in 1..Len(mgmt'[c][p]), mgmt'[c][p][i].type = "RELEASE"
                PROVE  /\ c = Client
                       /\ \E v \in released' : \E k \in 1..Len(dvs'[v]) :
                             dvs'[v][k].pid = p /\ dvs'[v][k].resid = mgmt'[c][p][i].resid
    BY DEF ReleaseInv
  <1>1. at[c][p][i] \in 1..Len(mgmt[c][p]) /\ mgmt'[c][p][i] = mgmt[c][p][at[c][p][i]]
    BY KeptOne
  <1>2. /\ c = Client
        /\ \E v \in released : \E k \in 1..Len(dvs[v]) :
              dvs[v][k].pid = p /\ dvs[v][k].resid = mgmt'[c][p][i].resid
    BY <1>1, ReleaseOne
  <1>3. PICK v \in released : \E k \in 1..Len(dvs[v]) : dvs[v][k].pid = p /\ dvs[v][k].resid = mgmt'[c][p][i].resid
    BY <1>2
  <1>4. v \in Vectors /\ dvs[v] # << >> /\ v \in released'
    <2>1. v \in Vectors
      BY DEF VectorTypes
    <2>2. ASSUME dvs[v] = << >> PROVE FALSE
      BY <1>3, <2>2
    <2>. QED
      BY <2>1, <2>2
  <1>5. dvs'[v] = dvs[v]
    BY <1>4 DEF DvsStay
  <1>. QED
    BY <1>2, <1>3, <1>4, <1>5

\* The descriptors stay as they are.
LEMMA KnownServed ==
    ASSUME KeysStay, VectorTypes, KnownInv, PartsApart, dvs' = dvs, made' = made,
           \A p \in Ranks : \A key \in DOMAIN pending'[p] : Issued(p, key)'
    PROVE  KnownInv' /\ PartsApart'
  <1>1. ASSUME NEW p \in Ranks, NEW key \in DOMAIN pending'[p] PROVE Issued(p, key)'
    BY <1>1
  <1>2. ASSUME NEW v \in Vectors, NEW i \in 1..Len(dvs'[v]) PROVE Issued(dvs[v][i].pid, dvs[v][i].resid)'
    <2>1. Issued(dvs[v][i].pid, dvs[v][i].resid) /\ dvs[v][i].pid \in Ranks
      BY <1>2 DEF KnownInv, VectorTypes, Part
    <2>. QED
      BY <2>1 DEF KeysStay
  <1>3. ASSUME NEW r \in Ranks, NEW i \in 1..Len(made'[r]) PROVE made'[r][i].pid = r /\ Issued(r, made[r][i].resid)'
    BY <1>3 DEF KnownInv, KeysStay
  <1>4. KnownInv'
    BY <1>1, <1>2, <1>3 DEF KnownInv
  <1>5. PartsApart'
    <2>1. ASSUME NEW v \in Vectors, NEW w \in Vectors, NEW i \in 1..Len(dvs'[v]), NEW j \in 1..Len(dvs'[w]),
                 SamePart(dvs'[v][i], dvs'[w][j])
          PROVE  v = w /\ i = j
      <3>1. i \in 1..Len(dvs[v]) /\ j \in 1..Len(dvs[w]) /\ SamePart(dvs[v][i], dvs[w][j])
        BY <2>1
      <3>. QED
        BY <3>1, Zenon DEF PartsApart
    <2>2. ASSUME NEW r \in Ranks, NEW v \in Vectors, NEW i \in 1..Len(made'[r]), NEW j \in 1..Len(dvs'[v])
          PROVE  ~ SamePart(made'[r][i], dvs'[v][j])
      <3>1. i \in 1..Len(made[r]) /\ j \in 1..Len(dvs[v])
        BY <2>2
      <3>2. ~ SamePart(made[r][i], dvs[v][j])
        BY <3>1, Zenon DEF PartsApart
      <3>. QED
        BY <3>2
    <2>3. ASSUME NEW r \in Ranks, NEW i \in 1..Len(made'[r]), NEW j \in 1..Len(made'[r]),
                 SamePart(made'[r][i], made'[r][j])
          PROVE  i = j
      <3>1. i \in 1..Len(made[r]) /\ j \in 1..Len(made[r]) /\ SamePart(made[r][i], made[r][j])
        BY <2>3
      <3>. QED
        BY <3>1, Zenon DEF PartsApart
    <2>. QED
      BY <2>1, <2>2, <2>3, Zenon DEF PartsApart, SamePart
  <1>. QED
    BY <1>4, <1>5

\* Nothing new is known.
LEMMA KnownKept ==
    ASSUME KeysStay, VectorTypes, KnownInv, PartsApart, pending' = pending, dvs' = dvs, made' = made
    PROVE  KnownInv' /\ PartsApart'
  <1>1. \A p \in Ranks : \A key \in DOMAIN pending'[p] : Issued(p, key)'
    BY DEF KnownInv, KeysStay
  <1>. QED
    BY <1>1, KnownServed

\* A reader for which nothing changes.
LEMMA ReaderStays ==
    ASSUME ReadInv, DvsStay, UNCHANGED <<pending, checking, store>>, NEW r \in Procs, SameReader(r),
           \A p \in Ranks : answer'[p][r] = answer[p][r] /\ \E f : NoNewAsk(r, p, f),
           Active(r) => reader[r].vec \notin released'
    PROVE  ReaderInv(r)' /\ \A p \in Ranks : AskInv(r, p)' /\ CountInv(r, p)'
  <1>1. ReadTypes /\ ReaderInv(r) /\ \A p \in Ranks : AskInv(r, p) /\ CountInv(r, p)
    BY ReadParts
  <1>2. ReaderInv(r)'
    BY <1>1, ReaderKept
  <1>3. ASSUME NEW p \in Ranks
        PROVE  AskInv(r, p)' /\ CountInv(r, p)'
    <2>1. PICK f : NoNewAsk(r, p, f)
      OBVIOUS
    <2>0. SameRange(r) /\ reader'[r].asked[p] = reader[r].asked[p]
      BY DEF SameReader
    <2>2. AskInv(r, p)'
      BY <1>1, <2>0, <2>1, AskKept
    <2>3. ASSUME Active(r)
          PROVE  NotYet(r, p)' \subseteq NotYet(r, p)
      <3>1. Asking(r, p)' => Asking(r, p)
        BY <2>1, NoNewAsking
      <3>2. \A key : Listed(r, p, key)' => Listed(r, p, key)
        BY DEF Listed
      <3>. QED
        BY <1>1, <2>0, <2>3, <3>1, <3>2, NotYetKept
    <2>4. CountInv(r, p)'
      BY <1>1, <2>0, <2>3, CountKept
    <2>. QED
      BY <2>2, <2>4
  <1>. QED
    BY <1>2, <1>3

\* A process that is no reader, before and after.
LEMMA RestsStill ==
    ASSUME ReadInv, NEW r \in Procs, ~ Active(r), ~ Active(r)', NEW p \in Ranks, answer'[p][r] = answer[p][r],
           NEW f, NoNewAsk(r, p, f)
    PROVE  AskInv(r, p)' /\ CountInv(r, p)'
  <1>1. AskInv(r, p) /\ CountInv(r, p)
    BY ReadParts
  <1>2. CountInv(r, p)'
    BY <1>1 DEF CountInv
  <1>3. ASSUME NEW i \in 1..Len(mgmt'[r][p]), Asks(r, p, i)'
        PROVE  FALSE
    <2>1. f[i] \in 1..Len(mgmt[r][p]) /\ Asks(r, p, f[i])
      BY <1>3, Zenon DEF NoNewAsk
    <2>2. Receiving(r)
      BY <1>1, <2>1, Zenon DEF AskInv
    <2>. QED
      BY <2>2, ReceivingActive
  <1>. QED
    BY <1>2, <1>3 DEF AskInv

\* A question that is listed is one that was not answered.
LEMMA AwaitsNotYet ==
    ASSUME KeyInv, ReadInv, NEW r \in Procs, NEW p \in Ranks, Awaits(r, p)
    PROVE  Receiving(r) /\ r # p /\ ~ Asking(r, p) /\ NotYet(r, p) # {}
  <1>0. ListedInv
    BY ReadParts
  <1>1. PICK key \in DOMAIN pending[p] : Coming(p, key) /\ Listed(r, p, key)
    BY DEF Awaits
  <1>2. PICK k \in 1..Len(pending[p][key]) : pending[p][key][k].to = r
    BY <1>1 DEF Listed
  <1>3. ListedOnce(p, key, k)
    BY <1>0, <1>1, ListedOne
  <1>4. r # p /\ Receiving(r) /\ ~ Asking(r, p) /\ \E i \in Wanted(r, p) : Vec(r)[i].resid = key
    BY <1>2, <1>3 DEF ListedOnce
  <1>5. PICK i \in Wanted(r, p) : Vec(r)[i].resid = key
    BY <1>4
  <1>6. key \notin DOMAIN store[p] \/ key \in checking[p]
    <2>1. ASSUME NEW c \in Procs, NEW j \in 1..Len(mgmt[c][p]), Storing(c, p, j), mgmt[c][p][j].resid = key
          PROVE  key \notin DOMAIN store[p]
      BY <2>1, StoringOnce DEF KeyInv
    <2>. QED
      BY <1>1, <2>1 DEF Coming
  <1>7. i \in NotYet(r, p)
    BY <1>1, <1>5, <1>6 DEF NotYet
  <1>. QED
    BY <1>4, <1>7

\* One reader changes.
LEMMA ReaderPut ==
    ASSUME ReaderTypes, NEW r \in Procs, NEW x, reader' = [reader EXCEPT ![r] = x],
           x = [pc |-> x.pc, vec |-> x.vec, first |-> x.first, size |-> x.size, local |-> x.local,
                asked |-> x.asked, buf |-> x.buf],
           x.pc \in {"idle", "distributing", "local", "waiting", "receiving"},
           x.vec \in Vectors \cup {None}, x.first \in Nat, x.size \in Int, IsSeq(x.local),
           DOMAIN x.asked = Ranks, \A p \in Ranks : IsSeq(x.asked[p])
    PROVE  ReaderTypes' /\ reader'[r] = x /\ \A q \in Procs \ {r} : reader'[q] = reader[q] /\ SameReader(q)
  <1>1. DOMAIN reader' = Procs /\ reader'[r] = x /\ \A q \in Procs \ {r} : reader'[q] = reader[q]
    BY DEF ReaderTypes
  <1>2. \A q \in Procs \ {r} : SameReader(q)
    BY <1>1, SameRecord
  <1>3. reader'[r] = ReaderOf(r)'
    BY <1>1 DEF ReaderOf
  <1>4. \A q \in Procs : q # r => reader'[q] = ReaderOf(q)'
    BY <1>1 DEF ReaderTypes, ReaderOf
  <1>5. ReaderTypes'
    BY <1>1, <1>3, <1>4 DEF ReaderTypes
  <1>. QED
    BY <1>1, <1>2, <1>5

Becomes(r, pc, v, f, z, l, a, b) ==
    reader' = [reader EXCEPT ![r] = [pc |-> pc, vec |-> v, first |-> f, size |-> z, local |-> l, asked |-> a,
                                     buf |-> b]]

LEMMA ReaderNow ==
    ASSUME ReaderTypes, NEW r \in Procs, NEW pc, NEW v, NEW f, NEW z, NEW l, NEW a, NEW b,
           Becomes(r, pc, v, f, z, l, a, b),
           pc \in {"idle", "distributing", "local", "waiting", "receiving"}, v \in Vectors \cup {None}, f \in Nat,
           z \in Int, IsSeq(l), DOMAIN a = Ranks, \A p \in Ranks : IsSeq(a[p])
    PROVE  /\ ReaderTypes' /\ \A q \in Procs \ {r} : reader'[q] = reader[q] /\ SameReader(q)
           /\ reader'[r].pc = pc /\ reader'[r].vec = v /\ reader'[r].first = f /\ reader'[r].size = z
           /\ reader'[r].local = l /\ reader'[r].asked = a
  <1>. DEFINE x == [pc |-> pc, vec |-> v, first |-> f, size |-> z, local |-> l, asked |-> a, buf |-> b]
  <1>1. /\ x.pc = pc /\ x.vec = v /\ x.first = f /\ x.size = z /\ x.local = l /\ x.asked = a /\ x.buf = b
        /\ x = [pc |-> x.pc, vec |-> x.vec, first |-> x.first, size |-> x.size, local |-> x.local,
                asked |-> x.asked, buf |-> x.buf]
    OBVIOUS
  <1>. HIDE DEF x
  <1>2. ReaderTypes' /\ reader'[r] = x /\ \A q \in Procs \ {r} : reader'[q] = reader[q] /\ SameReader(q)
    <2>1. reader' = [reader EXCEPT ![r] = x]
      BY DEF x, Becomes
    <2>. QED
      BY <1>1, <2>1, ReaderPut
  <1>. QED
    BY <1>1, <1>2

\* Descriptors that stay.
LEMMA SameDvs ==
    ASSUME dvs' = dvs
    PROVE  DvsStay
  BY DEF DvsStay

\* A step of reader r that sends nothing, and what it leaves alone.
LEMMA OnlyReader ==
    ASSUME KeyInv, ReadInv, NEW r \in Procs, ReaderTypes', \A q \in Procs \ {r} : SameReader(q),
           UNCHANGED <<mgmt, reply, store, pending, checking, nextKey, localKey, dvs, origin, source, job, made, released>>,
           AnswerTypes', \A q \in Procs \ {r}, p \in Ranks : answer'[p][q] = answer[p][q],
           r = Client /\ reader'[Client].pc = "distributing" => SameReader(Client),
           \A p \in Ranks : Awaits(r, p) => SameRange(r)
    PROVE  /\ ReadTypes' /\ KnownInv' /\ PartsApart' /\ JobInv' /\ CheckInv' /\ ReleaseInv' /\ ListedInv'
           /\ \A q \in Procs \ {r} : ReaderInv(q)' /\ \A p \in Ranks : AskInv(q, p)' /\ CountInv(q, p)'
  <1>0. ReadTypes /\ KnownInv /\ PartsApart /\ JobInv /\ CheckInv /\ ReleaseInv /\ ListedInv /\ KeyTypes
    BY ReadParts DEF KeyInv
  <1>1. PICK at : Kept(at, "none")
    BY KeptSame
  <1>2. DvsStay /\ KeysStay /\ ComingStays
    <2>1. \A p \in Ranks : \A key : Coming(p, key)' => Coming(p, key)
      BY <1>1, ComingKept
    <2>. QED
      BY <1>0, <2>1, SameDvs, SameReply DEF ComingStays
  <1>3. \A q \in Procs, p \in Ranks : \E f : NoNewAsk(q, p, f)
    BY <1>1, KeptAsks
  <1>4. ReadTypes'
    BY <1>0 DEF ReadTypes, VectorTypes
  <1>5. KnownInv' /\ PartsApart'
    BY <1>0, <1>2, KnownKept DEF ReadTypes
  <1>6. JobInv'
    <2>1. reader'[Client].pc = "distributing" => SameReader(Client)
      <3>1. Client \in Procs
        BY DEF Procs
      <3>. QED
        BY <3>1
    <2>. QED
      BY <1>0, <2>1 DEF JobInv, SameReader, SameRange
  <1>7. CheckInv'
    BY <1>0 DEF CheckInv
  <1>8. ReleaseInv'
    <2>1. \A v \in released : v \in Vectors
      BY <1>0 DEF ReadTypes, VectorTypes
    <2>. QED
      BY <1>0, <1>1, <1>2, ReleaseKept DEF ReadTypes
  <1>9. ListedInv'
    <2>1. \A q \in Procs, p \in Ranks : Receiving(q) /\ Awaits(q, p) => SameRange(q)
      BY DEF SameReader
    <2>2. \A q \in Procs, p \in Ranks : Asking(q, p)' => Asking(q, p)
      BY <1>3, NoNewAsking
    <2>3. \A q \in Procs : ReaderInv(q)
      BY ReadParts
    <2>. QED
      BY <1>0, <1>2, <2>1, <2>2, <2>3, ListedKept
  <1>10. ASSUME NEW q \in Procs \ {r}
         PROVE  ReaderInv(q)' /\ \A p \in Ranks : AskInv(q, p)' /\ CountInv(q, p)'
    <2>1. Active(q) => reader[q].vec \notin released'
      <3>1. ReaderInv(q)
        BY ReadParts
      <3>. QED
        BY <3>1 DEF ReaderInv
    <2>. QED
      BY <1>2, <1>3, <2>1, ReaderStays
  <1>. QED
    BY <1>4, <1>5, <1>6, <1>7, <1>8, <1>9, <1>10

\* The whole invariant from its parts.
LEMMA ReadWhole ==
    ASSUME ReadTypes', KnownInv', PartsApart', JobInv', CheckInv', ReleaseInv', ListedInv',
           \A r \in Procs : ReaderInv(r)' /\ \A p \in Ranks : AskInv(r, p)' /\ CountInv(r, p)'
    PROVE  ReadInv'
  BY Zenon DEF ReadInv

-----------------------------------------------------------------------------
\* The steps of readers and of the program.

\* The record of a reader, field by field.
LEMMA ReaderFields ==
    ASSUME ReaderTypes, NEW r \in Procs
    PROVE  /\ reader[r] = ReaderOf(r)
           /\ reader[r].pc \in {"idle", "distributing", "local", "waiting", "receiving"}
           /\ reader[r].vec \in Vectors \cup {None} /\ reader[r].first \in Nat /\ reader[r].size \in Int
           /\ IsSeq(reader[r].local)
           /\ DOMAIN reader[r].asked = Ranks /\ \A p \in Ranks : IsSeq(reader[r].asked[p])
  BY DEF ReaderTypes

LEMMA RecordWith ==
    ASSUME NEW y, y = [pc |-> y.pc, vec |-> y.vec, first |-> y.first, size |-> y.size, local |-> y.local,
                       asked |-> y.asked, buf |-> y.buf],
           NEW z, NEW b, NEW x
    PROVE  /\ x = [y EXCEPT !.local = z, !.buf = b] =>
                x = [pc |-> y.pc, vec |-> y.vec, first |-> y.first, size |-> y.size, local |-> z,
                     asked |-> y.asked, buf |-> b]
           /\ x = [y EXCEPT !.pc = z, !.vec = b] =>
                x = [pc |-> z, vec |-> b, first |-> y.first, size |-> y.size, local |-> y.local,
                     asked |-> y.asked, buf |-> y.buf]
           /\ x = [y EXCEPT !.asked = z, !.buf = b] =>
                x = [pc |-> y.pc, vec |-> y.vec, first |-> y.first, size |-> y.size, local |-> y.local,
                     asked |-> z, buf |-> b]
  OBVIOUS

\* A reader that only reads in its own process goes on.
LEMMA ReaderGoesOn ==
    ASSUME KeyInv, ReadInv, NEW r \in Procs, NEW x, reader' = [reader EXCEPT ![r] = x],
           x = [pc |-> x.pc, vec |-> reader[r].vec, first |-> reader[r].first, size |-> reader[r].size,
                local |-> x.local, asked |-> reader[r].asked, buf |-> x.buf],
           IsSeq(x.local), x.pc \in {"local", "waiting"}, reader[r].pc \in {"local", "waiting"},
           UNCHANGED <<mgmt, reply, answer, store, pending, checking, nextKey, localKey, dvs, origin, source, job,
                       made, released>>
    PROVE  ReadInv'
  <1>0. ReadTypes /\ ReaderTypes /\ ReaderInv(r)
    BY ReadParts DEF ReadTypes
  <1>1. /\ x.vec = reader[r].vec /\ x.first = reader[r].first /\ x.size = reader[r].size
        /\ x.asked = reader[r].asked
    OBVIOUS
  <1>2. ReaderTypes' /\ reader'[r] = x /\ \A q \in Procs \ {r} : SameReader(q)
    <2>1. /\ x = [pc |-> x.pc, vec |-> x.vec, first |-> x.first, size |-> x.size, local |-> x.local,
                  asked |-> x.asked, buf |-> x.buf]
          /\ x.pc \in {"idle", "distributing", "local", "waiting", "receiving"}
      BY <1>1
    <2>2. /\ x.vec \in Vectors \cup {None} /\ x.first \in Nat /\ x.size \in Int
          /\ DOMAIN x.asked = Ranks /\ \A p \in Ranks : IsSeq(x.asked[p])
      BY <1>0, <1>1, ReaderFields
    <2>. QED
      BY <1>0, <2>1, <2>2, ReaderPut
  <1>3. SameReader(r)
    BY <1>1, <1>2 DEF SameReader, SameRange, Active, Receiving
  <1>4. /\ ReadTypes' /\ KnownInv' /\ PartsApart' /\ JobInv' /\ CheckInv' /\ ReleaseInv' /\ ListedInv'
        /\ \A q \in Procs \ {r} : ReaderInv(q)' /\ \A p \in Ranks : AskInv(q, p)' /\ CountInv(q, p)'
    <2>1. AnswerTypes'
      BY <1>0 DEF ReadTypes, AnswerTypes
    <2>. QED
      BY <1>2, <1>3, <2>1, OnlyReader DEF SameReader
  <1>5. ReaderInv(r)' /\ \A p \in Ranks : AskInv(r, p)' /\ CountInv(r, p)'
    <2>1. PICK at : Kept(at, "none")
      BY KeptSame
    <2>2. \A p \in Ranks : \E f : NoNewAsk(r, p, f)
      BY <2>1, KeptAsks
    <2>3. Active(r) => reader[r].vec \notin released'
      BY <1>0 DEF ReaderInv
    <2>4. DvsStay
      BY SameDvs
    <2>. QED
      BY <1>3, <2>2, <2>3, <2>4, ReaderStays
  <1>. QED
    BY <1>4, <1>5, ReadWhole

LEMMA ReadLocalReads ==
    ASSUME KeyInv, ReadInv, NEW r \in Procs, ReadLocal(r)
    PROVE  ReadInv'
  <1>0. ReaderTypes /\ reader[r] = ReaderOf(r) /\ IsSeq(reader[r].local)
    BY ReadParts, ReaderFields DEF ReadTypes
  <1>1. /\ reader[r].pc = "local"
        /\ UNCHANGED <<mgmt, reply, answer, store, pending, checking, nextKey, localKey, dvs, origin, source, job,
                       made, released>>
    BY DEF ReadLocal, program, servers
  <1>2. PICK b : \/ reader' = [reader EXCEPT ![r].pc = "waiting"]
                 \/ reader' = [reader EXCEPT ![r].local = Tail(@), ![r].buf = b]
    BY DEF ReadLocal
  <1>3. CASE reader' = [reader EXCEPT ![r].pc = "waiting"]
    <2>. DEFINE x == [reader[r] EXCEPT !.pc = "waiting"]
    <2>1. reader' = [reader EXCEPT ![r] = x]
      BY <1>3
    <2>2. /\ x = [pc |-> x.pc, vec |-> reader[r].vec, first |-> reader[r].first, size |-> reader[r].size,
                  local |-> x.local, asked |-> reader[r].asked, buf |-> x.buf]
          /\ x.pc = "waiting" /\ x.local = reader[r].local
      BY <1>0 DEF ReaderOf
    <2>. HIDE DEF x
    <2>. QED
      BY <1>0, <1>1, <2>1, <2>2, ReaderGoesOn
  <1>4. CASE reader' = [reader EXCEPT ![r].local = Tail(@), ![r].buf = b]
    <2>0. PICK x : x = [reader[r] EXCEPT !.local = Tail(reader[r].local), !.buf = b]
      OBVIOUS
    <2>1. reader' = [reader EXCEPT ![r] = x]
      BY <1>0, <1>4, <2>0 DEF ReaderTypes
    <2>2. /\ x = [pc |-> x.pc, vec |-> reader[r].vec, first |-> reader[r].first, size |-> reader[r].size,
                  local |-> x.local, asked |-> reader[r].asked, buf |-> x.buf]
          /\ x.pc = "local" /\ x.local = Tail(reader[r].local)
      <3>1. x = [pc |-> reader[r].pc, vec |-> reader[r].vec, first |-> reader[r].first, size |-> reader[r].size,
                 local |-> Tail(reader[r].local), asked |-> reader[r].asked, buf |-> b]
        BY <1>0, <2>0, RecordWith DEF ReaderOf
      <3>. QED
        BY <1>1, <3>1
    <2>3. IsSeq(Tail(reader[r].local))
      BY <1>0, TailOf DEF ReadLocal
    <2>. QED
      BY <1>1, <2>1, <2>2, <2>3, ReaderGoesOn
  <1>. QED
    BY <1>2, <1>3, <1>4

LEMMA SpuriousWakeupReads ==
    ASSUME KeyInv, ReadInv, NEW r \in Procs, SpuriousWakeup(r)
    PROVE  ReadInv'
  <1>0. ReaderTypes /\ reader[r] = ReaderOf(r) /\ IsSeq(reader[r].local)
    BY ReadParts, ReaderFields DEF ReadTypes
  <1>. DEFINE x == [reader[r] EXCEPT !.pc = "local"]
  <1>1. reader' = [reader EXCEPT ![r] = x] /\ reader[r].pc = "waiting"
    BY DEF SpuriousWakeup
  <1>2. /\ x = [pc |-> x.pc, vec |-> reader[r].vec, first |-> reader[r].first, size |-> reader[r].size,
                local |-> x.local, asked |-> reader[r].asked, buf |-> x.buf]
        /\ x.pc = "local" /\ x.local = reader[r].local
    BY <1>0 DEF ReaderOf
  <1>3. UNCHANGED <<mgmt, reply, answer, store, pending, checking, nextKey, localKey, dvs, origin, source, job,
                    made, released>>
    BY DEF SpuriousWakeup, program, servers
  <1>. HIDE DEF x
  <1>. QED
    BY <1>0, <1>1, <1>2, <1>3, ReaderGoesOn

LEMMA ReceivePieceReads ==
    ASSUME KeyInv, ReadInv, NEW r \in Procs, NEW p \in Ranks, ReceivePiece(r, p)
    PROVE  ReadInv'
  <1>0. /\ ReadTypes /\ ReaderTypes /\ AnswerTypes /\ ReaderInv(r) /\ \A q \in Ranks : AskInv(r, q) /\ CountInv(r, q)
        /\ reader[r] = ReaderOf(r) /\ reader[r].vec \in Vectors \cup {None}
        /\ reader[r].first \in Nat /\ reader[r].size \in Int /\ IsSeq(reader[r].local)
        /\ DOMAIN reader[r].asked = Ranks /\ \A q \in Ranks : IsSeq(reader[r].asked[q])
    BY ReadParts, ReaderFields DEF ReadTypes
  <1>1. /\ reader[r].pc = "receiving" /\ reader[r].asked[p] # << >> /\ answer[p][r] # << >>
        /\ UNCHANGED <<mgmt, reply, store, pending, checking, nextKey, localKey, dvs, origin, source, job,
                       made, released>>
    BY DEF ReceivePiece, program, servers
  <1>2. PICK b : reader' = [reader EXCEPT ![r].asked[p] = Tail(@), ![r].buf = b]
    BY DEF ReceivePiece
  <1>3. PICK a : a = [reader[r].asked EXCEPT ![p] = Tail(reader[r].asked[p])]
    OBVIOUS
  <1>4. /\ DOMAIN a = Ranks /\ \A q \in Ranks : IsSeq(a[q])
        /\ a[p] = Tail(reader[r].asked[p]) /\ Len(a[p]) = Len(reader[r].asked[p]) - 1
        /\ \A q \in Ranks \ {p} : a[q] = reader[r].asked[q]
    <2>1. IsSeq(Tail(reader[r].asked[p])) /\ Len(Tail(reader[r].asked[p])) = Len(reader[r].asked[p]) - 1
      BY <1>0, <1>1, TailOf
    <2>. QED
      BY <1>0, <1>3, <2>1
  <1>5. PICK x : x = [reader[r] EXCEPT !.asked = a, !.buf = b]
    OBVIOUS
  <1>6. x = [pc |-> "receiving", vec |-> reader[r].vec, first |-> reader[r].first, size |-> reader[r].size,
             local |-> reader[r].local, asked |-> a, buf |-> b]
    BY <1>0, <1>1, <1>5, RecordWith DEF ReaderOf
  <1>7. Becomes(r, "receiving", reader[r].vec, reader[r].first, reader[r].size, reader[r].local, a, b)
    <2>1. [reader EXCEPT ![r].asked[p] = Tail(@)] = [reader EXCEPT ![r] = [reader[r] EXCEPT !.asked = a]]
      BY <1>3
    <2>. QED
      BY <1>0, <1>2, <1>5, <1>6, <2>1 DEF ReaderTypes, Becomes
  <1>8. /\ ReaderTypes' /\ \A q \in Procs \ {r} : SameReader(q)
        /\ reader'[r].pc = "receiving" /\ reader'[r].vec = reader[r].vec /\ reader'[r].first = reader[r].first
        /\ reader'[r].size = reader[r].size /\ reader'[r].asked = a
    BY <1>0, <1>4, <1>7, ReaderNow
  <1>9. SameRange(r) /\ reader'[r].asked = a /\ Receiving(r) /\ Active(r) /\ Receiving(r)' /\ Active(r)'
    BY <1>1, <1>8 DEF SameRange, Active, Receiving
  <1>10. /\ AnswerTypes' /\ answer'[p][r] = Tail(answer[p][r]) /\ Len(answer'[p][r]) = Len(answer[p][r]) - 1
         /\ \A q \in Procs, o \in Ranks : q # r \/ o # p => answer'[o][q] = answer[o][q]
    <2>1. answer' = [answer EXCEPT ![p][r] = Tail(@)]
      BY DEF ReceivePiece
    <2>2. IsSeq(Tail(answer[p][r])) /\ Len(Tail(answer[p][r])) = Len(answer[p][r]) - 1
      BY <1>0, <1>1, TailOf DEF AnswerTypes
    <2>. QED
      BY <1>0, <1>1, <2>1, <2>2 DEF AnswerTypes
  <1>11. /\ ReadTypes' /\ KnownInv' /\ PartsApart' /\ JobInv' /\ CheckInv' /\ ReleaseInv' /\ ListedInv'
         /\ \A q \in Procs \ {r} : ReaderInv(q)' /\ \A o \in Ranks : AskInv(q, o)' /\ CountInv(q, o)'
    <2>1. r = Client /\ reader'[Client].pc = "distributing" => SameReader(Client)
      BY <1>8
    <2>. QED
      BY <1>1, <1>8, <1>9, <1>10, <2>1, OnlyReader
  <1>12. DvsStay
    BY <1>1, SameDvs
  <1>13. r \in Ranks => reader[r].asked[r] = << >>
    BY <1>0, <1>9 DEF ReaderInv
  <1>14. Vec(r)' = Vec(r) /\ \A q : Wanted(r, q)' = Wanted(r, q) /\ PiecesFrom(r, q)' = PiecesFrom(r, q)
    BY <1>0, <1>9, <1>12, SameWants
  <1>15. ReaderInv(r)'
    <2>1. reader[r].vec \in Vectors /\ Vec(r) # << >> /\ reader[r].vec \notin released
      BY <1>0, <1>9 DEF ReaderInv
    <2>2. reader'[r].vec = reader[r].vec
      BY <1>9 DEF SameRange
    <2>3. r \in Ranks => r # p /\ reader'[r].asked[r] = << >>
      BY <1>1, <1>4, <1>9, <1>13
    <2>4. reader'[r].pc = "receiving"
      BY <1>9 DEF Receiving
    <2>. QED
      BY <1>1, <1>9, <1>14, <2>1, <2>2, <2>3, <2>4 DEF ReaderInv
  <1>16. PICK at : Kept(at, "none")
    BY <1>1, KeptSame
  <1>17. ASSUME NEW q \in Ranks
         PROVE  AskInv(r, q)' /\ CountInv(r, q)'
    <2>1. PICK f : NoNewAsk(r, q, f)
      BY <1>16, KeptAsks
    <2>2. NotYet(r, q)' \subseteq NotYet(r, q)
      <3>1. Asking(r, q)' => Asking(r, q)
        BY <2>1, NoNewAsking
      <3>2. \A key : Listed(r, q, key)' => Listed(r, q, key)
        BY <1>1 DEF Listed
      <3>. QED
        BY <1>0, <1>1, <1>9, <1>12, <3>1, <3>2, NotYetKept
    <2>3. CASE q # p
      <3>1. reader'[r].asked[q] = reader[r].asked[q] /\ answer'[q][r] = answer[q][r]
        BY <1>4, <1>9, <1>10, <2>3
      <3>2. AskInv(r, q)'
        BY <1>0, <1>9, <1>12, <2>1, <3>1, AskKept
      <3>3. CountInv(r, q)'
        BY <1>0, <1>9, <1>12, <2>2, <3>1, CountKept
      <3>. QED
        BY <3>2, <3>3
    <2>4. CASE q = p
      <3>1. AskInv(r, p)'
        <4>1. ASSUME NEW i \in 1..Len(mgmt'[r][p]), Asks(r, p, i)' PROVE FALSE
          <5>1. f[i] \in 1..Len(mgmt[r][p]) /\ Asks(r, p, f[i])
            BY <2>1, <2>4, <4>1, Zenon DEF NoNewAsk
          <5>2. answer[p][r] = << >>
            BY <1>0, <5>1, Zenon DEF AskInv
          <5>. QED
            BY <1>1, <5>2
        <4>. QED
          BY <4>1 DEF AskInv
      <3>2. p # r
        BY <1>1, <1>13
      <3>3. Len(answer[p][r]) + Cardinality(NotYet(r, p)) <= Len(reader[r].asked[p])
        BY <1>0, <1>9, <3>2 DEF CountInv
      <3>4. Cardinality(NotYet(r, p)') \in Nat /\ Cardinality(NotYet(r, p)') <= Cardinality(NotYet(r, p))
            /\ Cardinality(NotYet(r, p)) \in Nat
        <4>1. IsFiniteSet(NotYet(r, p)) /\ Cardinality(NotYet(r, p)) \in Nat
          BY <1>0, <1>9, WantedFacts DEF ReaderInv
        <4>. DEFINE S == NotYet(r, p)
                    T == NotYet(r, p)'
        <4>. HIDE DEF S, T
        <4>2. IsFiniteSet(S) /\ T \subseteq S
          BY <2>2, <2>4, <4>1 DEF S, T
        <4>3. IsFiniteSet(T) /\ Cardinality(T) <= Cardinality(S) /\ Cardinality(T) \in Nat
          BY <4>2, FS_Subset, FS_CardinalityType
        <4>. QED
          BY <4>1, <4>3 DEF S, T
      <3>5. Len(answer[p][r]) \in Nat /\ Len(reader[r].asked[p]) \in Nat
        BY <1>0 DEF AnswerTypes, IsSeq
      <3>6. Len(answer'[p][r]) + Cardinality(NotYet(r, p)') <= Len(reader'[r].asked[p])
        <4>. DEFINE s == Cardinality(NotYet(r, p))
                    t == Cardinality(NotYet(r, p)')
                    l == Len(answer[p][r])
                    k == Len(reader[r].asked[p])
        <4>1. s \in Nat /\ t \in Nat /\ t <= s /\ l \in Nat /\ k \in Nat /\ l + s <= k
          BY <3>3, <3>4, <3>5
        <4>2. Len(answer'[p][r]) = l - 1 /\ Len(reader'[r].asked[p]) = k - 1
          BY <1>4, <1>9, <1>10
        <4>. HIDE DEF s, t, l, k
        <4>3. (l - 1) + t <= k - 1
          BY <4>1
        <4>. QED
          BY <4>2, <4>3 DEF t
      <3>7. CountInv(r, p)'
        BY <1>9, <3>2, <3>6 DEF CountInv
      <3>. QED
        BY <2>4, <3>1, <3>7
    <2>. QED
      BY <2>3, <2>4
  <1>. QED
    BY <1>11, <1>15, <1>17, ReadWhole

\* A reader that has got everything: nothing is on its way to it, from it or listed for it.
LEMMA GotAllDone ==
    ASSUME KeyInv, ReadInv, NEW r \in Procs, GotAll(r), NEW p \in Ranks
    PROVE  answer[p][r] = << >> /\ ~ Asking(r, p) /\ ~ Awaits(r, p) /\ (p # r => NotYet(r, p) = {})
  <1>0. ReadTypes /\ ReaderInv(r) /\ AskInv(r, p) /\ CountInv(r, p) /\ IsSeq(answer[p][r])
    BY ReadParts DEF ReadTypes, AnswerTypes
  <1>1. Receiving(r) /\ Active(r) /\ reader[r].asked[p] = << >> /\ Len(reader[r].asked[p]) = 0
    BY DEF GotAll, Receiving, Active
  <1>2. ~ Asking(r, p)
    <2>1. ASSUME NEW i \in 1..Len(mgmt[r][p]), Asks(r, p, i) PROVE FALSE
      <3>1. reader[r].asked[p] # << >>
        BY <1>0, <2>1, Zenon DEF AskInv
      <3>. QED
        BY <1>1, <3>1
    <2>. QED
      BY <2>1 DEF Asking
  <1>3. IsFiniteSet(NotYet(r, p)) /\ Cardinality(NotYet(r, p)) \in Nat
    BY <1>0, <1>1, WantedFacts DEF ReaderInv
  <1>4. Len(answer[p][r]) \in Nat /\ (answer[p][r] = << >> <=> Len(answer[p][r]) = 0)
    BY <1>0, EmptyOf DEF IsSeq
  <1>5. CASE p = r
    <2>1. answer[p][r] = << >>
      BY <1>0, <1>5 DEF CountInv
    <2>. QED
      BY <1>2, <1>5, <2>1, AwaitsNotYet
  <1>6. CASE p # r
    <2>1. Len(answer[p][r]) + Cardinality(NotYet(r, p)) <= Len(reader[r].asked[p])
      BY <1>0, <1>1, <1>6 DEF CountInv
    <2>2. Len(answer[p][r]) = 0 /\ Cardinality(NotYet(r, p)) = 0
      BY <1>1, <1>3, <1>4, <2>1
    <2>3. NotYet(r, p) = {}
      BY <1>3, <2>2, FS_EmptySet
    <2>. QED
      BY <1>2, <1>4, <2>2, <2>3, AwaitsNotYet
  <1>. QED
    BY <1>5, <1>6

\* A reader that reads no more.
LEMMA NowIdle ==
    ASSUME NEW r \in Procs, reader'[r].pc \in {"idle", "distributing"}, reader'[r].pc = "idle" => reader'[r].vec = None,
           reader'[r].pc = "distributing" => r = Client,
           \A p \in Ranks : answer'[p][r] = << >> /\ ~ Asking(r, p)'
    PROVE  ReaderInv(r)' /\ \A p \in Ranks : AskInv(r, p)' /\ CountInv(r, p)'
  <1>1. ~ Active(r)'
    BY DEF Active
  <1>2. ReaderInv(r)'
    BY <1>1 DEF ReaderInv
  <1>3. ASSUME NEW p \in Ranks PROVE AskInv(r, p)' /\ CountInv(r, p)'
    <2>1. CountInv(r, p)'
      BY <1>1 DEF CountInv
    <2>2. ASSUME NEW i \in 1..Len(mgmt'[r][p]) PROVE ~ Asks(r, p, i)'
      BY DEF Asking
    <2>3. AskInv(r, p)'
      BY <2>2, Zenon DEF AskInv
    <2>. QED
      BY <2>1, <2>3
  <1>. QED
    BY <1>2, <1>3

LEMMA IdleRecord ==
    /\ IsSeq(<< >>) /\ Len(<< >>) = 0
    /\ Idle = [pc |-> "idle", vec |-> None, first |-> 0, size |-> 0, local |-> << >>,
               asked |-> [p \in Ranks |-> << >>], buf |-> << >>]
  <1>1. IsSeq(<< >>) /\ Len(<< >>) = 0
    BY DEF IsSeq
  <1>. QED
    BY <1>1 DEF Idle

\* A reader becomes idle.
LEMMA ReaderIdle ==
    ASSUME ReaderTypes, NEW r \in Procs, reader' = [reader EXCEPT ![r] = Idle]
    PROVE  /\ ReaderTypes' /\ \A q \in Procs \ {r} : reader'[q] = reader[q] /\ SameReader(q)
           /\ reader'[r].pc = "idle" /\ reader'[r].vec = None
  <1>. DEFINE a == [p \in Ranks |-> << >>]
  <1>1. Becomes(r, "idle", None, 0, 0, << >>, a, << >>)
    BY IdleRecord DEF Becomes
  <1>2. DOMAIN a = Ranks /\ \A p \in Ranks : IsSeq(a[p])
    BY IdleRecord
  <1>3. IsSeq(<< >>) /\ None \in Vectors \cup {None}
    BY IdleRecord
  <1>. HIDE DEF a
  <1>. QED
    BY <1>1, <1>2, <1>3, ReaderNow

LEMMA ProgramGotReads ==
    ASSUME KeyInv, ReadInv, ProgramGot
    PROVE  ReadInv'
  <1>0. ReadTypes /\ ReaderTypes /\ AnswerTypes /\ Client \in Procs
    BY ReadParts DEF ReadTypes, Procs
  <1>1. /\ GotAll(Client) /\ reader' = [reader EXCEPT ![Client] = Idle]
        /\ UNCHANGED <<mgmt, reply, answer, store, pending, checking, nextKey, localKey, dvs, origin, source, job,
                       made, released>>
    BY DEF ProgramGot, servers
  <1>2. /\ ReaderTypes' /\ \A q \in Procs \ {Client} : SameReader(q)
        /\ reader'[Client].pc = "idle" /\ reader'[Client].vec = None
    BY <1>0, <1>1, ReaderIdle
  <1>3. \A p \in Ranks : answer[p][Client] = << >> /\ ~ Asking(Client, p) /\ ~ Awaits(Client, p)
    BY <1>0, <1>1, GotAllDone
  <1>4. AnswerTypes'
    BY <1>0, <1>1 DEF AnswerTypes
  <1>5. /\ ReadTypes' /\ KnownInv' /\ PartsApart' /\ JobInv' /\ CheckInv' /\ ReleaseInv' /\ ListedInv'
        /\ \A q \in Procs \ {Client} : ReaderInv(q)' /\ \A p \in Ranks : AskInv(q, p)' /\ CountInv(q, p)'
    BY <1>0, <1>1, <1>2, <1>3, <1>4, OnlyReader
  <1>6. \A p \in Ranks : answer'[p][Client] = << >> /\ ~ Asking(Client, p)'
    BY <1>1, <1>3 DEF Asking, Asks
  <1>7. ReaderInv(Client)' /\ \A p \in Ranks : AskInv(Client, p)' /\ CountInv(Client, p)'
    BY <1>0, <1>2, <1>6, NowIdle
  <1>. QED
    BY <1>5, <1>7, ReadWhole

\* A read starts: it wants of every process the parts it asks for.
LEMMA ReadStarts ==
    ASSUME KeyInv, ReadInv, NEW r \in Procs, reader[r].pc = "idle", NEW v \in Vectors, dvs[v] # << >>,
           v \notin released, NEW o \in Nat, NEW n \in Int, reader' = [reader EXCEPT ![r] = Reading(r, v, o, n)],
           UNCHANGED <<mgmt, reply, answer, store, pending, checking, nextKey, localKey, dvs, origin, source, job,
                       made, released>>
    PROVE  ReadInv'
  <1>0. /\ ReadTypes /\ ReaderTypes /\ AnswerTypes /\ ReaderInv(r) /\ KeyTypes
        /\ \A p \in Ranks : AskInv(r, p) /\ CountInv(r, p)
    BY ReadParts DEF ReadTypes, KeyInv
  <1>1. PICK dv \in Seq(Part) : dv = dvs[v]
    BY <1>0 DEF ReadTypes, VectorTypes
  <1>2. Len(dv) \in Nat /\ DOMAIN dv = 1..Len(dv)
    BY <1>1
  <1>. DEFINE held(p) == {i \in Met(dv, o, n) : dv[i].pid = p}
              ask == [p \in Ranks |-> IF p = r THEN << >> ELSE PiecesAt(dv, held(p), o, n)]
              buf == [u \in 0..(n - 1) |-> Zero]
  <1>3. \A p : held(p) \subseteq 1..Len(dv) /\ IsFiniteSet(held(p))
    <2>1. \A p : held(p) \subseteq 1..Len(dv)
      BY <1>2 DEF Met
    <2>2. IsFiniteSet(1..Len(dv))
      BY <1>2, FS_Interval
    <2>. QED
      BY <2>1, <2>2, FS_Subset
  <1>4. \A p : /\ IsSeq(PiecesAt(dv, held(p), o, n)) /\ Cardinality(held(p)) \in Nat
               /\ Len(PiecesAt(dv, held(p), o, n)) = Cardinality(held(p))
    <2>. HIDE DEF held
    <2>. QED
      BY <1>2, <1>3, PiecesAtFacts
  <1>5. DOMAIN ask = Ranks /\ \A p \in Ranks : IsSeq(ask[p])
    <2>. HIDE DEF held
    <2>. QED
      BY <1>4, IdleRecord
  <1>6. Becomes(r, "local", v, o, n, PiecesAt(dv, held(r), o, n), ask, buf)
    BY <1>1 DEF Becomes, Reading
  <1>. HIDE DEF ask, buf
  <1>7. /\ ReaderTypes' /\ \A q \in Procs \ {r} : SameReader(q)
        /\ reader'[r].pc = "local" /\ reader'[r].vec = v /\ reader'[r].first = o /\ reader'[r].size = n
        /\ reader'[r].asked = ask
    <2>. HIDE DEF held
    <2>. QED
      BY <1>0, <1>4, <1>5, <1>6, ReaderNow
  <1>8. ~ Active(r) /\ ~ Receiving(r) /\ Active(r)' /\ ~ Receiving(r)'
    BY <1>7 DEF Active, Receiving
  <1>9. \A p \in Ranks : ~ Awaits(r, p)
    BY <1>8, AwaitsNotYet
  <1>10. /\ ReadTypes' /\ KnownInv' /\ PartsApart' /\ JobInv' /\ CheckInv' /\ ReleaseInv' /\ ListedInv'
         /\ \A q \in Procs \ {r} : ReaderInv(q)' /\ \A p \in Ranks : AskInv(q, p)' /\ CountInv(q, p)'
    <2>1. AnswerTypes' /\ (r = Client /\ reader'[Client].pc = "distributing" => SameReader(Client))
      BY <1>0, <1>7 DEF AnswerTypes
    <2>. QED
      BY <1>7, <1>9, <2>1, OnlyReader
  <1>11. Vec(r)' = dv /\ \A p : Wanted(r, p)' = held(p) /\ PiecesFrom(r, p)' = PiecesAt(dv, held(p), o, n)
    <2>1. Vec(r)' = dv
      BY <1>1, <1>7 DEF Vec
    <2>2. \A p : Wanted(r, p)' = held(p)
      BY <1>7, <2>1 DEF Wanted
    <2>. QED
      BY <1>7, <2>1, <2>2 DEF PiecesFrom
  <1>12. ReaderInv(r)'
    <2>1. \A p \in Ranks \ {r} : reader'[r].asked[p] = PiecesFrom(r, p)'
      <3>. HIDE DEF held
      <3>. QED
        BY <1>7, <1>11 DEF ask
    <2>2. r \in Ranks => reader'[r].asked[r] = << >>
      BY <1>7 DEF ask
    <2>3. reader'[r].vec \in Vectors /\ Vec(r)' # << >> /\ reader'[r].vec \notin released'
      BY <1>1, <1>7, <1>11
    <2>. QED
      BY <1>7, <2>1, <2>2, <2>3 DEF ReaderInv
  <1>13. ASSUME NEW p \in Ranks PROVE AskInv(r, p)' /\ CountInv(r, p)'
    <2>1. ASSUME NEW i \in 1..Len(mgmt'[r][p]) PROVE ~ Asks(r, p, i)'
      <3>1. Asks(r, p, i) => Receiving(r)
        BY <1>0, <2>1, Zenon DEF AskInv
      <3>. QED
        BY <1>8, <3>1 DEF Asks
    <2>2. AskInv(r, p)'
      BY <2>1, Zenon DEF AskInv
    <2>3. answer'[p][r] = << >> /\ Len(answer'[p][r]) = 0
      BY <1>0, <1>8, IdleRecord DEF CountInv
    <2>4. Cardinality(NotYet(r, p)') \in Nat /\ Cardinality(NotYet(r, p)') <= Cardinality(held(p))
      <3>. DEFINE S == held(p)
                  T == NotYet(r, p)'
      <3>1. IsFiniteSet(S) /\ T \subseteq S
        BY <1>3, <1>11 DEF NotYet
      <3>. HIDE DEF S, T
      <3>2. IsFiniteSet(T) /\ Cardinality(T) <= Cardinality(S) /\ Cardinality(T) \in Nat
        BY <3>1, FS_Subset, FS_CardinalityType
      <3>. QED
        BY <3>2 DEF S, T
    <2>5. p # r => Len(reader'[r].asked[p]) = Cardinality(held(p))
      <3>. HIDE DEF held
      <3>. QED
        BY <1>4, <1>7 DEF ask
    <2>6. CountInv(r, p)'
      <3>. DEFINE t == Cardinality(NotYet(r, p)')
                  c == Cardinality(held(p))
      <3>1. t \in Nat /\ t <= c /\ c \in Nat
        BY <1>4, <2>4
      <3>. HIDE DEF t, c
      <3>2. 0 + t <= c
        BY <3>1
      <3>. QED
        BY <1>8, <2>3, <2>5, <3>2 DEF CountInv, t, c
    <2>. QED
      BY <2>2, <2>6
  <1>. QED
    BY <1>10, <1>12, <1>13, ReadWhole

LEMMA ProgramGetReads ==
    ASSUME KeyInv, ReadInv, NEW v \in Vectors, ProgramGet(v)
    PROVE  ReadInv'
  <1>0. Client \in Procs /\ dvs[v] \in Seq(Part)
    BY ReadParts DEF ReadTypes, VectorTypes, Procs
  <1>1. /\ reader[Client].pc = "idle" /\ dvs[v] # << >> /\ v \notin released
        /\ reader' = [reader EXCEPT ![Client] = Reading(Client, v, 0, VecSize(dvs[v]))]
        /\ UNCHANGED <<mgmt, reply, answer, store, pending, checking, nextKey, localKey, dvs, origin, source, job,
                       made, released>>
    BY DEF ProgramGet, HasDescriptor, program, servers
  <1>2. PICK n \in Int : n = VecSize(dvs[v])
    BY <1>0, VecSizeFacts
  <1>3. reader' = [reader EXCEPT ![Client] = Reading(Client, v, 0, n)]
    BY <1>1, <1>2
  <1>. QED
    BY <1>0, <1>1, <1>3, ReadStarts

LEMMA StartFetchReads ==
    ASSUME KeyInv, ReadInv, NEW g \in Groups, NEW s \in DOMAIN g, StartFetch(g, s)
    PROVE  ReadInv'
  <1>0. /\ g[s] \in Procs /\ Len(g) \in Nat \ {0} /\ s - 1 \in Int
    BY GroupProcs DEF Procs
  <1>1. PICK v : v = source[job[g]]
    OBVIOUS
  <1>2. v \in Vectors /\ v \notin released
    BY <1>1, ReadParts DEF StartFetch, JobInv
  <1>3. dvs[v] \in Seq(Part)
    BY <1>2, ReadParts DEF ReadTypes, VectorTypes
  <1>4. PICK size : size = VecSize(dvs[v])
    OBVIOUS
  <1>5. PICK o, end : /\ o = Beg(size, s - 1, Len(g)) /\ end = End(size, s - 1, Len(g))
                      /\ reader' = [reader EXCEPT ![g[s]] = Reading(g[s], v, o, end - o)]
    BY <1>1, <1>4 DEF StartFetch, Descriptor
  <1>6. /\ reader[g[s]].pc = "idle" /\ dvs[v] # << >>
        /\ UNCHANGED <<mgmt, reply, answer, store, pending, checking, nextKey, localKey, dvs, origin, source, job,
                       made, released>>
    BY <1>1 DEF StartFetch, HasDescriptor, Descriptor, program, servers
  <1>7. size \in Int
    BY <1>3, <1>4, VecSizeFacts
  <1>8. o \in Nat /\ end \in Nat
    BY <1>0, <1>5, <1>7, RangeTypes
  <1>9. PICK n \in Int : n = end - o
    BY <1>8
  <1>10. reader' = [reader EXCEPT ![g[s]] = Reading(g[s], v, o, n)]
    BY <1>5, <1>9
  <1>. QED
    BY <1>0, <1>2, <1>6, <1>8, <1>10, ReadStarts

\* A channel that stays as it was.
LEMMA ChannelSame ==
    ASSUME NEW r \in Procs, NEW p \in Ranks, mgmt'[r][p] = mgmt[r][p]
    PROVE  \E f : NoNewAsk(r, p, f)
  <1>. DEFINE f == [i \in 1..Len(mgmt'[r][p]) |-> i]
  <1>1. \A i \in 1..Len(mgmt'[r][p]) : f[i] = i
    OBVIOUS
  <1>. HIDE DEF f
  <1>2. \A i \in 1..Len(mgmt'[r][p]) : Asks(r, p, i)' => Asks(r, p, i)
    BY DEF Asks
  <1>3. NoNewAsk(r, p, f)
    BY <1>1, <1>2 DEF NoNewAsk
  <1>. QED
    BY <1>3

\* A step that sends messages of type T, which store nothing, and leaves the descriptors and the store alone.
LEMMA OnlySent ==
    ASSUME KeyInv, ReadInv, NEW at, NEW T, Kept(at, T), T # "STORE", T # "RELEASE", ReaderTypes',
           UNCHANGED <<reply, answer, store, pending, checking, nextKey, localKey, dvs, made, released>>,
           \A q \in Procs, p \in Ranks : Receiving(q) /\ Awaits(q, p) =>
               SameRange(q) /\ (Asking(q, p)' => Asking(q, p)),
           job' \in [Groups -> Vectors \cup {None}],
           source' \in [Vectors -> Vectors \cup {None}], origin' \in [Vectors -> Vectors \cup {None}]
    PROVE  /\ ReadTypes' /\ KnownInv' /\ PartsApart' /\ CheckInv' /\ ReleaseInv' /\ ListedInv' /\ DvsStay
           /\ \A q \in Procs : SameReader(q) /\ (\A p \in Ranks : \E f : NoNewAsk(q, p, f)) =>
                 ReaderInv(q)' /\ \A p \in Ranks : AskInv(q, p)' /\ CountInv(q, p)'
  <1>0. ReadTypes /\ KnownInv /\ PartsApart /\ CheckInv /\ ReleaseInv /\ ListedInv /\ KeyTypes
    BY ReadParts DEF KeyInv
  <1>2. DvsStay /\ KeysStay /\ ComingStays
    <2>1. \A p \in Ranks : \A key : Coming(p, key)' => Coming(p, key)
      BY ComingKept
    <2>. QED
      BY <1>0, <2>1, SameDvs, SameReply DEF ComingStays
  <1>4. ReadTypes'
    BY <1>0 DEF ReadTypes, AnswerTypes, VectorTypes
  <1>5. KnownInv' /\ PartsApart'
    BY <1>0, <1>2, KnownKept DEF ReadTypes
  <1>7. CheckInv'
    BY <1>0 DEF CheckInv
  <1>8. ReleaseInv'
    BY <1>0, <1>2, ReleaseKept DEF ReadTypes
  <1>9. ListedInv'
    <2>3. \A q \in Procs : ReaderInv(q)
      BY ReadParts
    <2>. QED
      BY <1>0, <1>2, <2>3, ListedKept
  <1>10. ASSUME NEW q \in Procs, SameReader(q), \A p \in Ranks : \E f : NoNewAsk(q, p, f)
         PROVE  ReaderInv(q)' /\ \A p \in Ranks : AskInv(q, p)' /\ CountInv(q, p)'
    <2>1. Active(q) => reader[q].vec \notin released'
      <3>1. ReaderInv(q)
        BY ReadParts
      <3>. QED
        BY <3>1 DEF ReaderInv
    <2>. QED
      BY <1>2, <1>10, <2>1, ReaderStays
  <1>. QED
    BY <1>2, <1>4, <1>5, <1>7, <1>8, <1>9, <1>10

\* The questions that a reader sends.
LEMMA AskPiecesSends ==
    ASSUME KeyTypes, NEW r \in Procs, AskPieces(r)
    PROVE  /\ \A c \in Procs \ {r}, p \in Ranks : mgmt'[c][p] = mgmt[c][p]
           /\ \A p \in Ranks : IF reader[r].asked[p] = << >> THEN mgmt'[r][p] = mgmt[r][p]
                               ELSE mgmt'[r][p] = Append(mgmt[r][p], GetMsg(r, reader[r].asked[p]))
           /\ \A p \in Ranks : reader[r].asked[p] # << >> =>
                 /\ Len(mgmt[r][p]) \in Nat /\ Len(mgmt'[r][p]) = Len(mgmt[r][p]) + 1
                 /\ \A i \in 1..Len(mgmt[r][p]) : mgmt'[r][p][i] = mgmt[r][p][i]
                 /\ mgmt'[r][p][Len(mgmt[r][p]) + 1] = GetMsg(r, reader[r].asked[p])
           /\ \E at : Kept(at, "GET")
  <1>2. /\ \A c \in Procs \ {r}, p \in Ranks : mgmt'[c][p] = mgmt[c][p]
        /\ \A p \in Ranks : IF reader[r].asked[p] = << >> THEN mgmt'[r][p] = mgmt[r][p]
                            ELSE mgmt'[r][p] = Append(mgmt[r][p], GetMsg(r, reader[r].asked[p]))
    <2>. DEFINE row == [p \in Ranks |-> IF reader[r].asked[p] = << >> THEN mgmt[r][p]
                                        ELSE Append(mgmt[r][p], GetMsg(r, reader[r].asked[p]))]
    <2>1. \A p \in Ranks : IF reader[r].asked[p] = << >> THEN row[p] = mgmt[r][p]
                           ELSE row[p] = Append(mgmt[r][p], GetMsg(r, reader[r].asked[p]))
      OBVIOUS
    <2>2. mgmt' = [mgmt EXCEPT ![r] = row]
      BY DEF AskPieces, KeyTypes
    <2>. HIDE DEF row
    <2>3. mgmt'[r] = row /\ \A c \in Procs \ {r} : mgmt'[c] = mgmt[c]
      BY <2>2 DEF KeyTypes
    <2>. QED
      BY <2>1, <2>3
  <1>3. ASSUME NEW p \in Ranks, reader[r].asked[p] # << >>
        PROVE  /\ Len(mgmt[r][p]) \in Nat /\ Len(mgmt'[r][p]) = Len(mgmt[r][p]) + 1
               /\ \A i \in 1..Len(mgmt[r][p]) : mgmt'[r][p][i] = mgmt[r][p][i]
               /\ mgmt'[r][p][Len(mgmt[r][p]) + 1] = GetMsg(r, reader[r].asked[p])
    <2>1. IsSeq(mgmt[r][p]) /\ mgmt'[r][p] = Append(mgmt[r][p], GetMsg(r, reader[r].asked[p]))
      BY <1>2, <1>3 DEF KeyTypes
    <2>. QED
      BY <2>1, AppendOf DEF IsSeq
  <1>4. \E at : Kept(at, "GET")
    <2>1. ASSUME NEW c \in Procs, NEW p \in Ranks, NEW i \in 1..Len(mgmt'[c][p])
          PROVE  \/ i \in 1..Len(mgmt[c][p]) /\ mgmt'[c][p][i] = mgmt[c][p][i]
                 \/ mgmt'[c][p][i].type = "GET"
      <3>1. CASE c # r \/ reader[r].asked[p] = << >>
        BY <1>2, <2>1, <3>1
      <3>2. CASE c = r /\ reader[r].asked[p] # << >>
        <4>1. i \in 1..Len(mgmt[r][p]) \/ i = Len(mgmt[r][p]) + 1
          BY <1>3, <2>1, <3>2
        <4>2. GetMsg(r, reader[r].asked[p]).type = "GET"
          BY DEF GetMsg
        <4>. QED
          BY <1>3, <3>2, <4>1, <4>2
      <3>. QED
        BY <3>1, <3>2
    <2>. QED
      BY <2>1, KeptGrown
  <1>. QED
    BY <1>2, <1>3, <1>4

LEMMA AskPiecesReads ==
    ASSUME KeyInv, ReadInv, NEW r \in Procs, AskPieces(r)
    PROVE  ReadInv'
  <1>0. /\ ReadTypes /\ ReaderTypes /\ AnswerTypes /\ ReaderInv(r) /\ KeyTypes /\ JobInv
        /\ \A p \in Ranks : AskInv(r, p) /\ CountInv(r, p)
        /\ reader[r] = ReaderOf(r) /\ reader[r].vec \in Vectors \cup {None}
        /\ reader[r].first \in Nat /\ reader[r].size \in Int /\ IsSeq(reader[r].local)
        /\ DOMAIN reader[r].asked = Ranks /\ \A q \in Ranks : IsSeq(reader[r].asked[q])
    BY ReadParts, ReaderFields DEF ReadTypes, KeyInv
  <1>1. /\ reader[r].pc = "local"
        /\ UNCHANGED <<reply, answer, store, pending, checking, nextKey, localKey, dvs, origin, source, job,
                       made, released>>
    BY DEF AskPieces, program, servers
  <1>2. /\ \A c \in Procs \ {r}, p \in Ranks : mgmt'[c][p] = mgmt[c][p]
        /\ \A p \in Ranks : IF reader[r].asked[p] = << >> THEN mgmt'[r][p] = mgmt[r][p]
                            ELSE mgmt'[r][p] = Append(mgmt[r][p], GetMsg(r, reader[r].asked[p]))
    BY <1>0, AskPiecesSends
  <1>3. \A p \in Ranks : reader[r].asked[p] # << >> =>
           /\ Len(mgmt[r][p]) \in Nat /\ Len(mgmt'[r][p]) = Len(mgmt[r][p]) + 1
           /\ \A i \in 1..Len(mgmt[r][p]) : mgmt'[r][p][i] = mgmt[r][p][i]
           /\ mgmt'[r][p][Len(mgmt[r][p]) + 1] = GetMsg(r, reader[r].asked[p])
    BY <1>0, AskPiecesSends
  <1>4. PICK at : Kept(at, "GET")
    BY <1>0, AskPiecesSends
  <1>5. Becomes(r, "receiving", reader[r].vec, reader[r].first, reader[r].size, reader[r].local, reader[r].asked,
                reader[r].buf)
    <2>1. PICK y : y = reader[r]
      OBVIOUS
    <2>2. y = [pc |-> y.pc, vec |-> y.vec, first |-> y.first, size |-> y.size, local |-> y.local,
               asked |-> y.asked, buf |-> y.buf]
      BY <1>0, <2>1 DEF ReaderOf
    <2>3. [y EXCEPT !.pc = "receiving"] =
              [pc |-> "receiving", vec |-> y.vec, first |-> y.first, size |-> y.size, local |-> y.local,
               asked |-> y.asked, buf |-> y.buf]
      BY <2>2
    <2>4. reader' = [reader EXCEPT ![r] = [y EXCEPT !.pc = "receiving"]]
      BY <2>1 DEF AskPieces
    <2>. QED
      BY <2>1, <2>3, <2>4 DEF Becomes
  <1>6. /\ ReaderTypes' /\ \A q \in Procs \ {r} : SameReader(q)
        /\ reader'[r].pc = "receiving" /\ reader'[r].vec = reader[r].vec /\ reader'[r].first = reader[r].first
        /\ reader'[r].size = reader[r].size /\ reader'[r].asked = reader[r].asked
    BY <1>0, <1>5, ReaderNow
  <1>7. Active(r) /\ ~ Receiving(r) /\ Active(r)' /\ Receiving(r)'
    BY <1>1, <1>6 DEF Active, Receiving
  <1>8. \A q \in Procs \ {r}, p \in Ranks : \E f : NoNewAsk(q, p, f)
    BY <1>2, ChannelSame
  <1>9. /\ ReadTypes' /\ KnownInv' /\ PartsApart' /\ CheckInv' /\ ReleaseInv' /\ ListedInv' /\ DvsStay
        /\ \A q \in Procs \ {r} : ReaderInv(q)' /\ \A p \in Ranks : AskInv(q, p)' /\ CountInv(q, p)'
    <2>1. ASSUME NEW q \in Procs, NEW p \in Ranks, Receiving(q)
          PROVE  SameRange(q) /\ (Asking(q, p)' => Asking(q, p))
      <3>1. q # r
        BY <1>7, <2>1
      <3>. QED
        BY <1>6, <1>8, <3>1, NoNewAsking DEF SameReader
    <2>2. /\ job' \in [Groups -> Vectors \cup {None}]
          /\ source' \in [Vectors -> Vectors \cup {None}] /\ origin' \in [Vectors -> Vectors \cup {None}]
      BY <1>0, <1>1 DEF ReadTypes, VectorTypes
    <2>. QED
      BY <1>1, <1>4, <1>6, <1>8, <2>1, <2>2, OnlySent
  <1>10. JobInv'
    <2>1. reader'[Client].pc = "distributing" => SameReader(Client)
      <3>1. Client \in Procs
        BY DEF Procs
      <3>. QED
        BY <1>6, <3>1
    <2>. QED
      BY <1>0, <1>1, <2>1 DEF JobInv, SameReader, SameRange
  <1>11. Vec(r)' = Vec(r) /\ \A p : Wanted(r, p)' = Wanted(r, p) /\ PiecesFrom(r, p)' = PiecesFrom(r, p)
    <2>1. Vec(r)' = Vec(r)
      BY <1>1, <1>6 DEF Vec
    <2>2. \A p : Wanted(r, p)' = Wanted(r, p)
      BY <1>6, <2>1 DEF Wanted
    <2>. QED
      BY <1>6, <2>1, <2>2 DEF PiecesFrom
  <1>12. /\ reader[r].vec \in Vectors /\ Vec(r) # << >> /\ reader[r].vec \notin released
         /\ \A p \in Ranks \ {r} : reader[r].asked[p] = PiecesFrom(r, p)
         /\ r \in Ranks => reader[r].asked[r] = << >>
    BY <1>0, <1>7 DEF ReaderInv
  <1>13. ReaderInv(r)'
    BY <1>1, <1>6, <1>7, <1>11, <1>12 DEF ReaderInv
  <1>14. ASSUME NEW p \in Ranks PROVE AskInv(r, p)' /\ CountInv(r, p)'
    <2>0. ASSUME NEW i \in 1..Len(mgmt[r][p]), Asks(r, p, i) PROVE FALSE
      <3>1. Receiving(r)
        BY <1>0, <2>0, Zenon DEF AskInv
      <3>. QED
        BY <1>7, <3>1
    <2>1. answer[p][r] = << >> /\ answer'[p][r] = << >> /\ Len(answer'[p][r]) = 0
      BY <1>0, <1>1, <1>7, IdleRecord DEF CountInv
    <2>2. ASSUME NEW i \in 1..Len(mgmt'[r][p]), Asks(r, p, i)'
          PROVE  reader[r].asked[p] # << >> /\ i = Len(mgmt[r][p]) + 1
      <3>1. CASE reader[r].asked[p] = << >>
        <4>1. i \in 1..Len(mgmt[r][p]) /\ Asks(r, p, i)
          BY <1>2, <2>2, <3>1 DEF Asks
        <4>. QED
          BY <2>0, <4>1
      <3>2. CASE reader[r].asked[p] # << >>
        <4>1. i \in 1..Len(mgmt[r][p]) \/ i = Len(mgmt[r][p]) + 1
          BY <1>3, <2>2, <3>2
        <4>2. i \in 1..Len(mgmt[r][p]) => Asks(r, p, i)
          BY <1>3, <2>2, <3>2 DEF Asks
        <4>. QED
          BY <2>0, <3>2, <4>1, <4>2
      <3>. QED
        BY <3>1, <3>2
    <2>3. AskInv(r, p)'
      <3>. SUFFICES ASSUME NEW i \in 1..Len(mgmt'[r][p]), Asks(r, p, i)'
                    PROVE  /\ r # p /\ mgmt'[r][p][i].src = r /\ Receiving(r)' /\ answer'[p][r] = << >>
                           /\ mgmt'[r][p][i].parts = reader'[r].asked[p]
                           /\ reader'[r].asked[p] = PiecesFrom(r, p)' /\ reader'[r].asked[p] # << >>
                           /\ \A j \in 1..Len(mgmt'[r][p]) : Asks(r, p, j)' => i = j
        BY DEF AskInv
      <3>1. reader[r].asked[p] # << >> /\ i = Len(mgmt[r][p]) + 1
        BY <2>2
      <3>2. r # p
        BY <1>12, <3>1
      <3>3. mgmt'[r][p][i] = GetMsg(r, reader[r].asked[p])
        BY <1>3, <3>1
      <3>4. mgmt'[r][p][i].src = r /\ mgmt'[r][p][i].parts = reader[r].asked[p]
        BY <3>3 DEF GetMsg
      <3>5. \A j \in 1..Len(mgmt'[r][p]) : Asks(r, p, j)' => i = j
        BY <2>2, <3>1
      <3>. QED
        BY <1>6, <1>7, <1>11, <1>12, <2>1, <3>1, <3>2, <3>4, <3>5
    <2>4. CountInv(r, p)'
      <3>1. CASE p = r
        BY <2>1, <3>1 DEF CountInv
      <3>2. CASE p # r
        <4>1. /\ Vec(r) \in Seq(Part) /\ Len(Vec(r)) \in Nat /\ Wanted(r, p) \subseteq 1..Len(Vec(r))
              /\ IsFiniteSet(Wanted(r, p)) /\ Cardinality(Wanted(r, p)) \in Nat
          BY <1>0, <1>12, WantedFacts
        <4>2. Len(reader'[r].asked[p]) = Cardinality(Wanted(r, p))
          <5>1. Len(PiecesFrom(r, p)) = Cardinality(Wanted(r, p))
            BY <4>1, PiecesAtFacts DEF PiecesFrom
          <5>. QED
            BY <1>6, <1>12, <3>2, <5>1
        <4>3. Cardinality(NotYet(r, p)') \in Nat /\ Cardinality(NotYet(r, p)') <= Cardinality(Wanted(r, p))
          <5>. DEFINE S == Wanted(r, p)
                      T == NotYet(r, p)'
          <5>1. IsFiniteSet(S) /\ T \subseteq S
            BY <1>11, <4>1 DEF NotYet
          <5>. HIDE DEF S, T
          <5>2. IsFiniteSet(T) /\ Cardinality(T) <= Cardinality(S) /\ Cardinality(T) \in Nat
            BY <5>1, FS_Subset, FS_CardinalityType
          <5>. QED
            BY <5>2 DEF S, T
        <4>. DEFINE t == Cardinality(NotYet(r, p)')
                    c == Cardinality(Wanted(r, p))
        <4>4. t \in Nat /\ t <= c /\ c \in Nat
          BY <4>1, <4>3
        <4>. HIDE DEF t, c
        <4>5. 0 + t <= c
          BY <4>4
        <4>. QED
          BY <1>7, <2>1, <3>2, <4>2, <4>5 DEF CountInv, t, c
      <3>. QED
        BY <3>1, <3>2
    <2>. QED
      BY <2>3, <2>4
  <1>. QED
    BY <1>9, <1>10, <1>13, <1>14, ReadWhole

-----------------------------------------------------------------------------
\* What the program starts.

LEMMA CallFetchReads ==
    ASSUME KeyInv, ReadInv, NEW g \in Groups, NEW v \in Vectors, NEW w \in Vectors, CallFetch(g, v, w)
    PROVE  ReadInv'
  <1>0. ReadTypes /\ ReaderTypes /\ VectorTypes /\ JobInv
    BY ReadParts DEF ReadTypes
  <1>1. /\ reader[Client].pc = "idle" /\ origin[v] # None /\ v \notin released /\ Unused(w) /\ CanLive(g)
        /\ job' = [job EXCEPT ![g] = w] /\ origin' = [origin EXCEPT ![w] = origin[v]]
        /\ source' = [source EXCEPT ![w] = v]
        /\ UNCHANGED <<mgmt, reply, answer, store, pending, checking, nextKey, localKey, dvs, made, reader, released>>
    BY DEF CallFetch, servers
  <1>2. origin[w] = None /\ w # None /\ dvs[w] = << >> /\ \A h \in Groups : job[h] # w
    <2>1. origin[w] = None /\ w # None
      BY <1>1 DEF Unused, Vectors, None
    <2>. QED
      BY <1>0, <2>1 DEF JobInv
  <1>3. /\ DOMAIN job = Groups /\ DOMAIN origin = Vectors /\ DOMAIN source = Vectors /\ origin[v] \in Vectors
        /\ job' \in [Groups -> Vectors \cup {None}]
        /\ source' \in [Vectors -> Vectors \cup {None}] /\ origin' \in [Vectors -> Vectors \cup {None}]
    BY <1>0, <1>1 DEF VectorTypes
  <1>4. /\ job'[g] = w /\ \A h \in Groups \ {g} : job'[h] = job[h]
        /\ origin'[w] = origin[v] /\ source'[w] = v
        /\ \A u \in Vectors \ {w} : origin'[u] = origin[u] /\ source'[u] = source[u]
    BY <1>1, <1>3
  <1>5. JobInv'
    <2>1. ASSUME NEW h \in Groups, NEW k \in Groups, job'[h] # None, job'[k] # None, h # k
          PROVE  ~ Share(h, k) /\ job'[h] # job'[k]
      <3>1. CASE h = g
        <4>1. job[k] # None /\ ~ Share(g, k)
          BY <1>1, <1>4, <2>1, <3>1 DEF CanLive
        <4>. QED
          BY <1>2, <1>4, <2>1, <3>1, <4>1
      <3>2. CASE k = g
        <4>1. job[h] # None /\ ~ Share(g, h)
          BY <1>1, <1>4, <2>1, <3>2 DEF CanLive
        <4>2. ~ Share(h, g)
          BY <4>1 DEF Share
        <4>. QED
          BY <1>2, <1>4, <2>1, <3>2, <4>2
      <3>3. CASE h # g /\ k # g
        <4>1. job'[h] = job[h] /\ job'[k] = job[k]
          BY <1>4, <3>3
        <4>. QED
          BY <1>0, <2>1, <4>1 DEF JobInv
      <3>. QED
        BY <3>1, <3>2, <3>3
    <2>2. ASSUME NEW h \in Groups, job'[h] # None
          PROVE  /\ dvs'[job'[h]] = << >> /\ origin'[job'[h]] # None
                 /\ source'[job'[h]] \in Vectors /\ source'[job'[h]] \notin released'
      <3>1. CASE h = g
        BY <1>1, <1>2, <1>4, <3>1
      <3>2. CASE h # g
        <4>1. job'[h] = job[h] /\ job[h] \in Vectors /\ job[h] # w
          BY <1>0, <1>2, <1>4, <2>2, <3>2 DEF VectorTypes
        <4>. QED
          BY <1>0, <1>1, <1>4, <2>2, <4>1 DEF JobInv
      <3>. QED
        BY <3>1, <3>2
    <2>3. ASSUME NEW u \in Vectors, dvs'[u] # << >> PROVE origin'[u] # None
      BY <1>0, <1>1, <1>4, <2>3 DEF JobInv
    <2>4. reader'[Client].pc # "distributing"
      BY <1>1
    <2>. QED
      BY <2>1, <2>2, <2>3, <2>4 DEF JobInv, Share
  <1>6. PICK at : Kept(at, "none")
    BY <1>1, KeptSame
  <1>7. \A q \in Procs : SameReader(q) /\ \A p \in Ranks : \E f : NoNewAsk(q, p, f)
    BY <1>1, <1>6, KeptAsks, SameRecord
  <1>8. /\ ReadTypes' /\ KnownInv' /\ PartsApart' /\ CheckInv' /\ ReleaseInv' /\ ListedInv'
        /\ \A q \in Procs : ReaderInv(q)' /\ \A p \in Ranks : AskInv(q, p)' /\ CountInv(q, p)'
    <2>1. ReaderTypes'
      BY <1>0, <1>1 DEF ReaderTypes, ReaderOf
    <2>2. \A q \in Procs, p \in Ranks : SameRange(q) /\ (Asking(q, p)' => Asking(q, p))
      BY <1>7, NoNewAsking DEF SameReader
    <2>. QED
      BY <1>1, <1>3, <1>6, <1>7, <2>1, <2>2, OnlySent
  <1>. QED
    BY <1>5, <1>8, ReadWhole

\* The message that asks for a descriptor.
LEMMA AskDistributeSends ==
    ASSUME KeyTypes, NEW g \in Groups, NEW v \in Vectors, AskDistribute(g, v)
    PROVE  \E at : Kept(at, "DISTRIBUTE")
  <1>0. Client \in Procs /\ g[1] \in Ranks
    BY GroupProcs DEF Procs
  <1>7. /\ \A c \in Procs, p \in Ranks : c # Client \/ p # g[1] => mgmt'[c][p] = mgmt[c][p]
        /\ mgmt'[Client][g[1]] = Append(mgmt[Client][g[1]], DistributeMsg(g))
    BY <1>0 DEF AskDistribute, KeyTypes
  <1>8. \E at : Kept(at, "DISTRIBUTE")
    <2>1. ASSUME NEW c \in Procs, NEW p \in Ranks, NEW i \in 1..Len(mgmt'[c][p])
          PROVE  \/ i \in 1..Len(mgmt[c][p]) /\ mgmt'[c][p][i] = mgmt[c][p][i]
                 \/ mgmt'[c][p][i].type = "DISTRIBUTE"
      <3>1. CASE c # Client \/ p # g[1]
        BY <1>7, <2>1, <3>1
      <3>2. CASE c = Client /\ p = g[1]
        <4>1. IsSeq(mgmt[c][p])
          BY DEF KeyTypes
        <4>2. /\ Len(mgmt[c][p]) \in Nat /\ Len(mgmt'[c][p]) = Len(mgmt[c][p]) + 1
              /\ \A k \in 1..Len(mgmt[c][p]) : mgmt'[c][p][k] = mgmt[c][p][k]
              /\ mgmt'[c][p][Len(mgmt[c][p]) + 1] = DistributeMsg(g)
          <5>1. PICK b, m : b = mgmt[c][p] /\ m = DistributeMsg(g)
            OBVIOUS
          <5>2. mgmt'[c][p] = Append(b, m) /\ IsSeq(b)
            BY <1>7, <3>2, <4>1, <5>1
          <5>3. /\ Len(b) \in Nat /\ Len(Append(b, m)) = Len(b) + 1
                /\ \A k \in 1..Len(b) : Append(b, m)[k] = b[k]
                /\ Append(b, m)[Len(b) + 1] = m
            BY ONLY <5>2, AppendOf DEF IsSeq
          <5>. QED
            BY <5>1, <5>2, <5>3
        <4>3. i \in 1..Len(mgmt[c][p]) \/ i = Len(mgmt[c][p]) + 1
          BY <4>2
        <4>. QED
          BY <4>2, <4>3 DEF DistributeMsg
      <3>. QED
        BY <3>1, <3>2
    <2>. QED
      BY <2>1, KeptGrown
  <1>. QED
    BY <1>8

LEMMA AskDistributeReads ==
    ASSUME KeyInv, ReadInv, NEW g \in Groups, NEW v \in Vectors, AskDistribute(g, v)
    PROVE  ReadInv'
  <1>0. /\ ReadTypes /\ ReaderTypes /\ VectorTypes /\ JobInv /\ KeyTypes /\ Client \in Procs /\ g[1] \in Ranks
        /\ \A p \in Ranks : AskInv(Client, p) /\ CountInv(Client, p)
    BY ReadParts, GroupProcs DEF ReadTypes, KeyInv, Procs
  <1>1. /\ reader[Client].pc = "idle" /\ Unused(v)
        /\ mgmt' = [mgmt EXCEPT ![Client][g[1]] = Append(@, DistributeMsg(g))]
        /\ origin' = [origin EXCEPT ![v] = v]
        /\ reader' = [reader EXCEPT ![Client] = [Idle EXCEPT !.pc = "distributing", !.vec = v]]
        /\ UNCHANGED <<reply, answer, store, pending, checking, nextKey, localKey, dvs, source, job, made, released>>
    BY DEF AskDistribute, servers
  <1>2. origin[v] = None /\ v # None /\ dvs[v] = << >> /\ \A h \in Groups : job[h] # v
    <2>1. origin[v] = None /\ v # None
      BY <1>1 DEF Unused, Vectors, None
    <2>. QED
      BY <1>0, <2>1 DEF JobInv
  <1>3. /\ origin' \in [Vectors -> Vectors \cup {None}] /\ origin'[v] = v
        /\ \A u \in Vectors \ {v} : origin'[u] = origin[u]
    BY <1>0, <1>1 DEF VectorTypes
  <1>. DEFINE a == [p \in Ranks |-> << >>]
  <1>4. Becomes(Client, "distributing", v, 0, 0, << >>, a, << >>)
    <2>1. Idle = [pc |-> "idle", vec |-> None, first |-> 0, size |-> 0, local |-> << >>, asked |-> a, buf |-> << >>]
      BY DEF Idle
    <2>. HIDE DEF a
    <2>2. PICK y : y = [pc |-> "idle", vec |-> None, first |-> 0, size |-> 0, local |-> << >>, asked |-> a,
                        buf |-> << >>]
      OBVIOUS
    <2>3. y = [pc |-> y.pc, vec |-> y.vec, first |-> y.first, size |-> y.size, local |-> y.local,
               asked |-> y.asked, buf |-> y.buf]
      BY <2>2
    <2>4. PICK x : x = [y EXCEPT !.pc = "distributing", !.vec = v]
      OBVIOUS
    <2>5. x = [pc |-> "distributing", vec |-> v, first |-> y.first, size |-> y.size, local |-> y.local,
               asked |-> y.asked, buf |-> y.buf]
      BY <2>3, <2>4, RecordWith
    <2>6. x = [pc |-> "distributing", vec |-> v, first |-> 0, size |-> 0, local |-> << >>, asked |-> a, buf |-> << >>]
      BY <2>2, <2>5
    <2>. QED
      BY <1>1, <2>1, <2>2, <2>4, <2>6 DEF Becomes
  <1>5. DOMAIN a = Ranks /\ (\A p \in Ranks : IsSeq(a[p])) /\ IsSeq(<< >>) /\ v \in Vectors \cup {None}
    BY IdleRecord
  <1>. HIDE DEF a
  <1>6. /\ ReaderTypes' /\ \A q \in Procs \ {Client} : SameReader(q)
        /\ reader'[Client].pc = "distributing" /\ reader'[Client].vec = v
    BY <1>0, <1>4, <1>5, ReaderNow
  <1>8. PICK at : Kept(at, "DISTRIBUTE")
    BY <1>0, AskDistributeSends
  <1>9. \A q \in Procs, p \in Ranks : \E f : NoNewAsk(q, p, f)
    BY <1>8, KeptAsks
  <1>10. /\ ReadTypes' /\ KnownInv' /\ PartsApart' /\ CheckInv' /\ ReleaseInv' /\ ListedInv'
         /\ \A q \in Procs \ {Client} : ReaderInv(q)' /\ \A p \in Ranks : AskInv(q, p)' /\ CountInv(q, p)'
    <2>1. ASSUME NEW q \in Procs, NEW p \in Ranks, Receiving(q)
          PROVE  SameRange(q) /\ (Asking(q, p)' => Asking(q, p))
      <3>1. q # Client
        BY <1>1, <2>1 DEF Receiving
      <3>. QED
        BY <1>6, <1>9, <3>1, NoNewAsking DEF SameReader
    <2>2. /\ job' \in [Groups -> Vectors \cup {None}]
          /\ source' \in [Vectors -> Vectors \cup {None}]
      BY <1>0, <1>1 DEF VectorTypes
    <2>. QED
      BY <1>1, <1>3, <1>6, <1>8, <1>9, <2>1, <2>2, OnlySent
  <1>11. JobInv'
    <2>1. ASSUME NEW h \in Groups, job'[h] # None
          PROVE  /\ dvs'[job'[h]] = << >> /\ origin'[job'[h]] # None
                 /\ source'[job'[h]] \in Vectors /\ source'[job'[h]] \notin released'
      BY <1>0, <1>1, <1>2, <1>3, <2>1 DEF JobInv, VectorTypes
    <2>2. ASSUME NEW u \in Vectors, dvs'[u] # << >> PROVE origin'[u] # None
      BY <1>0, <1>1, <1>2, <1>3, <2>2 DEF JobInv
    <2>3. \A h, k \in Groups : job'[h] # None /\ job'[k] # None /\ h # k => ~ Share(h, k) /\ job'[h] # job'[k]
      BY <1>0, <1>1 DEF JobInv
    <2>4. /\ reader'[Client].vec \in Vectors
          /\ dvs'[reader'[Client].vec] = << >> /\ origin'[reader'[Client].vec] # None
          /\ \A h \in Groups : job'[h] # reader'[Client].vec
      BY <1>1, <1>2, <1>3, <1>6
    <2>. QED
      BY <2>1, <2>2, <2>3, <2>4 DEF JobInv, Share
  <1>12. ~ Active(Client) /\ ~ Active(Client)'
    BY <1>1, <1>6 DEF Active
  <1>13. ASSUME NEW p \in Ranks PROVE AskInv(Client, p)' /\ CountInv(Client, p)'
    <2>1. PICK f : NoNewAsk(Client, p, f)
      BY <1>0, <1>9
    <2>. QED
      BY <1>0, <1>1, <1>12, <2>1, RestsStill
  <1>14. ReaderInv(Client)'
    BY <1>6, <1>12 DEF ReaderInv
  <1>. QED
    BY <1>10, <1>11, <1>13, <1>14, ReadWhole

LEMMA ReleaseVectorReads ==
    ASSUME KeyInv, ReadInv, NEW v \in Vectors, ReleaseVector(v)
    PROVE  ReadInv'
  <1>0. /\ ReadTypes /\ KnownInv /\ PartsApart /\ JobInv /\ CheckInv /\ ReleaseInv /\ ListedInv /\ KeyTypes
        /\ ReaderTypes /\ VectorTypes /\ \A r \in Procs : ReaderInv(r)
    BY ReadParts DEF ReadTypes, KeyInv
  <1>. DEFINE n == Len(dvs[v])
              mail == [i \in 1..n |-> [to |-> dvs[v][i].pid, msg |-> ReleaseMsg(dvs[v][i].resid)]]
  <1>1. n \in Nat
    BY <1>0 DEF VectorTypes
  <1>2. /\ DOMAIN mail = 1..n
        /\ \A i \in 1..n : mail[i].to = dvs[v][i].pid /\ mail[i].msg = ReleaseMsg(dvs[v][i].resid)
    OBVIOUS
  <1>3. /\ mgmt' = SendAll(Client, mail) /\ released' = released \cup {v} /\ ~ Needed(v)
        /\ UNCHANGED <<reply, answer, store, pending, checking, nextKey, localKey, dvs, origin, source, job, made,
                       reader>>
    BY DEF ReleaseVector, servers
  <1>4. Client \in Procs
    BY DEF Procs
  <1>. HIDE DEF mail, n
  <1>5. /\ \A d \in Procs \ {Client} : mgmt'[d] = mgmt[d]
        /\ \A p \in Ranks : \A i \in 1..Len(mgmt[Client][p]) : mgmt'[Client][p][i] = mgmt[Client][p][i]
        /\ \A p \in Ranks : \A i \in 1..Len(mgmt'[Client][p]) : i \notin 1..Len(mgmt[Client][p]) =>
              /\ Place(Client, mail, p, i) \in 1..n /\ mail[Place(Client, mail, p, i)].to = p
              /\ mgmt'[Client][p][i] = mail[Place(Client, mail, p, i)].msg
    BY <1>0, <1>1, <1>2, <1>3, <1>4, SendAllEffect
  <1>6. ASSUME NEW p \in Ranks, NEW i \in 1..Len(mgmt'[Client][p]), i \notin 1..Len(mgmt[Client][p])
        PROVE  \E k \in 1..n : dvs[v][k].pid = p /\ mgmt'[Client][p][i] = ReleaseMsg(dvs[v][k].resid)
    BY <1>2, <1>5, <1>6
  <1>7. ASSUME NEW c \in Procs, NEW p \in Ranks, NEW i \in 1..Len(mgmt'[c][p])
        PROVE  \/ i \in 1..Len(mgmt[c][p]) /\ mgmt'[c][p][i] = mgmt[c][p][i]
               \/ /\ c = Client
                  /\ \E k \in 1..n : dvs[v][k].pid = p /\ mgmt'[c][p][i] = ReleaseMsg(dvs[v][k].resid)
    <2>1. CASE c # Client
      BY <1>5, <1>7, <2>1
    <2>2. CASE c = Client /\ i \in 1..Len(mgmt[c][p])
      BY <1>5, <2>2
    <2>3. CASE c = Client /\ i \notin 1..Len(mgmt[c][p])
      BY <1>6, <1>7, <2>3
    <2>. QED
      BY <2>1, <2>2, <2>3
  <1>8. PICK at : Kept(at, "RELEASE")
    <2>1. \A k : ReleaseMsg(k).type = "RELEASE"
      BY DEF ReleaseMsg
    <2>2. \A c \in Procs, p \in Ranks : \A i \in 1..Len(mgmt'[c][p]) :
              \/ i \in 1..Len(mgmt[c][p]) /\ mgmt'[c][p][i] = mgmt[c][p][i]
              \/ mgmt'[c][p][i].type = "RELEASE"
      BY <1>7, <2>1
    <2>. QED
      BY <2>2, KeptGrown
  <1>9. DvsStay /\ KeysStay /\ ComingStays
    <2>1. \A p \in Ranks : \A key : Coming(p, key)' => Coming(p, key)
      BY <1>3, <1>8, ComingKept
    <2>. QED
      BY <1>0, <1>3, <2>1, SameDvs, SameReply DEF ComingStays
  <1>10. \A q \in Procs : SameReader(q) /\ \A p \in Ranks : \E f : NoNewAsk(q, p, f)
    BY <1>3, <1>8, KeptAsks, SameRecord
  <1>11. ReadTypes'
    <2>1. ReaderTypes'
      BY <1>0, <1>3 DEF ReaderTypes, ReaderOf
    <2>2. released' \subseteq Vectors
      BY <1>0, <1>3 DEF VectorTypes
    <2>3. AnswerTypes'
      BY <1>0, <1>3 DEF ReadTypes, AnswerTypes
    <2>4. VectorTypes'
      BY <1>0, <1>3, <2>2 DEF VectorTypes
    <2>. QED
      BY <2>1, <2>3, <2>4 DEF ReadTypes
  <1>12. KnownInv' /\ PartsApart'
    BY <1>0, <1>3, <1>9, KnownKept
  <1>13. JobInv'
    <2>1. ASSUME NEW h \in Groups, job'[h] # None
          PROVE  /\ dvs'[job'[h]] = << >> /\ origin'[job'[h]] # None
                 /\ source'[job'[h]] \in Vectors /\ source'[job'[h]] \notin released'
      <3>1. /\ job[h] # None /\ dvs[job[h]] = << >> /\ origin[job[h]] # None /\ source[job[h]] \in Vectors
            /\ source[job[h]] \notin released
        BY <1>0, <1>3, <2>1 DEF JobInv
      <3>2. job[h] \in Vectors
        BY <1>0, <3>1 DEF VectorTypes
      <3>3. source[job[h]] # v
        BY <1>3, <3>1, <3>2 DEF Needed, HasDescriptor
      <3>. QED
        BY <1>3, <3>1, <3>3
    <2>2. /\ \A h, k \in Groups : job'[h] # None /\ job'[k] # None /\ h # k => ~ Share(h, k) /\ job'[h] # job'[k]
          /\ \A u \in Vectors : dvs'[u] # << >> => origin'[u] # None
          /\ reader'[Client].pc = "distributing" =>
                /\ reader'[Client].vec \in Vectors
                /\ dvs'[reader'[Client].vec] = << >> /\ origin'[reader'[Client].vec] # None
                /\ \A g \in Groups : job'[g] # reader'[Client].vec
      BY <1>0, <1>3 DEF JobInv
    <2>. QED
      BY <2>1, <2>2 DEF JobInv, Share
  <1>14. CheckInv'
    BY <1>0, <1>3 DEF CheckInv
  <1>15. ReleaseInv'
    <2>. SUFFICES ASSUME NEW c \in Procs, NEW p \in Ranks, NEW i \in 1..Len(mgmt'[c][p]), mgmt'[c][p][i].type = "RELEASE"
                  PROVE  /\ c = Client
                         /\ \E w \in released' : \E k \in 1..Len(dvs'[w]) :
                               dvs'[w][k].pid = p /\ dvs'[w][k].resid = mgmt'[c][p][i].resid
      BY DEF ReleaseInv
    <2>1. CASE i \in 1..Len(mgmt[c][p]) /\ mgmt'[c][p][i] = mgmt[c][p][i]
      <3>1. /\ c = Client
            /\ \E w \in released : \E k \in 1..Len(dvs[w]) :
                  dvs[w][k].pid = p /\ dvs[w][k].resid = mgmt[c][p][i].resid
        BY <1>0, <2>1, ReleaseOne
      <3>. QED
        BY <1>3, <2>1, <3>1
    <2>2. CASE c = Client /\ \E k \in 1..n : dvs[v][k].pid = p /\ mgmt'[c][p][i] = ReleaseMsg(dvs[v][k].resid)
      <3>1. PICK k \in 1..n : dvs[v][k].pid = p /\ mgmt'[c][p][i] = ReleaseMsg(dvs[v][k].resid)
        BY <2>2
      <3>2. mgmt'[c][p][i].resid = dvs[v][k].resid
        BY <3>1 DEF ReleaseMsg
      <3>3. v \in released' /\ dvs' = dvs /\ k \in 1..Len(dvs[v])
        BY <1>3, <3>1 DEF n
      <3>. QED
        BY <2>2, <3>1, <3>2, <3>3
    <2>. QED
      BY <1>7, <2>1, <2>2
  <1>16. ListedInv'
    <2>1. \A q \in Procs, p \in Ranks : SameRange(q) /\ (Asking(q, p)' => Asking(q, p))
      BY <1>10, NoNewAsking DEF SameReader
    <2>. QED
      BY <1>0, <1>3, <1>9, <2>1, ListedKept
  <1>17. ASSUME NEW r \in Procs PROVE ReaderInv(r)' /\ \A p \in Ranks : AskInv(r, p)' /\ CountInv(r, p)'
    <2>1. Active(r) => reader[r].vec \notin released'
      <3>1. reader[r].vec # v
        BY <1>3 DEF Needed
      <3>. QED
        BY <1>0, <1>3, <3>1 DEF ReaderInv
    <2>. QED
      BY <1>3, <1>9, <1>10, <2>1, ReaderStays
  <1>. QED
    BY <1>11, <1>12, <1>13, <1>14, <1>15, <1>16, <1>17, ReadWhole

-----------------------------------------------------------------------------
\* The steps of the management threads.

\* What a step of a management thread leaves as it was: it sends no question and gives up no part.
LEMMA Served ==
    ASSUME ReadInv, KeysStay, NEW at, NEW T, Kept(at, T), T # "GET", T # "RELEASE",
           ReaderTypes', AnswerTypes', VectorTypes', UNCHANGED <<dvs, origin, source, job, made, released>>,
           \A r \in Procs : SameReader(r),
           \A p \in Ranks : \A key \in DOMAIN pending'[p] : Issued(p, key)'
    PROVE  /\ ReadTypes' /\ KnownInv' /\ PartsApart' /\ JobInv' /\ ReleaseInv' /\ DvsStay
           /\ \A r \in Procs : ReaderInv(r)'
           /\ \A r \in Procs, p \in Ranks : (\E f : NoNewAsk(r, p, f)) /\ (Asking(r, p)' => Asking(r, p))
  <1>0. ReadTypes /\ KnownInv /\ PartsApart /\ JobInv /\ ReleaseInv /\ VectorTypes
    BY ReadParts DEF ReadTypes
  <1>1. DvsStay
    BY SameDvs
  <1>2. ReadTypes'
    BY DEF ReadTypes
  <1>3. KnownInv' /\ PartsApart'
    BY <1>0, KnownServed
  <1>4. JobInv'
    <2>1. SameReader(Client)
      BY DEF Procs
    <2>. QED
      BY <1>0, <2>1 DEF JobInv, SameReader, SameRange
  <1>5. ReleaseInv'
    BY <1>0, <1>1, ReleaseKept
  <1>6. ASSUME NEW r \in Procs PROVE ReaderInv(r)'
    <2>1. ReaderInv(r) /\ SameReader(r)
      BY ReadParts
    <2>2. Active(r) => reader[r].vec \notin released'
      BY <2>1 DEF ReaderInv
    <2>. QED
      BY <1>1, <2>1, <2>2, ReaderKept
  <1>7. \A r \in Procs, p \in Ranks : \E f : NoNewAsk(r, p, f)
    BY KeptAsks
  <1>8. \A r \in Procs, p \in Ranks : Asking(r, p)' => Asking(r, p)
    BY <1>7, NoNewAsking
  <1>. QED
    BY <1>1, <1>2, <1>3, <1>4, <1>5, <1>6, <1>7, <1>8

\* Those of a step that answers nobody: questions wait on, and so do their answers.
LEMMA ServedNobody ==
    ASSUME ReadInv, DvsStay, ComingStays, answer' = answer, pending' = pending, \A r \in Procs : SameReader(r),
           \A r \in Procs, p \in Ranks : (\E f : NoNewAsk(r, p, f)) /\ (Asking(r, p)' => Asking(r, p)),
           \A r \in Procs, p \in Ranks : Active(r) /\ p # r => NotYet(r, p)' \subseteq NotYet(r, p)
    PROVE  ListedInv' /\ \A r \in Procs, p \in Ranks : AskInv(r, p)' /\ CountInv(r, p)'
  <1>0. ReadTypes /\ KnownInv /\ ListedInv /\ \A r \in Procs : ReaderInv(r)
    BY ReadParts
  <1>1. \A r \in Procs : SameRange(r) /\ reader'[r].asked = reader[r].asked
    BY DEF SameReader
  <1>2. ListedInv'
    BY <1>0, <1>1, ListedKept
  <1>3. ASSUME NEW r \in Procs, NEW p \in Ranks
        PROVE  AskInv(r, p)' /\ CountInv(r, p)'
    <2>0. AskInv(r, p) /\ CountInv(r, p) /\ ReaderInv(r)
      BY ReadParts
    <2>1. PICK f : NoNewAsk(r, p, f)
      OBVIOUS
    <2>2. /\ SameRange(r) /\ reader'[r].asked[p] = reader[r].asked[p] /\ answer'[p][r] = answer[p][r]
          /\ Active(r) /\ p # r => NotYet(r, p)' \subseteq NotYet(r, p)
      BY <1>1
    <2>3. AskInv(r, p)'
      BY <2>0, <2>1, <2>2, AskKept
    <2>4. CountInv(r, p)'
      BY <1>0, <2>0, <2>2, CountKept
    <2>. QED
      BY <2>3, <2>4
  <1>. QED
    BY <1>2, <1>3

LEMMA HandleReleaseReads ==
    ASSUME KeyInv, ReadInv, NEW c \in Procs, NEW p \in Ranks, HandleRelease(c, p)
    PROVE  ReadInv'
  <1>0. /\ ReadTypes /\ ReaderTypes /\ AnswerTypes /\ VectorTypes /\ KnownInv /\ PartsApart /\ CheckInv /\ ReleaseInv
        /\ KeyTypes /\ SentInv
    BY ReadParts DEF ReadTypes, KeyInv
  <1>. DEFINE key == mgmt[c][p][1].resid
  <1>1. /\ mgmt[c][p] # << >> /\ mgmt' = Received(c, p) /\ checking[p] = {} /\ Head(mgmt[c][p]).type = "RELEASE"
        /\ store' = [store EXCEPT ![p] = RemovePart(store[p], Head(mgmt[c][p]).resid)]
        /\ UNCHANGED <<reply, answer, pending, checking, nextKey, localKey, dvs, origin, source, job, made, reader,
                       released>>
    BY <1>0 DEF HandleRelease, Handles, program, KeyTypes
  <1>2. 1 \in 1..Len(mgmt[c][p]) /\ Head(mgmt[c][p]) = mgmt[c][p][1]
    BY <1>0, <1>1, HeadSent
  <1>3. PICK v \in released : \E k \in 1..Len(dvs[v]) : dvs[v][k].pid = p /\ dvs[v][k].resid = key
    BY <1>0, <1>1, <1>2, ReleaseOne
  <1>4. PICK k \in 1..Len(dvs[v]) : dvs[v][k].pid = p /\ dvs[v][k].resid = key
    BY <1>3
  <1>5. v \in Vectors
    BY <1>0 DEF VectorTypes
  <1>6. /\ DOMAIN store' = Ranks /\ DOMAIN store'[p] = DOMAIN store[p] \ {key}
        /\ \A q \in Ranks \ {p} : store'[q] = store[q]
    <2>1. DOMAIN RemovePart(store[p], key) = DOMAIN store[p] \ {key}
      BY DEF RemovePart, Restrict
    <2>2. store' = [store EXCEPT ![p] = RemovePart(store[p], key)] /\ DOMAIN store = Ranks
      BY <1>0, <1>1, <1>2 DEF KeyTypes
    <2>. HIDE DEF key
    <2>. QED
      BY <2>1, <2>2
  <1>. HIDE DEF key
  <1>7. PICK at : Kept(at, "none")
    BY <1>0, <1>1, KeptReceived
  <1>8. KeysStay /\ ComingStays
    <2>1. \A q \in Ranks : \A x : Coming(q, x)' => Coming(q, x)
      BY <1>1, <1>7, ComingKept
    <2>. QED
      BY <1>0, <1>1, <2>1, SameReply DEF ComingStays
  <1>9. \A r \in Procs : SameReader(r)
    BY <1>1, SameRecord
  <1>10. /\ ReadTypes' /\ KnownInv' /\ PartsApart' /\ JobInv' /\ ReleaseInv' /\ DvsStay
         /\ \A r \in Procs : ReaderInv(r)'
         /\ \A r \in Procs, q \in Ranks : (\E f : NoNewAsk(r, q, f)) /\ (Asking(r, q)' => Asking(r, q))
    <2>1. ReaderTypes' /\ AnswerTypes' /\ VectorTypes'
      BY <1>0, <1>1 DEF ReaderTypes, ReaderOf, AnswerTypes, VectorTypes
    <2>2. \A q \in Ranks : \A x \in DOMAIN pending'[q] : Issued(q, x)'
      BY <1>0, <1>1, <1>8 DEF KnownInv, KeysStay
    <2>. QED
      BY <1>1, <1>7, <1>8, <1>9, <2>1, <2>2, Served
  \* No reader wants the part.
  <1>11. ASSUME NEW r \in Procs, Active(r), NEW i \in Wanted(r, p)
         PROVE  Vec(r)[i].resid # key
    <2>1. reader[r].vec \in Vectors /\ reader[r].vec # v
      BY <1>11, ReadParts DEF ReaderInv
    <2>2. i \in 1..Len(dvs[reader[r].vec]) /\ dvs[reader[r].vec][i].pid = p
      BY <1>0, <1>11, <2>1, WantedFacts DEF Wanted, Vec
    <2>3. PICK w \in Vectors : w = reader[r].vec
      BY <2>1
    <2>4. ~ SamePart(dvs[w][i], dvs[v][k])
      <3>1. i \in 1..Len(dvs[w]) /\ k \in 1..Len(dvs[v]) /\ w # v
        BY <2>1, <2>2, <2>3
      <3>. QED
        BY <1>0, <1>5, <3>1, Zenon DEF PartsApart
    <2>. QED
      BY <1>4, <2>2, <2>3, <2>4 DEF SamePart, Vec
  <1>12. ASSUME NEW r \in Procs, NEW q \in Ranks, Active(r)
         PROVE  NotYet(r, q)' \subseteq NotYet(r, q)
    <2>1. \A i \in Wanted(r, q) : Vec(r)[i].resid \in DOMAIN store[q] => Vec(r)[i].resid \in DOMAIN store'[q]
      <3>1. CASE q = p
        BY <1>6, <1>11, <1>12, <3>1
      <3>2. CASE q # p
        BY <1>6, <3>2
      <3>. QED
        BY <3>1, <3>2
    <2>2. \A x : x \in checking'[q] /\ Listed(r, q, x)' => x \in checking[q] /\ Listed(r, q, x)
      BY <1>1 DEF Listed
    <2>3. ReaderInv(r) /\ SameRange(r)
      BY <1>9, ReadParts DEF SameReader
    <2>. QED
      BY <1>10, <1>12, <2>1, <2>2, <2>3, NotYetKept
  <1>13. ListedInv' /\ \A r \in Procs, q \in Ranks : AskInv(r, q)' /\ CountInv(r, q)'
    BY <1>1, <1>8, <1>9, <1>10, <1>12, ServedNobody
  <1>14. CheckInv'
    <2>1. ASSUME NEW q \in Ranks PROVE checking'[q] = {} \/ \E x \in DOMAIN store'[q] : checking'[q] = {x}
      <3>1. CASE q = p
        BY <1>1, <3>1
      <3>2. CASE q # p
        BY <1>0, <1>1, <1>6, <3>2 DEF CheckInv
      <3>. QED
        BY <3>1, <3>2
    <2>. QED
      BY <2>1 DEF CheckInv
  <1>. QED
    BY <1>10, <1>13, <1>14, ReadWhole

\* A part is stored, and the workers that wait for one look again.
LEMMA HandleStoreReads ==
    ASSUME KeyInv, ReadInv, NEW c \in Procs, NEW p \in Ranks, HandleStore(c, p)
    PROVE  ReadInv'
  <1>0. /\ ReadTypes /\ ReaderTypes /\ AnswerTypes /\ VectorTypes /\ KnownInv /\ CheckInv
        /\ KeyTypes /\ SentInv /\ OnceInv
    BY ReadParts DEF ReadTypes, KeyInv
  <1>. DEFINE key == mgmt[c][p][1].resid
  <1>1. /\ mgmt[c][p] # << >> /\ mgmt' = Received(c, p) /\ checking[p] = {} /\ Head(mgmt[c][p]).type = "STORE"
        /\ store' = [store EXCEPT ![p] = StorePartMessage(store[p], Head(mgmt[c][p]).resid, Head(mgmt[c][p]).data)]
        /\ checking' = [checking EXCEPT ![p] = {Head(mgmt[c][p]).resid}] /\ reader' = Woken(p)
        /\ UNCHANGED <<reply, answer, pending, nextKey, localKey, dvs, origin, source, job, made, released>>
    BY <1>0 DEF HandleStore, Handles, program, KeyTypes
  <1>2. 1 \in 1..Len(mgmt[c][p]) /\ Head(mgmt[c][p]) = mgmt[c][p][1] /\ Storing(c, p, 1)
    BY <1>0, <1>1, HeadSent DEF Storing
  <1>3. key \notin DOMAIN store[p]
    BY <1>0, <1>2, StoringOnce
  <1>4. /\ DOMAIN store' = Ranks /\ DOMAIN store'[p] = DOMAIN store[p] \cup {key}
        /\ \A q \in Ranks \ {p} : store'[q] = store[q]
    <2>1. DOMAIN StorePartMessage(store[p], key, mgmt[c][p][1].data) = DOMAIN store[p] \cup {key}
      BY DEF StorePartMessage, WithPart
    <2>2. store' = [store EXCEPT ![p] = StorePartMessage(store[p], key, mgmt[c][p][1].data)] /\ DOMAIN store = Ranks
      BY <1>0, <1>1, <1>2 DEF KeyTypes
    <2>. HIDE DEF key
    <2>. QED
      BY <2>1, <2>2
  <1>5. DOMAIN checking' = Ranks /\ checking'[p] = {key} /\ \A q \in Ranks \ {p} : checking'[q] = checking[q]
    BY <1>0, <1>1, <1>2 DEF AnswerTypes
  <1>6. Coming(p, key)
    BY <1>2 DEF Coming
  <1>. HIDE DEF key
  <1>7. PICK at : Kept(at, "none")
    BY <1>0, <1>1, KeptReceived
  <1>8. KeysStay /\ ComingStays
    <2>1. \A q \in Ranks : \A x \in checking'[q] : Coming(q, x)
      BY <1>5, <1>6 DEF Coming
    <2>2. \A q \in Ranks : \A x : Coming(q, x)' => Coming(q, x)
      BY <1>7, <2>1, ComingFrom
    <2>. QED
      BY <1>0, <1>1, <2>2, SameReply DEF ComingStays
  <1>9. ReaderTypes' /\ \A r \in Procs : SameReader(r)
    <2>1. p \in Procs /\ p \in DOMAIN reader
      BY <1>0 DEF Procs, ReaderTypes
    <2>2. PICK z : z = IF reader[p].pc = "waiting" THEN "local" ELSE reader[p].pc
      OBVIOUS
    <2>3. PICK y : y = reader[p]
      OBVIOUS
    <2>4. /\ y = [pc |-> y.pc, vec |-> y.vec, first |-> y.first, size |-> y.size, local |-> y.local,
                  asked |-> y.asked, buf |-> y.buf]
          /\ y.vec \in Vectors \cup {None} /\ y.first \in Nat /\ y.size \in Int /\ IsSeq(y.local)
          /\ DOMAIN y.asked = Ranks /\ \A q \in Ranks : IsSeq(y.asked[q])
          /\ y.pc \in {"idle", "distributing", "local", "waiting", "receiving"}
      BY <1>0, <2>1, <2>3, ReaderFields DEF ReaderOf
    <2>5. [y EXCEPT !.pc = z] = [pc |-> z, vec |-> y.vec, first |-> y.first, size |-> y.size, local |-> y.local,
                                 asked |-> y.asked, buf |-> y.buf]
      BY <2>4
    <2>6. reader' = [reader EXCEPT ![p] = [y EXCEPT !.pc = z]]
      BY <1>1, <2>1, <2>2, <2>3 DEF Woken
    <2>7. Becomes(p, z, y.vec, y.first, y.size, y.local, y.asked, y.buf)
      BY <2>5, <2>6 DEF Becomes
    <2>8. z \in {"idle", "distributing", "local", "waiting", "receiving"}
      BY <2>2, <2>3, <2>4
    <2>9. /\ ReaderTypes' /\ \A q \in Procs \ {p} : SameReader(q)
          /\ reader'[p].pc = z /\ reader'[p].vec = y.vec /\ reader'[p].first = y.first /\ reader'[p].size = y.size
          /\ reader'[p].asked = y.asked
      BY <1>0, <2>1, <2>4, <2>7, <2>8, ReaderNow
    <2>10. SameReader(p)
      BY <2>2, <2>3, <2>9 DEF SameReader, SameRange, Active, Receiving
    <2>. QED
      BY <2>9, <2>10
  <1>10. /\ ReadTypes' /\ KnownInv' /\ PartsApart' /\ JobInv' /\ ReleaseInv' /\ DvsStay
         /\ \A r \in Procs : ReaderInv(r)'
         /\ \A r \in Procs, q \in Ranks : (\E f : NoNewAsk(r, q, f)) /\ (Asking(r, q)' => Asking(r, q))
    <2>1. AnswerTypes' /\ VectorTypes'
      BY <1>0, <1>1, <1>5 DEF AnswerTypes, VectorTypes
    <2>2. \A q \in Ranks : \A x \in DOMAIN pending'[q] : Issued(q, x)'
      BY <1>0, <1>1, <1>8 DEF KnownInv, KeysStay
    <2>. QED
      BY <1>1, <1>7, <1>8, <1>9, <2>1, <2>2, Served
  <1>11. ASSUME NEW r \in Procs, NEW q \in Ranks, Active(r)
         PROVE  NotYet(r, q)' \subseteq NotYet(r, q)
    <2>1. \A i \in Wanted(r, q) : Vec(r)[i].resid \in DOMAIN store[q] => Vec(r)[i].resid \in DOMAIN store'[q]
      BY <1>4
    <2>2. ASSUME NEW x, x \in checking'[q], Listed(r, q, x)'
          PROVE  x \notin DOMAIN store[q] \/ (x \in checking[q] /\ Listed(r, q, x))
      <3>1. Listed(r, q, x)
        BY <1>1, <2>2 DEF Listed
      <3>. QED
        BY <1>3, <1>5, <2>2, <3>1
    <2>3. ReaderInv(r) /\ SameRange(r)
      BY <1>9, ReadParts DEF SameReader
    <2>. QED
      BY <1>10, <1>11, <2>1, <2>2, <2>3, NotYetKept
  <1>12. ListedInv' /\ \A r \in Procs, q \in Ranks : AskInv(r, q)' /\ CountInv(r, q)'
    BY <1>1, <1>8, <1>9, <1>10, <1>11, ServedNobody
  <1>13. CheckInv'
    <2>1. ASSUME NEW q \in Ranks PROVE checking'[q] = {} \/ \E x \in DOMAIN store'[q] : checking'[q] = {x}
      <3>1. CASE q = p
        BY <1>4, <1>5, <3>1
      <3>2. CASE q # p
        BY <1>0, <1>4, <1>5, <3>2 DEF CheckInv
      <3>. QED
        BY <3>1, <3>2
    <2>. QED
      BY <2>1 DEF CheckInv
  <1>. QED
    BY <1>10, <1>12, <1>13, ReadWhole

\* A head gives keys that no one knows.
LEMMA HandleDistributeReads ==
    ASSUME SameHead, KeyInv, ReadInv, NEW c \in Procs, NEW p \in Ranks, HandleDistribute(c, p)
    PROVE  ReadInv'
  <1>0. /\ ReadTypes /\ ReaderTypes /\ AnswerTypes /\ VectorTypes /\ KnownInv /\ CheckInv
        /\ KeyTypes /\ SentInv
    BY ReadParts DEF ReadTypes, KeyInv
  <1>. DEFINE g == Head(mgmt[c][p]).group
              dv == BlockParts(N, 1, g, LocalKeys(p, Len(g)))
              old == reply[p]
  <1>1. /\ mgmt[c][p] # << >> /\ Head(mgmt[c][p]).type = "DISTRIBUTE" /\ mgmt' = Received(c, p)
        /\ reply' = [reply EXCEPT ![p] = Append(old, dv)]
        /\ localKey' = [localKey EXCEPT ![p] = localKey[p] - Len(g)]
        /\ UNCHANGED <<answer, store, pending, checking, nextKey, dvs, origin, source, job, made, reader, released>>
    BY <1>0 DEF HandleDistribute, Handles, servers, KeyTypes
  <1>2. g \in Groups /\ g[1] = p
    BY <1>0, <1>1, HeadSent DEF MayBeSent
  <1>3. Len(g) \in Nat \ {0} /\ \A i \in 1..Len(g) : g[i] \in Ranks /\ GivenBy(g[i], p)
    <2>1. Len(g) \in Nat /\ 1 \in 1..Len(g) /\ DOMAIN g = 1..Len(g) /\ \A i \in 1..Len(g) : g[i] \in Ranks
      BY <1>2, GroupProcs
    <2>2. \A i \in 1..Len(g) : GivenBy(g[i], p)
      BY <1>2, <2>1, Zenon DEF GivenBy
    <2>. HIDE DEF g
    <2>. QED
      BY <2>1, <2>2
  <1>. HIDE DEF g
  <1>4. localKey[p] \in Int /\ localKey[p] <= -1
    BY <1>0 DEF KeyTypes
  <1>5. /\ IsSeq(dv) /\ Len(dv) = Len(g)
        /\ \A k \in 1..Len(dv) : dv[k].pid = g[k] /\ dv[k].resid = localKey[p] - k + 1
    BY <1>2, <1>4, BlockPartsKeys
  <1>6. dv \in Seq(Part)
    <2>1. ASSUME NEW k \in 1..Len(g)
          PROVE  [pid |-> g[k], resid |-> LocalKeys(p, Len(g))[k],
                  size |-> PartSize(N, k - 1, Len(g)) * 1, offset |-> Beg(N, k - 1, Len(g)) * 1] \in Part
      <3>1. N \in Int /\ k - 1 \in Int /\ g[k] \in Int
        <4>1. g[k] \in Ranks /\ Len(g) \in Nat
          BY <1>3
        <4>2. g[k] \in Nat
          BY <4>1, ClientAssumption, Zenon
        <4>. QED
          BY <4>1, <4>2, BoundsAssumption
      <3>2. PartSize(N, k - 1, Len(g)) \in Nat /\ Beg(N, k - 1, Len(g)) \in Nat
        BY <1>3, <3>1, RangeTypes
      <3>3. LocalKeys(p, Len(g))[k] \in Int
        BY <1>3, <1>4 DEF LocalKeys
      <3>4. PartSize(N, k - 1, Len(g)) * 1 \in Nat /\ Beg(N, k - 1, Len(g)) * 1 \in Nat
        BY <3>2
      <3>. QED
        BY <3>1, <3>3, <3>4 DEF Part
    <2>2. dv \in [1..Len(g) -> Part]
      BY <2>1 DEF BlockParts
    <2>3. Len(g) \in Nat
      BY <1>3
    <2>. HIDE DEF dv
    <2>. QED
      BY <2>2, <2>3
  <1>. HIDE DEF dv
  <1>7. IsSeq(old)
    BY <1>0 DEF KeyTypes
  <1>8. /\ Len(old) \in Nat /\ Len(Append(old, dv)) = Len(old) + 1
        /\ \A i \in 1..Len(old) : Append(old, dv)[i] = old[i]
        /\ Append(old, dv)[Len(old) + 1] = dv
    BY <1>7, AppendOf DEF IsSeq
  <1>9. reply'[p] = Append(old, dv) /\ \A h \in Ranks : h # p => reply'[h] = reply[h]
    BY <1>0, <1>1 DEF KeyTypes
  <1>. HIDE DEF old
  <1>10. ASSUME NEW h \in Ranks, NEW i \in 1..Len(reply'[h])
         PROVE  \/ i \in 1..Len(reply[h]) /\ reply'[h][i] = reply[h][i]
                \/ reply'[h][i] = dv
    <2>1. CASE h = p
      BY <1>8, <1>9, <2>1 DEF old
    <2>2. CASE h # p
      BY <1>9, <2>2
    <2>. QED
      BY <2>1, <2>2
  <1>11. CountersGrow
    <2>1. localKey' \in [Ranks -> Int] /\ \A h \in Ranks : localKey'[h] <= localKey[h]
      BY <1>0, <1>1, <1>3, <1>4 DEF KeyTypes
    <2>. QED
      BY <1>0, <1>1, <2>1 DEF CountersGrow, KeyTypes
  \* A key that is issued is above those of the head.
  <1>12. ASSUME NEW q \in Ranks, NEW key, Issued(q, key), NEW k \in 1..Len(dv), dv[k].pid = q
         PROVE  dv[k].resid # key
    <2>1. GivenBy(q, p) /\ key \in Int /\ (Given(q, key) \/ Taken(q, key)) /\ k \in Nat /\ k >= 1
      BY <1>3, <1>5, <1>12 DEF Issued
    <2>2. localKey[p] < key
      BY <1>0, <2>1, GivenKeys
    <2>3. dv[k].resid = localKey[p] - k + 1
      BY <1>5
    <2>. QED
      BY <1>4, <2>1, <2>2, <2>3
  <1>13. KeysStay
    <2>. SUFFICES ASSUME NEW q \in Ranks, NEW key, Issued(q, key)
                  PROVE  Issued(q, key)'
      BY DEF KeysStay
    <2>1. key \in Int /\ (Given(q, key)' \/ Taken(q, key)')
      BY <1>0, <1>11, KeysStayGiven DEF Issued
    <2>2. ASSUME NEW h \in Ranks, NEW i \in 1..Len(reply'[h]), NEW k \in 1..Len(reply'[h][i]),
                 reply'[h][i][k].pid = q, reply'[h][i][k].resid = key
          PROVE  FALSE
      <3>1. CASE i \in 1..Len(reply[h]) /\ reply'[h][i] = reply[h][i]
        <4>1. InReply(q, key)
          BY <2>2, <3>1 DEF InReply
        <4>. QED
          BY <4>1 DEF Issued
      <3>2. CASE reply'[h][i] = dv
        BY <1>12, <2>2, <3>2
      <3>. QED
        BY <1>10, <3>1, <3>2
    <2>3. ~ InReply(q, key)'
      BY <2>2, Zenon DEF InReply
    <2>. QED
      BY <2>1, <2>3 DEF Issued
  <1>14. PICK at : Kept(at, "none")
    BY <1>0, <1>1, KeptReceived
  <1>15. ComingStays
    <2>1. \A q \in Ranks : \A x : Coming(q, x)' => Coming(q, x)
      BY <1>1, <1>14, ComingKept
    <2>. QED
      BY <2>1 DEF ComingStays
  <1>16. \A r \in Procs : SameReader(r)
    BY <1>1, SameRecord
  <1>17. /\ ReadTypes' /\ KnownInv' /\ PartsApart' /\ JobInv' /\ ReleaseInv' /\ DvsStay
         /\ \A r \in Procs : ReaderInv(r)'
         /\ \A r \in Procs, q \in Ranks : (\E f : NoNewAsk(r, q, f)) /\ (Asking(r, q)' => Asking(r, q))
    <2>1. ReaderTypes' /\ AnswerTypes'
      BY <1>0, <1>1 DEF ReaderTypes, ReaderOf, AnswerTypes
    <2>2. \A h \in Ranks : \A i \in 1..Len(reply'[h]) : reply'[h][i] \in Seq(Part)
      BY <1>0, <1>6, <1>10 DEF VectorTypes
    <2>3. VectorTypes'
      BY <1>0, <1>1, <2>2 DEF VectorTypes
    <2>4. \A q \in Ranks : \A x \in DOMAIN pending'[q] : Issued(q, x)'
      BY <1>0, <1>1, <1>13 DEF KnownInv, KeysStay
    <2>. QED
      BY <1>1, <1>13, <1>14, <1>16, <2>1, <2>3, <2>4, Served
  <1>18. ASSUME NEW r \in Procs, NEW q \in Ranks, Active(r)
         PROVE  NotYet(r, q)' \subseteq NotYet(r, q)
    <2>1. \A x : x \in checking'[q] /\ Listed(r, q, x)' => x \in checking[q] /\ Listed(r, q, x)
      BY <1>1 DEF Listed
    <2>2. ReaderInv(r) /\ SameRange(r)
      BY <1>16, ReadParts DEF SameReader
    <2>. QED
      BY <1>1, <1>17, <1>18, <2>1, <2>2, NotYetKept
  <1>19. ListedInv' /\ \A r \in Procs, q \in Ranks : AskInv(r, q)' /\ CountInv(r, q)'
    BY <1>1, <1>15, <1>16, <1>17, <1>18, ServedNobody
  <1>20. CheckInv'
    BY <1>0, <1>1 DEF CheckInv
  <1>. QED
    BY <1>17, <1>19, <1>20, ReadWhole

\* The pieces in items that are sent to r.
LEMMA SentToOnce ==
    ASSUME NEW p, NEW r, NEW items, IsSeq(items)
    PROVE  /\ IsSeq(SentTo(p, r, items))
           /\ (\A i \in 1..Len(items) : items[i].to # r) => Len(SentTo(p, r, items)) = 0
           /\ (\A i, j \in 1..Len(items) : items[i].to = r /\ items[j].to = r => i = j) =>
                Len(SentTo(p, r, items)) \in 0..1
  <1>. DEFINE I == {i \in DOMAIN items : items[i].to = r}
              mine == Chosen(items, I)
  <1>1. Len(items) \in Nat /\ DOMAIN items = 1..Len(items)
    BY DEF IsSeq
  <1>2. I \subseteq 1..Len(items)
    BY <1>1
  <1>3. IsFiniteSet(I)
    <2>1. IsFiniteSet(1..Len(items))
      BY <1>1, FS_Interval
    <2>. HIDE DEF I
    <2>. QED
      BY <1>2, <2>1, FS_Subset
  <1>4. Cardinality(I) \in Nat /\ Len(mine) = Cardinality(I)
    <2>. HIDE DEF I
    <2>. QED
      BY <1>1, <1>2, ChosenFacts
  <1>5. IsSeq(SentTo(p, r, items)) /\ Len(SentTo(p, r, items)) = Cardinality(I)
    <2>1. SentTo(p, r, items) = [i \in 1..Len(mine) |-> mine[i].data]
      BY DEF SentTo
    <2>. HIDE DEF I, mine
    <2>. QED
      BY <1>4, <2>1 DEF IsSeq
  <1>6. ASSUME \A i \in 1..Len(items) : items[i].to # r PROVE Cardinality(I) = 0
    <2>1. I = {}
      BY <1>1, <1>6
    <2>. QED
      BY <2>1, FS_EmptySet
  <1>7. ASSUME \A i, j \in 1..Len(items) : items[i].to = r /\ items[j].to = r => i = j
        PROVE  Cardinality(I) \in 0..1
    <2>1. CASE I = {}
      BY <2>1, FS_EmptySet
    <2>2. CASE I # {}
      <3>1. PICK i : i \in I
        BY <2>2
      <3>2. \A j \in I : j = i
        BY <1>1, <1>7, <3>1
      <3>. HIDE DEF I
      <3>3. I = {i}
        BY <3>1, <3>2
      <3>4. Cardinality(I) = 1
        BY <3>3, FS_Singleton, Zenon
      <3>. QED
        BY <3>4
    <2>. QED
      BY <2>1, <2>2
  <1>. QED
    BY <1>5, <1>6, <1>7

\* The requests that waited for a part are served once.
LEMMA CheckDvPartReads ==
    ASSUME KeyInv, ReadInv, NEW p \in Ranks, CheckDvPartRequired(p)
    PROVE  ReadInv'
  <1>0. /\ ReadTypes /\ ReaderTypes /\ AnswerTypes /\ VectorTypes /\ KnownInv /\ CheckInv /\ ListedInv /\ KeyTypes
    BY ReadParts DEF ReadTypes, KeyInv
  <1>1. PICK key \in checking[p] :
            LET waiting == PendingFor(p, key)
                data == store[p][key].data
                items == [i \in 1..Len(waiting) |-> [to |-> waiting[i].to, data |-> ReadFrom(data, waiting[i])]]
            IN  answer' = [answer EXCEPT ![p] = [r \in Procs |-> @[r] \o SentTo(p, r, items)]]
    BY Zenon DEF CheckDvPartRequired
  <1>2. /\ checking' = [checking EXCEPT ![p] = {}]
        /\ UNCHANGED <<mgmt, reply, store, pending, nextKey, localKey, dvs, origin, source, job, made, reader,
                       released>>
    BY DEF CheckDvPartRequired, program
  <1>3. key \in DOMAIN store[p] /\ checking[p] = {key} /\ Coming(p, key)
    BY <1>0 DEF CheckInv, Coming
  <1>. DEFINE waiting == PendingFor(p, key)
              items == [i \in 1..Len(waiting) |-> [to |-> waiting[i].to, data |-> ReadFrom(store[p][key].data, waiting[i])]]
              sent(r) == SentTo(p, r, items)
  <1>4. /\ IsSeq(waiting)
        /\ \A i \in 1..Len(waiting) : /\ key \in DOMAIN pending[p] /\ i \in 1..Len(pending[p][key])
                                      /\ pending[p][key][i] = waiting[i]
        /\ key \in DOMAIN pending[p] => waiting = pending[p][key]
    BY <1>0, IdleRecord DEF PendingFor, AnswerTypes
  <1>5. IsSeq(items) /\ Len(items) = Len(waiting) /\ \A i \in 1..Len(waiting) : items[i].to = waiting[i].to
    <2>. HIDE DEF waiting
    <2>. QED
      BY <1>4 DEF IsSeq
  <1>6. answer' = [answer EXCEPT ![p] = [r \in Procs |-> answer[p][r] \o sent(r)]]
    BY <1>0, <1>1 DEF AnswerTypes
  <1>. HIDE DEF items, waiting
  <1>7. \A r : /\ IsSeq(sent(r))
               /\ (\A i \in 1..Len(items) : items[i].to # r) => Len(sent(r)) = 0
               /\ (\A i, j \in 1..Len(items) : items[i].to = r /\ items[j].to = r => i = j) => Len(sent(r)) \in 0..1
    BY <1>5, SentToOnce
  <1>. HIDE DEF sent
  <1>8. /\ DOMAIN answer' = Ranks /\ \A q \in Ranks : DOMAIN answer'[q] = Procs
        /\ \A r \in Procs : answer'[p][r] = answer[p][r] \o sent(r)
        /\ \A q \in Ranks \ {p}, r \in Procs : answer'[q][r] = answer[q][r]
    BY <1>0, <1>6 DEF AnswerTypes
  <1>9. \A r \in Procs : IsSeq(answer'[p][r]) /\ Len(answer'[p][r]) = Len(answer[p][r]) + Len(sent(r))
    <2>1. ASSUME NEW r \in Procs PROVE IsSeq(answer'[p][r]) /\ Len(answer'[p][r]) = Len(answer[p][r]) + Len(sent(r))
      <3>1. PICK s, t : s = answer[p][r] /\ t = sent(r)
        OBVIOUS
      <3>2. IsSeq(s) /\ IsSeq(t)
        BY <1>0, <1>7, <3>1 DEF AnswerTypes
      <3>3. IsSeq(s \o t) /\ Len(s \o t) = Len(s) + Len(t)
        BY ONLY <3>2, ConcatOf DEF IsSeq
      <3>. QED
        BY <1>8, <3>1, <3>3
    <2>. QED
      BY <2>1, Zenon
  \* One piece at most is sent to a reader, and it is one that was not yet sent.
  <1>10. ASSUME NEW r \in Procs, ~ Listed(r, p, key)
         PROVE  answer'[p][r] = answer[p][r]
    <2>1. \A i \in 1..Len(items) : items[i].to # r
      BY <1>4, <1>5, <1>10 DEF Listed
    <2>2. Len(sent(r)) = 0
      BY <1>7, <2>1
    <2>3. PICK s, t : s = answer[p][r] /\ t = sent(r)
      OBVIOUS
    <2>4. IsSeq(s) /\ IsSeq(t) /\ Len(t) = 0
      BY <1>0, <1>7, <2>2, <2>3 DEF AnswerTypes
    <2>5. /\ IsSeq(s \o t) /\ Len(s \o t) = Len(s) /\ \A i \in 1..Len(s) : (s \o t)[i] = s[i]
      BY ONLY <2>4, ConcatOf DEF IsSeq
    <2>6. s \o t = s
      BY ONLY <2>4, <2>5 DEF IsSeq
    <2>. QED
      BY <1>8, <2>3, <2>6
  <1>11. ASSUME NEW r \in Procs, Listed(r, p, key)
         PROVE  /\ r # p /\ Receiving(r) /\ Active(r) /\ ~ Asking(r, p) /\ Len(answer'[p][r]) <= Len(answer[p][r]) + 1
                /\ \E i \in Wanted(r, p) : Vec(r)[i].resid = key
    <2>0. key \in DOMAIN pending[p] /\ waiting = pending[p][key]
      BY <1>4, <1>11 DEF Listed
    <2>1. PICK k \in 1..Len(pending[p][key]) : pending[p][key][k].to = r
      BY <1>11 DEF Listed
    <2>2. ListedOnce(p, key, k)
      BY <1>0, <1>3, <2>0, ListedOne
    <2>3. /\ r # p /\ Receiving(r) /\ ~ Asking(r, p) /\ \E i \in Wanted(r, p) : Vec(r)[i].resid = key
          /\ \A j \in 1..Len(pending[p][key]) : pending[p][key][j].to = r => j = k
      BY <2>1, <2>2 DEF ListedOnce
    <2>4. ASSUME NEW i \in 1..Len(items), NEW j \in 1..Len(items), items[i].to = r, items[j].to = r
          PROVE  i = j
      <3>1. i = k /\ j = k
        BY <1>5, <2>0, <2>3, <2>4
      <3>. QED
        BY <3>1
    <2>5. Len(sent(r)) \in 0..1
      BY <1>7, <2>4, Zenon
    <2>6. Len(answer[p][r]) \in Nat
      BY <1>0 DEF AnswerTypes, IsSeq
    <2>7. Len(answer'[p][r]) <= Len(answer[p][r]) + 1
      <3>1. PICK m, n, l : m = Len(answer'[p][r]) /\ n = Len(answer[p][r]) /\ l = Len(sent(r))
        OBVIOUS
      <3>2. m = n + l /\ l \in 0..1 /\ n \in Nat
        BY <1>9, <2>5, <2>6, <3>1, Zenon
      <3>3. m <= n + 1
        BY ONLY <3>2
      <3>. QED
        BY <3>1, <3>3
    <2>. QED
      BY <2>3, <2>7, ReceivingActive
  <1>12. /\ DOMAIN checking' = Ranks /\ checking'[p] = {} /\ \A q \in Ranks \ {p} : checking'[q] = checking[q]
    BY <1>0, <1>2 DEF AnswerTypes
  <1>13. PICK at : Kept(at, "none")
    BY <1>2, KeptSame
  <1>14. KeysStay /\ ComingStays
    <2>1. \A q \in Ranks : checking'[q] \subseteq checking[q]
      BY <1>12
    <2>2. \A q \in Ranks : \A x : Coming(q, x)' => Coming(q, x)
      BY <1>13, <2>1, ComingKept
    <2>. QED
      BY <1>0, <1>2, <2>2, SameReply DEF ComingStays
  <1>15. \A r \in Procs : SameReader(r) /\ SameRange(r) /\ reader'[r].asked = reader[r].asked
    BY <1>2, SameRecord DEF SameReader
  <1>16. /\ ReadTypes' /\ KnownInv' /\ PartsApart' /\ JobInv' /\ ReleaseInv' /\ DvsStay
         /\ \A r \in Procs : ReaderInv(r)'
         /\ \A r \in Procs, q \in Ranks : (\E f : NoNewAsk(r, q, f)) /\ (Asking(r, q)' => Asking(r, q))
    <2>1. ReaderTypes' /\ VectorTypes'
      BY <1>0, <1>2 DEF ReaderTypes, ReaderOf, VectorTypes
    <2>2. AnswerTypes'
      <3>1. \A q \in Ranks, r \in Procs : IsSeq(answer'[q][r])
        BY <1>0, <1>8, <1>9 DEF AnswerTypes
      <3>. QED
        BY <1>0, <1>2, <1>8, <1>12, <3>1 DEF AnswerTypes
    <2>3. \A q \in Ranks : \A x \in DOMAIN pending'[q] : Issued(q, x)'
      BY <1>0, <1>2, <1>14 DEF KnownInv, KeysStay
    <2>. QED
      BY <1>2, <1>13, <1>14, <1>15, <2>1, <2>2, <2>3, Served
  <1>17. ListedInv'
    <2>1. \A r \in Procs : ReaderInv(r)
      BY ReadParts
    <2>. QED
      BY <1>0, <1>2, <1>14, <1>15, <1>16, <2>1, ListedKept
  <1>18. CheckInv'
    BY <1>0, <1>2, <1>12 DEF CheckInv
  <1>19. ASSUME NEW r \in Procs, NEW q \in Ranks
         PROVE  AskInv(r, q)'
    <2>1. AskInv(r, q) /\ ReaderInv(r)
      BY ReadParts
    <2>2. PICK f : NoNewAsk(r, q, f)
      BY <1>16
    <2>3. CASE q = p /\ Listed(r, p, key)
      <3>1. ~ Asking(r, p)'
        BY <1>11, <1>16, <2>3
      <3>2. \A i \in 1..Len(mgmt'[r][q]) : ~ Asks(r, q, i)'
        BY <2>3, <3>1 DEF Asking
      <3>. QED
        BY <3>2, Zenon DEF AskInv
    <2>4. CASE ~ (q = p /\ Listed(r, p, key))
      <3>1. answer'[q][r] = answer[q][r]
        BY <1>8, <1>10, <2>4
      <3>. QED
        BY <1>15, <1>16, <2>1, <2>2, <3>1, AskKept
    <2>. QED
      BY <2>3, <2>4
  <1>20. ASSUME NEW r \in Procs, NEW q \in Ranks, Active(r)
         PROVE  NotYet(r, q)' \subseteq NotYet(r, q)
    <2>1. \A x : x \in checking'[q] /\ Listed(r, q, x)' => x \in checking[q] /\ Listed(r, q, x)
      BY <1>2, <1>12 DEF Listed
    <2>2. ReaderInv(r) /\ SameRange(r)
      BY <1>15, ReadParts
    <2>. QED
      BY <1>2, <1>16, <1>20, <2>1, <2>2, NotYetKept
  <1>21. ASSUME NEW r \in Procs, NEW q \in Ranks
         PROVE  CountInv(r, q)'
    <2>0. CountInv(r, q) /\ ReaderInv(r)
      BY ReadParts
    <2>1. CASE ~ (q = p /\ Listed(r, p, key))
      <3>1. answer'[q][r] = answer[q][r]
        BY <1>8, <1>10, <2>1
      <3>. QED
        BY <1>0, <1>15, <1>16, <1>20, <2>0, <3>1, CountKept
    <2>2. CASE q = p /\ Listed(r, p, key)
      <3>1. /\ r # p /\ Receiving(r) /\ Active(r) /\ ~ Asking(r, p) /\ Len(answer'[p][r]) <= Len(answer[p][r]) + 1
        BY <1>11, <2>2
      <3>2. PICK i \in Wanted(r, p) : Vec(r)[i].resid = key
        BY <1>11, <2>2
      <3>3. Vec(r)' = Vec(r)
        BY <1>15, <1>16, <2>0, <3>1, SameWants
      <3>4. i \in NotYet(r, p) /\ i \notin NotYet(r, p)'
        <4>1. i \in NotYet(r, p)
          BY <1>3, <2>2, <3>2 DEF NotYet
        <4>2. Vec(r)'[i].resid = key /\ key \in DOMAIN store'[p] /\ key \notin checking'[p] /\ ~ Asking(r, p)'
          BY <1>2, <1>3, <1>12, <1>16, <3>1, <3>2, <3>3
        <4>3. i \notin NotYet(r, p)'
          BY <4>2 DEF NotYet
        <4>. QED
          BY <4>1, <4>3
      <3>5. NotYet(r, p)' \subseteq NotYet(r, p)
        BY <1>20, <3>1
      <3>6. IsFiniteSet(NotYet(r, p)) /\ Cardinality(NotYet(r, p)) \in Nat
        BY <1>0, <2>0, <3>1, WantedFacts DEF ReaderInv
      <3>7. Cardinality(NotYet(r, p)') \in Nat /\ Cardinality(NotYet(r, p)') <= Cardinality(NotYet(r, p)) - 1
        <4>. DEFINE S == NotYet(r, p)
                    T == NotYet(r, p)'
        <4>. HIDE DEF S, T
        <4>1. IsFiniteSet(S) /\ T \subseteq S \ {i} /\ i \in S
          BY <3>4, <3>5, <3>6 DEF S, T
        <4>2. IsFiniteSet(S \ {i}) /\ Cardinality(S \ {i}) = Cardinality(S) - 1
          BY <4>1, FS_RemoveElement
        <4>3. IsFiniteSet(T) /\ Cardinality(T) <= Cardinality(S \ {i}) /\ Cardinality(T) \in Nat
          BY <4>1, <4>2, FS_Subset, FS_CardinalityType
        <4>. QED
          BY <4>2, <4>3 DEF S, T
      <3>8. Len(answer[p][r]) + Cardinality(NotYet(r, p)) <= Len(reader[r].asked[p])
        BY <2>0, <2>2, <3>1 DEF CountInv
      <3>9. Len(answer'[p][r]) + Cardinality(NotYet(r, p)') <= Len(reader'[r].asked[p])
        <4>. DEFINE s == Cardinality(NotYet(r, p))
                    t == Cardinality(NotYet(r, p)')
                    l == Len(answer[p][r])
                    m == Len(answer'[p][r])
                    k == Len(reader[r].asked[p])
        <4>1. s \in Nat /\ t \in Nat /\ t <= s - 1 /\ l \in Nat /\ m \in Nat /\ k \in Nat /\ m <= l + 1 /\ l + s <= k
          <5>1. l \in Nat /\ m \in Nat /\ k \in Nat
            BY <1>0, <1>9 DEF AnswerTypes, ReaderTypes, IsSeq
          <5>. QED
            BY <3>1, <3>6, <3>7, <3>8, <5>1
        <4>2. Len(reader'[r].asked[p]) = k
          BY <1>15
        <4>. HIDE DEF s, t, l, m, k
        <4>3. m + t <= k
          BY <4>1
        <4>. QED
          BY <4>2, <4>3 DEF m, t
      <3>10. Active(r)' /\ Receiving(r)'
        BY <1>15, <3>1 DEF SameRange
      <3>. QED
        BY <2>2, <3>1, <3>9, <3>10 DEF CountInv
    <2>. QED
      BY <2>1, <2>2
  <1>. QED
    BY <1>16, <1>17, <1>18, <1>19, <1>21, ReadWhole

\* What a reader asks of process p names the parts it wants, each once.
LEMMA AskedParts ==
    ASSUME ReadInv, NEW r \in Procs, NEW p \in Ranks, Active(r)
    PROVE  /\ Cardinality(Wanted(r, p)) \in Nat
           /\ IsSeq(PiecesFrom(r, p)) /\ Len(PiecesFrom(r, p)) = Cardinality(Wanted(r, p))
           /\ \A k \in 1..Cardinality(Wanted(r, p)) :
                 /\ Nth(Wanted(r, p), k) \in Wanted(r, p)
                 /\ PiecesFrom(r, p)[k].resid = Vec(r)[Nth(Wanted(r, p), k)].resid
           /\ \A k, l \in 1..Cardinality(Wanted(r, p)) :
                 PiecesFrom(r, p)[k].resid = PiecesFrom(r, p)[l].resid => k = l
  <1>0. ReadTypes /\ PartsApart /\ reader[r].vec \in Vectors
    BY ReadParts DEF ReaderInv
  <1>1. Len(Vec(r)) \in Nat /\ Wanted(r, p) \subseteq 1..Len(Vec(r))
    BY <1>0, WantedFacts
  <1>2. PICK W, dv, parts : W = Wanted(r, p) /\ dv = Vec(r) /\ parts = PiecesFrom(r, p)
    OBVIOUS
  <1>3. PICK o, n : o = reader[r].first /\ n = reader[r].size
    OBVIOUS
  <1>4. parts = PiecesAt(dv, W, o, n) /\ Len(dv) \in Nat /\ W \subseteq 1..Len(dv)
    BY <1>1, <1>2, <1>3 DEF PiecesFrom
  <1>5. /\ Cardinality(W) \in Nat /\ IsSeq(parts) /\ Len(parts) = Cardinality(W)
        /\ \A k \in 1..Cardinality(W) : Nth(W, k) \in W /\ parts[k] = Piece(dv[Nth(W, k)], o, o + n)
        /\ \A k, l \in 1..Cardinality(W) : k # l => Nth(W, k) # Nth(W, l)
    <2>0. Len(dv) \in Nat /\ W \subseteq 1..Len(dv) /\ parts = PiecesAt(dv, W, o, n)
      BY <1>4
    <2>1. Cardinality(W) \in Nat /\ IsSeq(parts) /\ Len(parts) = Cardinality(W)
      BY <2>0, PiecesAtFacts
    <2>2. \A k \in 1..Cardinality(W) : Nth(W, k) \in W /\ parts[k] = Piece(dv[Nth(W, k)], o, o + n)
      <3>1. PICK s : s = Chosen(dv, W)
        OBVIOUS
      <3>2. /\ Len(s) = Cardinality(W)
            /\ \A k \in 1..Cardinality(W) : Nth(W, k) \in W /\ s[k] = dv[Nth(W, k)]
        BY <2>0, <3>1, ChosenFacts
      <3>3. parts = [k \in 1..Len(s) |-> Piece(s[k], o, o + n)]
        BY <2>0, <3>1 DEF PiecesAt
      <3>. QED
        BY <3>2, <3>3
    <2>3. \A k, l \in 1..Cardinality(W) : k # l => Nth(W, k) # Nth(W, l)
      BY <2>0, ChosenFacts
    <2>. QED
      BY <2>1, <2>2, <2>3
  <1>6. \A k \in 1..Cardinality(W) : parts[k].resid = dv[Nth(W, k)].resid
    <2>1. \A x, e : Piece(x, o, e).resid = x.resid
      BY DEF Piece
    <2>. QED
      BY <1>5, <2>1
  <1>7. ASSUME NEW k \in 1..Cardinality(W), NEW l \in 1..Cardinality(W), parts[k].resid = parts[l].resid
        PROVE  k = l
    <2>1. PICK i \in W, j \in W : i = Nth(W, k) /\ j = Nth(W, l)
      BY <1>5
    <2>2. dv[i].resid = dv[j].resid
      BY <1>6, <1>7, <2>1
    <2>3. dv[i].pid = p /\ dv[j].pid = p /\ i \in 1..Len(dv) /\ j \in 1..Len(dv)
      BY <1>2, <1>4 DEF Wanted
    <2>4. PICK v \in Vectors : v = reader[r].vec
      BY <1>0
    <2>5. dv = dvs[v]
      BY <1>2, <2>4 DEF Vec
    <2>6. SamePart(dvs[v][i], dvs[v][j]) /\ i \in 1..Len(dvs[v]) /\ j \in 1..Len(dvs[v])
      BY <2>2, <2>3, <2>5 DEF SamePart
    <2>7. i = j
      BY <1>0, <2>6, Zenon DEF PartsApart
    <2>. QED
      BY <1>5, <2>1, <2>7
  <1>. QED
    BY <1>2, <1>5, <1>6, <1>7

\* The pieces at the places A are those that are there, and the only ones that are sent.
AreSent(c, p, parts, A) ==
    /\ \A k \in A : parts[k].resid \in DOMAIN store[p]
    /\ IsSeq(answer'[p][c]) /\ Len(answer'[p][c]) = Cardinality(A)

\* What a question does to its sender's answers and to the requests that are listed.
LEMMA GetEffect ==
    ASSUME KeyInv, ReadInv, NEW c \in Procs, NEW p \in Ranks, HandleGet(c, p), NEW n, n = Cardinality(Wanted(c, p)),
           NEW parts, parts = PiecesFrom(c, p)
    PROVE  /\ mgmt[c][p] # << >> /\ mgmt' = Received(c, p) /\ checking[p] = {}
           /\ UNCHANGED <<reply, store, checking, nextKey, localKey, dvs, origin, source, job, made, reader, released>>
           /\ c # p /\ Receiving(c) /\ Asking(c, p) /\ ~ Asking(c, p)' /\ reader[c].asked[p] = parts
           /\ \E A : A \subseteq 1..n /\ AreSent(c, p, parts, A)
           /\ DOMAIN answer' = Ranks /\ \A q \in Ranks : DOMAIN answer'[q] = Procs
           /\ \A q \in Ranks, r \in Procs : q # p \/ r # c => answer'[q][r] = answer[q][r]
           /\ DOMAIN pending' = Ranks /\ \A q \in Ranks \ {p} : pending'[q] = pending[q]
           /\ \A key \in DOMAIN pending'[p] :
                 /\ IsSeq(pending'[p][key])
                 /\ key \in DOMAIN pending[p] \/ \E l \in 1..n : parts[l].resid = key
                 /\ \A k \in 1..Len(pending'[p][key]) :
                       \/ /\ key \in DOMAIN pending[p] /\ k \in 1..Len(pending[p][key])
                          /\ pending'[p][key][k] = pending[p][key][k]
                       \/ /\ pending'[p][key][k].to = c /\ k = Len(PendingFor(p, key)) + 1
                          /\ \E l \in 1..n : parts[l].resid = key
  <1>0. KeyTypes /\ AnswerTypes /\ AskInv(c, p) /\ ReadTypes
    BY ReadParts DEF KeyInv, ReadTypes
  <1>1. /\ mgmt[c][p] # << >> /\ mgmt' = Received(c, p) /\ checking[p] = {} /\ Head(mgmt[c][p]).type = "GET"
        /\ UNCHANGED <<reply, store, checking, nextKey, localKey, dvs, origin, source, job, made, reader, released>>
    BY DEF HandleGet, Handles, program
  <1>2. 1 \in 1..Len(mgmt[c][p]) /\ Head(mgmt[c][p]) = mgmt[c][p][1] /\ Asks(c, p, 1)
    BY <1>0, <1>1, HeadSent DEF Asks
  <1>3. /\ c # p /\ Head(mgmt[c][p]).src = c /\ Receiving(c) /\ Active(c) /\ answer[p][c] = << >>
        /\ Head(mgmt[c][p]).parts = parts /\ reader[c].asked[p] = parts
        /\ \A j \in 1..Len(mgmt[c][p]) : Asks(c, p, j) => j = 1
    <2>1. /\ c # p /\ mgmt[c][p][1].src = c /\ Receiving(c) /\ answer[p][c] = << >>
          /\ mgmt[c][p][1].parts = reader[c].asked[p]
          /\ reader[c].asked[p] = PiecesFrom(c, p)
          /\ \A j \in 1..Len(mgmt[c][p]) : Asks(c, p, j) => 1 = j
      BY <1>0, <1>2, Zenon DEF AskInv
    <2>. QED
      BY <1>2, <2>1, ReceivingActive
  <1>4. ~ Asking(c, p)'
    <2>1. ASSUME NEW i \in 1..Len(mgmt'[c][p]), Asks(c, p, i)' PROVE FALSE
      <3>1. i + 1 \in 1..Len(mgmt[c][p]) /\ mgmt'[c][p][i] = mgmt[c][p][i + 1]
        BY <1>0, <1>1, ReceivedEffect
      <3>2. Asks(c, p, i + 1)
        BY <2>1, <3>1 DEF Asks
      <3>3. i + 1 = 1
        BY <1>3, <3>1, <3>2
      <3>. QED
        BY <3>3
    <2>. QED
      BY <2>1 DEF Asking
  <1>5. n \in Nat /\ IsSeq(parts) /\ Len(parts) = n /\ \A k, l \in 1..n : parts[k].resid = parts[l].resid => k = l
    BY <1>3, AskedParts
  <1>6. DOMAIN parts = 1..n
    BY <1>5 DEF IsSeq
  <1>. DEFINE m == Head(mgmt[c][p])
              here(i) == Available(store[p], m.parts[i].resid)
              bad == {i \in DOMAIN m.parts : here(i) /\ OutOfBounds(store[p], m.parts[i])}
              handled == {i \in DOMAIN m.parts : \A j \in bad : i < j}
              A == {i \in handled : here(i)}
              sent == Chosen(m.parts, A)
              absent == {i \in handled : ~ here(i)}
              of(key) == {i \in absent : m.parts[i].resid = key}
              listed(key) == Chosen(m.parts, of(key))
              waiting(key) == [i \in 1..Len(listed(key)) |->
                                  [offset |-> listed(key)[i].offset, size |-> listed(key)[i].size, to |-> m.src]]
              data == [i \in 1..Len(sent) |-> ReadFrom(store[p][sent[i].resid].data, sent[i])]
              keys == {m.parts[i].resid : i \in absent}
  <1>7. /\ answer' = [answer EXCEPT ![p][m.src] = @ \o data]
        /\ pending' = [pending EXCEPT ![p] = [key \in DOMAIN @ \cup keys |-> PendingFor(p, key) \o waiting(key)]]
    BY DEF HandleGet
  <1>8. A \subseteq 1..n /\ absent \subseteq 1..n /\ \A k \in A : parts[k].resid \in DOMAIN store[p]
    BY <1>3, <1>6 DEF Available, Holds
  <1>9. m.parts = parts /\ m.src = c
    BY <1>3
  <1>10. keys = {parts[i].resid : i \in absent} /\ \A key : of(key) = {i \in absent : parts[i].resid = key}
    BY <1>9
  <1>11. Cardinality(A) \in Nat /\ Len(sent) = Cardinality(A)
    <2>. HIDE DEF A
    <2>. QED
      BY <1>5, <1>8, ChosenFacts
  <1>12. IsSeq(data) /\ Len(data) = Cardinality(A)
    <2>. HIDE DEF A, sent
    <2>. QED
      BY <1>11 DEF IsSeq
  <1>. HIDE DEF m, here, bad, handled, A, sent, absent, data
  \* A part is listed once at most.
  <1>13. ASSUME NEW key
         PROVE  /\ IsSeq(waiting(key)) /\ Len(waiting(key)) \in 0..1
                /\ \A k \in 1..Len(waiting(key)) : waiting(key)[k].to = c /\ \E l \in 1..n : parts[l].resid = key
    <2>1. of(key) \subseteq 1..n
      BY <1>8
    <2>2. PICK s, J : s = listed(key) /\ J = of(key)
      OBVIOUS
    <2>3. Cardinality(J) \in Nat /\ Len(s) = Cardinality(J)
      BY <1>5, <2>1, <2>2, ChosenFacts
    <2>4. PICK w : w = waiting(key)
      OBVIOUS
    <2>5. IsSeq(w) /\ Len(w) = Cardinality(J) /\ \A k \in 1..Len(w) : w[k].to = c
      <3>1. w = [i \in 1..Len(s) |-> [offset |-> s[i].offset, size |-> s[i].size, to |-> m.src]]
        BY <2>2, <2>4
      <3>. QED
        BY <1>9, <2>3, <3>1 DEF IsSeq
    <2>6. /\ Cardinality(J) \in 0..1
          /\ Cardinality(J) # 0 => \E l \in 1..n : parts[l].resid = key
      <3>1. CASE J = {}
        BY <3>1, FS_EmptySet
      <3>2. CASE J # {}
        <4>1. PICK i : i \in J
          BY <3>2
        <4>2. i \in 1..n /\ parts[i].resid = key /\ \A j \in J : j = i
          <5>1. J = {j \in absent : parts[j].resid = key} /\ J \subseteq 1..n
            BY <1>10, <2>1, <2>2
          <5>. HIDE DEF of
          <5>. QED
            BY <1>5, <4>1, <5>1
        <4>3. J = {i}
          BY <4>1, <4>2
        <4>4. Cardinality(J) = 1
          BY <4>3, FS_Singleton, Zenon
        <4>. QED
          BY <4>2, <4>4
      <3>. QED
        BY <3>1, <3>2
    <2>. HIDE DEF waiting
    <2>7. IsSeq(w) /\ Len(w) \in 0..1 /\ \A k \in 1..Len(w) : w[k].to = c /\ \E l \in 1..n : parts[l].resid = key
      BY <2>5, <2>6
    <2>. QED
      BY <2>4, <2>7, Zenon
  <1>14. /\ DOMAIN pending' = Ranks /\ \A q \in Ranks \ {p} : pending'[q] = pending[q]
         /\ DOMAIN pending'[p] = DOMAIN pending[p] \cup keys
         /\ \A key \in DOMAIN pending'[p] : pending'[p][key] = PendingFor(p, key) \o waiting(key)
    <2>. HIDE DEF waiting, keys
    <2>. QED
      BY <1>0, <1>7 DEF AnswerTypes
  <1>15. /\ DOMAIN answer' = Ranks /\ \A q \in Ranks : DOMAIN answer'[q] = Procs
         /\ \A q \in Ranks, r \in Procs : q # p \/ r # c => answer'[q][r] = answer[q][r]
         /\ answer'[p][c] = answer[p][c] \o data
    BY <1>0, <1>7, <1>9 DEF AnswerTypes
  <1>16. IsSeq(answer'[p][c]) /\ Len(answer'[p][c]) = Cardinality(A)
    <2>1. IsSeq(<< >>) /\ Len(<< >>) = 0
      BY IdleRecord
    <2>2. PICK t, e : t = data /\ e = << >>
      OBVIOUS
    <2>3. IsSeq(t) /\ Len(t) = Cardinality(A) /\ IsSeq(e) /\ Len(e) = 0 /\ answer'[p][c] = e \o t
      BY <1>3, <1>12, <1>15, <2>1, <2>2
    <2>4. IsSeq(e \o t) /\ Len(e \o t) = Len(t)
      BY ONLY <2>3, ConcatOf DEF IsSeq
    <2>. QED
      BY <2>3, <2>4
  <1>. HIDE DEF waiting
  <1>17. ASSUME NEW key \in DOMAIN pending'[p]
         PROVE  /\ IsSeq(pending'[p][key])
                /\ key \in DOMAIN pending[p] \/ \E l \in 1..n : parts[l].resid = key
                /\ \A k \in 1..Len(pending'[p][key]) :
                      \/ /\ key \in DOMAIN pending[p] /\ k \in 1..Len(pending[p][key])
                         /\ pending'[p][key][k] = pending[p][key][k]
                      \/ /\ pending'[p][key][k].to = c /\ k = Len(PendingFor(p, key)) + 1
                         /\ \E l \in 1..n : parts[l].resid = key
    <2>1. IsSeq(<< >>) /\ Len(<< >>) = 0
      BY IdleRecord
    <2>2. PICK s, t : s = PendingFor(p, key) /\ t = waiting(key)
      OBVIOUS
    <2>3. /\ IsSeq(s) /\ IsSeq(t) /\ Len(t) \in 0..1 /\ pending'[p][key] = s \o t
          /\ key \in DOMAIN pending[p] => s = pending[p][key]
          /\ key \notin DOMAIN pending[p] => Len(s) = 0
          /\ \A k \in 1..Len(t) : t[k].to = c /\ \E l \in 1..n : parts[l].resid = key
      BY <1>0, <1>13, <1>14, <2>1, <2>2 DEF PendingFor, AnswerTypes
    <2>4. /\ IsSeq(s \o t) /\ Len(s \o t) = Len(s) + Len(t) /\ Len(s) \in Nat
          /\ \A i \in 1..(Len(s) + Len(t)) :
                \/ i \in 1..Len(s) /\ (s \o t)[i] = s[i]
                \/ i - Len(s) \in 1..Len(t) /\ (s \o t)[i] = t[i - Len(s)]
      <3>1. IsSeq(s) /\ IsSeq(t)
        BY <2>3
      <3>. QED
        BY ONLY <3>1, ConcatOf DEF IsSeq
    <2>5. key \in DOMAIN pending[p] \/ \E l \in 1..n : parts[l].resid = key
      BY <1>8, <1>10, <1>14
    <2>6. ASSUME NEW k \in 1..Len(pending'[p][key])
          PROVE  \/ /\ key \in DOMAIN pending[p] /\ k \in 1..Len(pending[p][key])
                    /\ pending'[p][key][k] = pending[p][key][k]
                 \/ /\ pending'[p][key][k].to = c /\ k = Len(PendingFor(p, key)) + 1
                    /\ \E l \in 1..n : parts[l].resid = key
      <3>1. k \in 1..(Len(s) + Len(t))
        BY <2>3, <2>4
      <3>2. CASE k \in 1..Len(s) /\ (s \o t)[k] = s[k]
        <4>1. key \in DOMAIN pending[p]
          BY <2>3, <3>2
        <4>. QED
          BY <2>3, <3>2, <4>1
      <3>3. CASE k - Len(s) \in 1..Len(t) /\ (s \o t)[k] = t[k - Len(s)]
        <4>1. k - Len(s) = 1
          BY <2>3, <3>3
        <4>2. k = Len(s) + 1
          BY <2>4, <4>1
        <4>. QED
          BY <2>2, <2>3, <3>3, <4>2
      <3>. QED
        BY <2>4, <3>1, <3>2, <3>3
    <2>. QED
      BY <2>3, <2>4, <2>5, <2>6
  <1>18. Asking(c, p)
    BY <1>2 DEF Asking
  <1>19. \E B : B \subseteq 1..n /\ AreSent(c, p, parts, B)
    BY <1>8, <1>16 DEF AreSent
  <1>. QED
    BY <1>1, <1>3, <1>4, <1>14, <1>15, <1>17, <1>18, <1>19

\* Pieces of parts that are there are sent, the others are listed.
LEMMA HandleGetReads ==
    ASSUME KeyInv, ReadInv, NEW c \in Procs, NEW p \in Ranks, HandleGet(c, p)
    PROVE  ReadInv'
  <1>0. /\ ReadTypes /\ ReaderTypes /\ AnswerTypes /\ VectorTypes /\ KnownInv /\ CheckInv /\ ListedInv /\ KeyTypes
        /\ \A r \in Procs : ReaderInv(r)
    BY ReadParts DEF ReadTypes, KeyInv
  <1>1. PICK W, n, parts, dv : W = Wanted(c, p) /\ n = Cardinality(W) /\ parts = PiecesFrom(c, p) /\ dv = Vec(c)
    OBVIOUS
  <1>2. /\ mgmt[c][p] # << >> /\ mgmt' = Received(c, p) /\ checking[p] = {}
        /\ UNCHANGED <<reply, store, checking, nextKey, localKey, dvs, origin, source, job, made, reader, released>>
        /\ c # p /\ Receiving(c) /\ Asking(c, p) /\ ~ Asking(c, p)' /\ reader[c].asked[p] = parts
        /\ DOMAIN answer' = Ranks /\ \A q \in Ranks : DOMAIN answer'[q] = Procs
        /\ DOMAIN pending' = Ranks
    BY <1>1, GetEffect
  <1>3. PICK A : A \subseteq 1..n /\ AreSent(c, p, parts, A)
    BY <1>1, GetEffect
  <1>4. \A q \in Ranks, r \in Procs : q # p \/ r # c => answer'[q][r] = answer[q][r]
    BY <1>1, GetEffect
  <1>5. \A q \in Ranks \ {p} : pending'[q] = pending[q]
    BY <1>1, GetEffect
  <1>6. ASSUME NEW key \in DOMAIN pending'[p]
        PROVE  /\ IsSeq(pending'[p][key])
               /\ key \in DOMAIN pending[p] \/ \E l \in 1..n : parts[l].resid = key
               /\ \A k \in 1..Len(pending'[p][key]) :
                     \/ /\ key \in DOMAIN pending[p] /\ k \in 1..Len(pending[p][key])
                        /\ pending'[p][key][k] = pending[p][key][k]
                     \/ /\ pending'[p][key][k].to = c /\ k = Len(PendingFor(p, key)) + 1
                        /\ \E l \in 1..n : parts[l].resid = key
    BY <1>1, <1>6, GetEffect
  <1>7. Active(c) /\ reader[c].vec \in Vectors
    BY <1>0, <1>2, ReceivingActive DEF ReaderInv
  <1>8. /\ n \in Nat /\ IsSeq(parts) /\ Len(parts) = n
        /\ \A k \in 1..n : Nth(W, k) \in W /\ parts[k].resid = dv[Nth(W, k)].resid
    BY <1>1, <1>7, AskedParts
  <1>9. Len(dv) \in Nat /\ W \subseteq 1..Len(dv) /\ \A i \in W : dv[i].pid = p
    BY <1>0, <1>1, <1>7, WantedFacts DEF Wanted
  <1>10. PICK at : Kept(at, "none")
    BY <1>0, <1>2, KeptReceived
  <1>11. KeysStay /\ (\A q \in Ranks : \A x : Coming(q, x)' => Coming(q, x))
    BY <1>0, <1>2, <1>10, ComingKept, SameReply
  <1>12. \A r \in Procs : SameReader(r) /\ SameRange(r) /\ reader'[r].asked = reader[r].asked
    BY <1>2, SameRecord DEF SameReader
  \* The keys that are listed are those of parts of vectors.
  <1>13. ASSUME NEW q \in Ranks, NEW x \in DOMAIN pending'[q]
         PROVE  Issued(q, x)'
    <2>1. CASE x \in DOMAIN pending[q]
      BY <1>0, <1>11, <2>1 DEF KnownInv, KeysStay
    <2>2. CASE x \notin DOMAIN pending[q]
      <3>1. q = p
        BY <1>5, <1>13, <2>2
      <3>2. PICK l \in 1..n : parts[l].resid = x
        BY <1>6, <1>13, <2>2, <3>1
      <3>3. PICK i \in W : i = Nth(W, l)
        BY <1>8
      <3>4. PICK v \in Vectors : v = reader[c].vec
        BY <1>7
      <3>5. dv = dvs[v] /\ i \in 1..Len(dvs[v]) /\ dvs[v][i].pid = p /\ dvs[v][i].resid = x
        BY <1>1, <1>8, <1>9, <3>2, <3>3, <3>4 DEF Vec
      <3>6. Issued(p, x)
        BY <1>0, <3>5 DEF KnownInv
      <3>. QED
        BY <1>11, <3>1, <3>6 DEF KeysStay
    <2>. QED
      BY <2>1, <2>2
  <1>14. /\ ReadTypes' /\ KnownInv' /\ PartsApart' /\ JobInv' /\ ReleaseInv' /\ DvsStay
         /\ \A r \in Procs : ReaderInv(r)'
         /\ \A r \in Procs, q \in Ranks : (\E f : NoNewAsk(r, q, f)) /\ (Asking(r, q)' => Asking(r, q))
    <2>1. ReaderTypes' /\ VectorTypes'
      BY <1>0, <1>2 DEF ReaderTypes, ReaderOf, VectorTypes
    <2>2. \A q \in Ranks, r \in Procs : IsSeq(answer'[q][r])
      BY <1>0, <1>3, <1>4 DEF AnswerTypes, AreSent
    <2>3. \A q \in Ranks : \A x \in DOMAIN pending'[q] : IsSeq(pending'[q][x])
      BY <1>0, <1>5, <1>6 DEF AnswerTypes
    <2>4. AnswerTypes'
      BY <1>0, <1>2, <2>2, <2>3 DEF AnswerTypes
    <2>5. \A r \in Procs : SameReader(r)
      BY <1>12
    <2>6. UNCHANGED <<dvs, origin, source, job, made, released>>
      BY <1>2
    <2>. QED
      BY <1>10, <1>11, <1>13, <2>1, <2>4, <2>5, <2>6, Served
  <1>15. \A r \in Procs : Active(r) => Vec(r)' = Vec(r) /\ \A q : Wanted(r, q)' = Wanted(r, q)
    BY <1>0, <1>12, <1>14, SameWants
  \* What is listed for the reader is listed once: nothing was while it asked.
  <1>16. ASSUME NEW key \in DOMAIN pending'[p], Coming(p, key)', NEW k \in 1..Len(pending'[p][key])
         PROVE  ListedOnce(p, key, k)'
    <2>1. Coming(p, key)
      BY <1>11, <1>16
    <2>2. PICK o : o = Len(PendingFor(p, key)) + 1
      OBVIOUS
    <2>3. \A j \in 1..Len(pending'[p][key]) :
              \/ /\ key \in DOMAIN pending[p] /\ j \in 1..Len(pending[p][key])
                 /\ pending'[p][key][j] = pending[p][key][j]
              \/ pending'[p][key][j].to = c /\ j = o /\ \E l \in 1..n : parts[l].resid = key
      BY <1>6, <1>16, <2>2
    <2>4. ASSUME key \in DOMAIN pending[p], NEW j \in 1..Len(pending[p][key])
          PROVE  /\ ListedOnce(p, key, j) /\ pending[p][key][j].to # c
      <3>1. ListedOnce(p, key, j)
        BY <1>0, <2>1, <2>4, ListedOne
      <3>2. ~ Asking(pending[p][key][j].to, p)
        BY <3>1 DEF ListedOnce
      <3>. QED
        BY <1>2, <3>1, <3>2
    <2>5. CASE /\ key \in DOMAIN pending[p] /\ k \in 1..Len(pending[p][key])
               /\ pending'[p][key][k] = pending[p][key][k]
      <3>1. PICK r : r = pending[p][key][k].to
        OBVIOUS
      <3>2. /\ r \in Procs /\ r # p /\ Receiving(r) /\ ~ Asking(r, p) /\ r # c
            /\ \E i \in Wanted(r, p) : Vec(r)[i].resid = key
            /\ \A j \in 1..Len(pending[p][key]) : pending[p][key][j].to = r => j = k
        BY <2>4, <2>5, <3>1 DEF ListedOnce
      <3>3. Receiving(r)' /\ ~ Asking(r, p)' /\ \E i \in Wanted(r, p)' : Vec(r)'[i].resid = key
        BY <1>12, <1>14, <1>15, <3>2, ReceivingActive DEF SameRange
      <3>4. ASSUME NEW j \in 1..Len(pending'[p][key]), pending'[p][key][j].to = r PROVE j = k
        BY <2>3, <3>2, <3>4
      <3>5. pending'[p][key][k].to = r
        BY <2>5, <3>1
      <3>. QED
        BY <3>2, <3>3, <3>4, <3>5 DEF ListedOnce
    <2>6. CASE pending'[p][key][k].to = c /\ k = o /\ \E l \in 1..n : parts[l].resid = key
      <3>1. PICK l \in 1..n : parts[l].resid = key
        BY <2>6
      <3>2. Nth(W, l) \in Wanted(c, p)' /\ Vec(c)'[Nth(W, l)].resid = key
        BY <1>1, <1>7, <1>8, <1>15, <3>1
      <3>3. ASSUME NEW j \in 1..Len(pending'[p][key]), pending'[p][key][j].to = c PROVE j = k
        BY <2>3, <2>4, <2>6, <3>3
      <3>4. Receiving(c)'
        BY <1>2, <1>12 DEF SameRange
      <3>5. /\ \E i \in Wanted(c, p)' : Vec(c)'[i].resid = key
            /\ \A j \in 1..Len(pending'[p][key]) : pending'[p][key][j].to = c => j = k
        BY <3>2, <3>3
      <3>. QED
        BY <1>2, <2>6, <3>4, <3>5 DEF ListedOnce
    <2>. QED
      BY <2>3, <2>5, <2>6
  <1>17. ListedInv'
    <2>. SUFFICES ASSUME NEW q \in Ranks, NEW key \in DOMAIN pending'[q], Coming(q, key)',
                         NEW k \in 1..Len(pending'[q][key])
                  PROVE  ListedOnce(q, key, k)'
      BY Zenon DEF ListedInv
    <2>1. CASE q = p
      BY <1>16, <2>1
    <2>2. CASE q # p
      <3>1. Coming(q, key) /\ pending'[q] = pending[q] /\ key \in DOMAIN pending[q] /\ k \in 1..Len(pending[q][key])
        BY <1>5, <1>11, <2>2
      <3>2. ListedOnce(q, key, k)
        BY <1>0, <3>1, ListedOne
      <3>3. PICK r : r = pending[q][key][k].to
        OBVIOUS
      <3>4. /\ r \in Procs /\ r # q /\ Receiving(r) /\ ~ Asking(r, q)
            /\ \E i \in Wanted(r, q) : Vec(r)[i].resid = key
            /\ \A j \in 1..Len(pending[q][key]) : pending[q][key][j].to = r => j = k
        BY <3>2, <3>3 DEF ListedOnce
      <3>5. Receiving(r)' /\ ~ Asking(r, q)' /\ \E i \in Wanted(r, q)' : Vec(r)'[i].resid = key
        BY <1>12, <1>14, <1>15, <3>4, ReceivingActive DEF SameRange
      <3>6. /\ pending'[q][key][k].to = r
            /\ \A j \in 1..Len(pending'[q][key]) : pending'[q][key][j].to = r => j = k
        BY <3>1, <3>3, <3>4
      <3>. QED
        BY <3>4, <3>5, <3>6 DEF ListedOnce
    <2>. QED
      BY <2>1, <2>2
  <1>18. ASSUME NEW r \in Procs, NEW q \in Ranks, Active(r)
         PROVE  NotYet(r, q)' \subseteq NotYet(r, q)
    <2>1. ASSUME NEW x, x \in checking'[q], Listed(r, q, x)'
          PROVE  x \in checking[q] /\ Listed(r, q, x)
      <3>1. q # p /\ x \in checking[q]
        BY <1>2, <2>1
      <3>2. pending'[q] = pending[q]
        BY <1>5, <3>1
      <3>. QED
        BY <2>1, <3>1, <3>2 DEF Listed
    <2>2. ReaderInv(r) /\ SameRange(r)
      BY <1>0, <1>12
    <2>. QED
      BY <1>2, <1>14, <1>18, <2>1, <2>2, NotYetKept
  <1>19. ASSUME NEW r \in Procs, NEW q \in Ranks, q # p \/ r # c
         PROVE  AskInv(r, q)' /\ CountInv(r, q)'
    <2>0. AskInv(r, q) /\ CountInv(r, q) /\ ReaderInv(r)
      BY ReadParts
    <2>1. PICK f : NoNewAsk(r, q, f)
      BY <1>14
    <2>2. /\ SameRange(r) /\ reader'[r].asked[q] = reader[r].asked[q] /\ answer'[q][r] = answer[q][r]
          /\ Active(r) /\ q # r => NotYet(r, q)' \subseteq NotYet(r, q)
      BY <1>4, <1>12, <1>18, <1>19
    <2>3. AskInv(r, q)'
      BY <1>14, <2>0, <2>1, <2>2, AskKept
    <2>4. CountInv(r, q)'
      BY <1>0, <1>14, <2>0, <2>2, CountKept
    <2>. QED
      BY <2>3, <2>4
  <1>20. AskInv(c, p)'
    <2>1. \A i \in 1..Len(mgmt'[c][p]) : ~ Asks(c, p, i)'
      BY <1>2 DEF Asking
    <2>. QED
      BY <2>1, Zenon DEF AskInv
  \* What is sent and what is not yet are different parts.
  <1>21. CountInv(c, p)'
    <2>1. Vec(c)' = dv /\ Wanted(c, p)' = W
      BY <1>1, <1>7, <1>15
    <2>2. PICK T : T = NotYet(c, p)'
      OBVIOUS
    <2>3. ASSUME NEW i \in T PROVE i \in W /\ dv[i].resid \notin DOMAIN store[p]
      <3>1. i \in Wanted(c, p)' /\ (\/ Vec(c)'[i].resid \notin DOMAIN store'[p]
                                    \/ Asking(c, p)'
                                    \/ Vec(c)'[i].resid \in checking'[p] /\ Listed(c, p, Vec(c)[i].resid)')
        BY <2>2, <2>3 DEF NotYet
      <3>. QED
        BY <1>2, <2>1, <3>1
    <2>4. \A k \in A : Nth(W, k) \notin T
      BY <1>3, <1>8, <2>3 DEF AreSent
    <2>5. T \subseteq W /\ A \subseteq 1..Cardinality(W)
      BY <1>1, <1>3, <2>3
    <2>6. /\ Cardinality(A) \in Nat /\ Cardinality(T) \in Nat /\ Cardinality(W) \in Nat
          /\ Cardinality(A) + Cardinality(T) <= Cardinality(W)
      BY <1>9, <2>4, <2>5, NthApart
    <2>7. Len(reader'[c].asked[p]) = Cardinality(W)
      BY <1>1, <1>2, <1>8
    <2>8. Len(answer'[p][c]) + Cardinality(NotYet(c, p)') <= Len(reader'[c].asked[p])
      BY <1>3, <2>2, <2>6, <2>7 DEF AreSent
    <2>9. Receiving(c)' /\ Active(c)'
      BY <1>2, <1>7, <1>12 DEF SameRange
    <2>. QED
      BY <1>2, <2>8, <2>9 DEF CountInv
  <1>22. CheckInv'
    BY <1>0, <1>2 DEF CheckInv
  <1>. QED
    BY <1>14, <1>17, <1>19, <1>20, <1>21, <1>22, ReadWhole

-----------------------------------------------------------------------------
\* A process stores and registers the parts it made.

\* What is sent, and under which keys.
LEMMA RegisterEffect ==
    ASSUME KeyTypes, NEW g \in Groups, NEW r \in Ranks, NEW extra, StoreAndRegister(g, r, extra)
    PROVE  /\ \A d \in Procs, q \in Ranks : d # r \/ q # r => mgmt'[d][q] = mgmt[d][q]
           /\ \A i \in 1..Len(mgmt'[r][r]) :
                 \/ i \in 1..Len(mgmt[r][r]) /\ mgmt'[r][r][i] = mgmt[r][r][i]
                 \/ mgmt'[r][r][i].type = "STORE" /\ mgmt'[r][r][i].resid \in Int /\ mgmt'[r][r][i].resid >= nextKey[r]
           /\ CountersGrow /\ nextKey'[r] = nextKey[r] + PartsPerProc
  <1>. DEFINE n == PartsPerProc
              s == mgmt[r][r]
              new == [k \in 1..n |-> StoreMsg(nextKey[r] + k - 1, PartBytes(r, StoredAs(k) + 1))]
  <1>1. r \in Procs /\ r # Client
    BY ClientAssumption DEF Procs
  <1>2. /\ mgmt' = [mgmt EXCEPT ![r] = [mgmt[r] EXCEPT ![r] = s \o new]]
        /\ nextKey' = [nextKey EXCEPT ![r] = nextKey[r] + n]
        /\ localKey' = localKey
    BY <1>1 DEF StoreAndRegister, servers, program, KeyTypes
  <1>3. n \in Nat /\ nextKey[r] \in Nat
    BY BoundsAssumption DEF KeyTypes
  <1>4. /\ IsSeq(new) /\ Len(new) = n
        /\ \A k \in 1..n : new[k].type = "STORE" /\ new[k].resid = nextKey[r] + k - 1
    <2>1. DOMAIN new = 1..n /\ Len(new) = n
      BY <1>3
    <2>2. \A k \in 1..n : new[k] = StoreMsg(nextKey[r] + k - 1, PartBytes(r, StoredAs(k) + 1))
      OBVIOUS
    <2>3. IsSeq(new)
      BY <2>1, <1>3 DEF IsSeq
    <2>. HIDE DEF new
    <2>4. \A key, data : StoreMsg(key, data).type = "STORE" /\ StoreMsg(key, data).resid = key
      BY DEF StoreMsg
    <2>5. ASSUME NEW k \in 1..n
          PROVE  new[k].type = "STORE" /\ new[k].resid = nextKey[r] + k - 1
      <3>1. new[k] = StoreMsg(nextKey[r] + k - 1, PartBytes(r, StoredAs(k) + 1))
        BY <2>2
      <3>. QED
        BY <2>4, <3>1
    <2>. QED
      BY <2>1, <2>3, <2>5
  <1>5. IsSeq(s) /\ Len(s) \in Nat
    BY <1>1 DEF KeyTypes, IsSeq
  <1>. HIDE DEF s, new, n
  <1>6. /\ Len(s \o new) = Len(s) + Len(new)
        /\ \A i \in 1..(Len(s) + Len(new)) :
              \/ i \in 1..Len(s) /\ (s \o new)[i] = s[i]
              \/ i - Len(s) \in 1..Len(new) /\ (s \o new)[i] = new[i - Len(s)]
    BY <1>4, <1>5, ConcatOf
  <1>7. /\ \A d \in Procs, q \in Ranks : d # r \/ q # r => mgmt'[d][q] = mgmt[d][q]
        /\ mgmt'[r][r] = s \o new
    BY <1>1, <1>2 DEF KeyTypes
  <1>8. CountersGrow /\ nextKey'[r] = nextKey[r] + n
    BY <1>2, <1>3 DEF CountersGrow, KeyTypes
  <1>9. ASSUME NEW i \in 1..Len(mgmt'[r][r])
        PROVE  \/ i \in 1..Len(s) /\ mgmt'[r][r][i] = s[i]
               \/ mgmt'[r][r][i].type = "STORE" /\ mgmt'[r][r][i].resid \in Int /\ mgmt'[r][r][i].resid >= nextKey[r]
    <2>1. i \in 1..(Len(s) + Len(new))
      BY <1>6, <1>7
    <2>2. \/ i \in 1..Len(s) /\ mgmt'[r][r][i] = s[i]
          \/ i - Len(s) \in 1..n /\ mgmt'[r][r][i] = new[i - Len(s)]
      BY <1>4, <1>6, <1>7, <2>1
    <2>3. CASE i - Len(s) \in 1..n /\ mgmt'[r][r][i] = new[i - Len(s)]
      <3>1. PICK k \in 1..n : k = i - Len(s) /\ mgmt'[r][r][i] = new[k]
        BY <2>3
      <3>2. mgmt'[r][r][i].type = "STORE" /\ mgmt'[r][r][i].resid = nextKey[r] + k - 1
        BY <1>4, <3>1
      <3>3. nextKey[r] + k - 1 \in Int /\ nextKey[r] + k - 1 >= nextKey[r]
        BY <1>3
      <3>. QED
        BY <3>2, <3>3
    <2>. QED
      BY <2>2, <2>3
  <1>. QED
    BY <1>7, <1>8, <1>9 DEF s, n

\* What is registered.
LEMMA RegisteredParts ==
    ASSUME KeyTypes, ReaderTypes, NEW r \in Ranks, NEW extra \in Misdeclared
    PROVE  /\ Registered(r, extra) \in Seq(Part) /\ Len(Registered(r, extra)) = PartsPerProc
           /\ \A i \in 1..PartsPerProc :
                 /\ Registered(r, extra)[i].pid = r /\ Registered(r, extra)[i].resid \in Int
                 /\ nextKey[r] <= Registered(r, extra)[i].resid
                 /\ Registered(r, extra)[i].resid < nextKey[r] + PartsPerProc
           /\ \A i, j \in 1..PartsPerProc :
                 Registered(r, extra)[i].resid = Registered(r, extra)[j].resid => i = j
  <1>. DEFINE n == PartsPerProc
              size(i) == PartSize(reader[r].size, i - 1, n) + (IF i = n THEN extra ELSE 0)
              offset(i) == reader[r].first + Beg(reader[r].size, i - 1, n)
              reg == Registered(r, extra)
  <1>1. n \in Nat \ {0} /\ nextKey[r] \in Nat /\ extra \in Nat /\ r \in Int /\ r \in Procs
    <2>1. r \in Nat
      BY ClientAssumption
    <2>. QED
      BY <2>1, BoundsAssumption, ProgramAssumption DEF KeyTypes, Procs
  <1>2. PICK z \in Int, f \in Nat : z = reader[r].size /\ f = reader[r].first
    BY <1>1 DEF ReaderTypes
  <1>3. ASSUME NEW i \in 1..n
        PROVE  /\ size(i) \in Nat /\ offset(i) \in Nat
               /\ nextKey[r] + StoredAs(i) \in Int /\ nextKey[r] <= nextKey[r] + StoredAs(i)
               /\ nextKey[r] + StoredAs(i) < nextKey[r] + n
    <2>1. PartSize(z, i - 1, n) \in Nat /\ Beg(z, i - 1, n) \in Nat
      <3>1. i - 1 \in Int
        OBVIOUS
      <3>. QED
        BY <1>1, <3>1, RangeTypes
    <2>2. size(i) \in Nat
      <3>1. (IF i = n THEN extra ELSE 0) \in Nat
        BY <1>1
      <3>. QED
        BY <1>2, <2>1, <3>1
    <2>3. offset(i) \in Nat
      BY <1>2, <2>1
    <2>4. StoredAs(i) \in 0..(n - 1)
      BY <1>1 DEF StoredAs
    <2>. QED
      BY <1>1, <2>2, <2>3, <2>4
  <1>4. \A i \in 1..n : reg[i] = [pid |-> r, resid |-> nextKey[r] + StoredAs(i), size |-> size(i), offset |-> offset(i)]
    BY DEF Registered
  <1>5. reg = [i \in 1..n |-> reg[i]] /\ Len(reg) = n
    BY <1>1 DEF Registered
  <1>. HIDE DEF reg, size, offset
  <1>6. ASSUME NEW i \in 1..n
        PROVE  reg[i] \in Part /\ reg[i].pid = r /\ reg[i].resid = nextKey[r] + StoredAs(i)
    <2>1. PICK key, sz, o : key = nextKey[r] + StoredAs(i) /\ sz = size(i) /\ o = offset(i)
      OBVIOUS
    <2>2. key \in Int /\ sz \in Nat /\ o \in Nat
      BY <1>3, <2>1
    <2>3. reg[i] = [pid |-> r, resid |-> key, size |-> sz, offset |-> o]
      BY <1>4, <2>1
    <2>4. reg[i] \in Part /\ reg[i].pid = r /\ reg[i].resid = key
      BY <1>1, <2>2, <2>3 DEF Part
    <2>. QED
      BY <2>1, <2>4
  <1>7. reg \in Seq(Part)
    BY <1>1, <1>5, <1>6
  <1>8. ASSUME NEW i \in 1..n, NEW j \in 1..n, reg[i].resid = reg[j].resid
        PROVE  i = j
    <2>1. nextKey[r] + StoredAs(i) = nextKey[r] + StoredAs(j)
      BY <1>6, <1>8
    <2>. QED
      BY <1>1, <2>1 DEF StoredAs
  <1>. HIDE DEF n
  <1>9. \A i \in 1..n : /\ reg[i].pid = r /\ reg[i].resid \in Int
                        /\ nextKey[r] <= reg[i].resid /\ reg[i].resid < nextKey[r] + n
    BY <1>3, <1>6
  <1>. QED
    BY <1>5, <1>7, <1>8, <1>9 DEF reg, n

LEMMA StoreAndRegisterReads ==
    ASSUME KeyInv, ReadInv, NEW g \in Groups, NEW r \in Ranks, NEW extra \in Misdeclared, StoreAndRegister(g, r, extra)
    PROVE  ReadInv'
  <1>0. /\ ReadTypes /\ KnownInv /\ PartsApart /\ JobInv /\ CheckInv /\ ReleaseInv /\ ListedInv /\ KeyTypes
        /\ ReaderTypes /\ AnswerTypes /\ VectorTypes
        /\ r \in Procs /\ r # Client /\ Client \in Procs /\ (\A q \in Procs : ReaderInv(q))
    BY ReadParts, ClientAssumption DEF KeyInv, Procs, ReadTypes
  <1>1. /\ GotAll(r) /\ made' = [made EXCEPT ![r] = Registered(r, extra)]
        /\ reader' = [reader EXCEPT ![r] = Idle]
        /\ UNCHANGED <<reply, answer, store, pending, checking, localKey, dvs, origin, source, job, released>>
    BY DEF StoreAndRegister, servers, program
  <1>2. /\ ReaderTypes' /\ \A q \in Procs \ {r} : SameReader(q)
        /\ reader'[r].pc = "idle" /\ reader'[r].vec = None
    BY <1>0, <1>1, ReaderIdle
  <1>3. /\ \A d \in Procs, q \in Ranks : d # r \/ q # r => mgmt'[d][q] = mgmt[d][q]
        /\ \A i \in 1..Len(mgmt'[r][r]) :
              \/ i \in 1..Len(mgmt[r][r]) /\ mgmt'[r][r][i] = mgmt[r][r][i]
              \/ mgmt'[r][r][i].type = "STORE" /\ mgmt'[r][r][i].resid \in Int /\ mgmt'[r][r][i].resid >= nextKey[r]
        /\ CountersGrow /\ nextKey'[r] = nextKey[r] + PartsPerProc
    BY <1>0, RegisterEffect
  <1>4. PICK at : Kept(at, "STORE")
    <2>1. ASSUME NEW c \in Procs, NEW p \in Ranks, NEW i \in 1..Len(mgmt'[c][p])
          PROVE  \/ i \in 1..Len(mgmt[c][p]) /\ mgmt'[c][p][i] = mgmt[c][p][i]
                 \/ mgmt'[c][p][i].type = "STORE"
      BY <1>3, <2>1
    <2>. QED
      BY <2>1, KeptGrown
  <1>5. \A q \in Procs, p \in Ranks : \E f : NoNewAsk(q, p, f)
    BY <1>4, KeptAsks
  <1>6. nextKey[r] \in Nat /\ PartsPerProc \in Nat
    BY <1>0, BoundsAssumption DEF KeyTypes
  <1>7. ASSUME NEW key \in Int, key >= nextKey[r]
        PROVE  ~ Issued(r, key)
    <2>1. ~ Given(r, key) /\ ~ Taken(r, key)
      BY <1>0, <1>6, <1>7, KeySigns DEF Taken
    <2>. QED
      BY <2>1 DEF Issued
  <1>8. \A p \in Ranks : \A key : InReply(p, key)' => InReply(p, key)
    BY <1>1 DEF InReply
  <1>9. KeysStay /\ DvsStay
    BY <1>0, <1>1, <1>3, <1>8, KeysStayIssued, SameDvs
  <1>10. ComingStays
    <2>. SUFFICES ASSUME NEW p \in Ranks, NEW key, Issued(p, key), Coming(p, key)'
                  PROVE  Coming(p, key)
      BY DEF ComingStays
    <2>1. CASE key \in checking'[p]
      BY <1>1, <2>1 DEF Coming
    <2>2. CASE \E c \in Procs : \E i \in 1..Len(mgmt'[c][p]) : Storing(c, p, i)' /\ mgmt'[c][p][i].resid = key
      <3>1. PICK c \in Procs : \E i \in 1..Len(mgmt'[c][p]) : Storing(c, p, i)' /\ mgmt'[c][p][i].resid = key
        BY <2>2
      <3>2. PICK i \in 1..Len(mgmt'[c][p]) : Storing(c, p, i)' /\ mgmt'[c][p][i].resid = key
        BY <3>1
      <3>3. i \in 1..Len(mgmt[c][p]) /\ mgmt'[c][p][i] = mgmt[c][p][i]
        <4>1. CASE c # r \/ p # r
          BY <1>3, <4>1
        <4>2. CASE c = r /\ p = r
          BY <1>3, <1>7, <3>2, <4>2
        <4>. QED
          BY <4>1, <4>2
      <3>4. Storing(c, p, i) /\ mgmt[c][p][i].resid = key
        BY <3>2, <3>3 DEF Storing
      <3>. QED
        BY <3>3, <3>4 DEF Coming
    <2>. QED
      BY <2>1, <2>2 DEF Coming
  <1>11. PICK reg \in Seq(Part) :
            /\ made'[r] = reg /\ Len(reg) = PartsPerProc
            /\ \A i \in 1..Len(reg) :
                  /\ reg[i].pid = r /\ reg[i].resid \in Int
                  /\ nextKey[r] <= reg[i].resid /\ reg[i].resid < nextKey'[r]
            /\ \A i, j \in 1..Len(reg) : reg[i].resid = reg[j].resid => i = j
    <2>1. made'[r] = Registered(r, extra)
      BY <1>0, <1>1 DEF VectorTypes
    <2>2. PICK reg : reg = Registered(r, extra)
      OBVIOUS
    <2>3. /\ reg \in Seq(Part) /\ Len(reg) = PartsPerProc
          /\ \A i \in 1..PartsPerProc :
                /\ reg[i].pid = r /\ reg[i].resid \in Int
                /\ nextKey[r] <= reg[i].resid /\ reg[i].resid < nextKey[r] + PartsPerProc
          /\ \A i, j \in 1..PartsPerProc : reg[i].resid = reg[j].resid => i = j
      BY <1>0, <2>2, RegisteredParts
    <2>. QED
      BY <1>3, <2>1, <2>2, <2>3
  <1>12. \A q \in Ranks \ {r} : made'[q] = made[q]
    BY <1>0, <1>1 DEF VectorTypes
  <1>13. ASSUME NEW i \in 1..Len(reg)
         PROVE  Issued(r, reg[i].resid)' /\ ~ Issued(r, reg[i].resid)
    <2>1. reg[i].resid \in Int /\ Taken(r, reg[i].resid)'
      BY <1>6, <1>11 DEF Taken
    <2>2. ~ InReply(r, reg[i].resid)
      <3>1. ~ (reg[i].resid <= -1)
        BY <1>6, <1>11
      <3>. QED
        BY <3>1, InReplyNew
    <2>. QED
      BY <1>7, <1>8, <1>11, <2>1, <2>2 DEF Issued
  <1>14. ReadTypes'
    <2>1. made' \in [Ranks -> Seq(Part)]
      BY <1>0, <1>1, <1>11 DEF VectorTypes
    <2>2. VectorTypes'
      BY <1>0, <1>1, <1>11, <1>12, <2>1 DEF VectorTypes
    <2>3. AnswerTypes'
      BY <1>0, <1>1 DEF AnswerTypes
    <2>. QED
      BY <1>2, <2>2, <2>3 DEF ReadTypes
  <1>15. KnownInv'
    <2>1. ASSUME NEW p \in Ranks, NEW key \in DOMAIN pending'[p] PROVE Issued(p, key)'
      BY <1>0, <1>1, <1>9, <2>1 DEF KnownInv, KeysStay
    <2>2. ASSUME NEW v \in Vectors, NEW i \in 1..Len(dvs'[v]) PROVE Issued(dvs[v][i].pid, dvs[v][i].resid)'
      <3>1. Issued(dvs[v][i].pid, dvs[v][i].resid) /\ dvs[v][i].pid \in Ranks
        BY <1>0, <1>1, <2>2 DEF KnownInv, VectorTypes
      <3>. QED
        BY <1>1, <1>9, <3>1 DEF KeysStay
    <2>3. ASSUME NEW q \in Ranks, NEW i \in 1..Len(made'[q])
          PROVE  made'[q][i].pid = q /\ Issued(q, made[q][i].resid)'
      <3>1. CASE q = r
        BY <1>11, <1>13, <2>3, <3>1
      <3>2. CASE q # r
        BY <1>0, <1>9, <1>12, <2>3, <3>2 DEF KnownInv, KeysStay
      <3>. QED
        BY <3>1, <3>2
    <2>. QED
      BY <2>1, <2>2, <2>3 DEF KnownInv
  <1>16. PartsApart'
    <2>1. ASSUME NEW v \in Vectors, NEW w \in Vectors, NEW i \in 1..Len(dvs'[v]), NEW j \in 1..Len(dvs'[w]),
                 SamePart(dvs'[v][i], dvs'[w][j])
          PROVE  v = w /\ i = j
      <3>1. i \in 1..Len(dvs[v]) /\ j \in 1..Len(dvs[w]) /\ SamePart(dvs[v][i], dvs[w][j])
        BY <1>1, <2>1
      <3>. QED
        BY <1>0, <3>1, Zenon DEF PartsApart
    <2>2. ASSUME NEW q \in Ranks, NEW v \in Vectors, NEW i \in 1..Len(made'[q]), NEW j \in 1..Len(dvs'[v])
          PROVE  ~ SamePart(made'[q][i], dvs'[v][j])
      <3>1. j \in 1..Len(dvs[v]) /\ dvs'[v] = dvs[v]
        BY <1>1, <2>2
      <3>2. CASE q # r
        <4>1. i \in 1..Len(made[q]) /\ made'[q] = made[q]
          BY <1>12, <2>2, <3>2
        <4>2. ~ SamePart(made[q][i], dvs[v][j])
          BY <1>0, <3>1, <4>1, Zenon DEF PartsApart
        <4>. QED
          BY <3>1, <4>1, <4>2
      <3>3. CASE q = r
        <4>1. i \in 1..Len(reg) /\ made'[q][i] = reg[i] /\ reg[i].pid = r /\ ~ Issued(r, reg[i].resid)
          BY <1>11, <1>13, <2>2, <3>3
        <4>2. Issued(dvs[v][j].pid, dvs[v][j].resid)
          BY <1>0, <3>1 DEF KnownInv
        <4>. QED
          BY <3>1, <4>1, <4>2 DEF SamePart
      <3>. QED
        BY <3>2, <3>3
    <2>3. ASSUME NEW q \in Ranks, NEW i \in 1..Len(made'[q]), NEW j \in 1..Len(made'[q]),
                 SamePart(made'[q][i], made'[q][j])
          PROVE  i = j
      <3>1. CASE q # r
        <4>1. i \in 1..Len(made[q]) /\ j \in 1..Len(made[q]) /\ SamePart(made[q][i], made[q][j])
          BY <1>12, <2>3, <3>1
        <4>. QED
          BY <1>0, <4>1, Zenon DEF PartsApart
      <3>2. CASE q = r
        BY <1>11, <2>3, <3>2 DEF SamePart
      <3>. QED
        BY <3>1, <3>2
    <2>. QED
      BY <2>1, <2>2, <2>3, Zenon DEF PartsApart, SamePart
  <1>17. JobInv'
    <2>1. SameRange(Client)
      BY <1>0, <1>2 DEF SameReader
    <2>. QED
      BY <1>0, <1>1, <2>1 DEF JobInv, SameRange
  <1>18. CheckInv'
    BY <1>0, <1>1 DEF CheckInv
  <1>19. ReleaseInv'
    BY <1>0, <1>1, <1>4, <1>9, ReleaseKept
  <1>20. ListedInv'
    <2>1. ASSUME NEW q \in Procs, NEW p \in Ranks, Receiving(q), Awaits(q, p)
          PROVE  SameRange(q) /\ (Asking(q, p)' => Asking(q, p))
      <3>1. q # r
        BY <1>0, <1>1, <2>1, GotAllDone
      <3>. QED
        BY <1>2, <1>5, <3>1, NoNewAsking DEF SameReader
    <2>. QED
      BY <1>0, <1>1, <1>9, <1>10, <2>1, ListedKept
  <1>21. ASSUME NEW q \in Procs
         PROVE  ReaderInv(q)' /\ \A p \in Ranks : AskInv(q, p)' /\ CountInv(q, p)'
    <2>1. CASE q = r
      <3>1. ASSUME NEW p \in Ranks PROVE answer'[p][r] = << >> /\ ~ Asking(r, p)'
        <4>1. answer[p][r] = << >> /\ ~ Asking(r, p)
          BY <1>0, <1>1, GotAllDone
        <4>2. PICK f : NoNewAsk(r, p, f)
          BY <1>0, <1>5
        <4>. QED
          BY <1>1, <4>1, <4>2, NoNewAsking
      <3>2. ReaderInv(r)' /\ \A p \in Ranks : AskInv(r, p)' /\ CountInv(r, p)'
        BY <1>0, <1>2, <3>1, NowIdle
      <3>. QED
        BY <2>1, <3>2
    <2>2. CASE q # r
      <3>1. Active(q) => reader[q].vec \notin released'
        BY <1>0, <1>1 DEF ReaderInv
      <3>. QED
        BY <1>1, <1>2, <1>5, <1>9, <2>2, <3>1, ReaderStays
    <2>. QED
      BY <2>1, <2>2
  <1>. QED
    BY <1>14, <1>15, <1>16, <1>17, <1>18, <1>19, <1>20, <1>21, ReadWhole

-----------------------------------------------------------------------------
\* The head gathers the parts of its processes.

\* Each part of the descriptor is one that a process registered, and each of those is there once.
Collected(g) == Gathered([s \in 1..Len(g) |-> made[g[s]]])

MadeBy(g, dv) ==
    /\ dv \in Seq(Part)
    /\ \A j \in 1..Len(dv) : \E s \in 1..Len(g) : \E i \in 1..Len(made[g[s]]) :
          dv[j].pid = g[s] /\ dv[j].resid = made[g[s]][i].resid
    /\ \A j, l \in 1..Len(dv) : SamePart(dv[j], dv[l]) => j = l

LEMMA GatheredMade ==
    ASSUME VectorTypes, KnownInv, PartsApart, NEW g \in Groups, \A s \in DOMAIN g : made[g[s]] # << >>,
           NEW dv, dv = Collected(g)
    PROVE  MadeBy(g, dv)
  <1>1. PICK p \in Nat \ {0}, k \in Nat \ {0} : p = Len(g) /\ k = PartsPerProc
    BY GroupProcs, BoundsAssumption
  <1>2. DOMAIN g = 1..p /\ (\A s \in 1..p : g[s] \in Ranks) /\ \A s, t \in 1..p : g[s] = g[t] => s = t
    <2>1. DOMAIN g = 1..p
      BY <1>1, GroupsAssumption
    <2>. QED
      BY <2>1, GroupProcs, GroupsAssumption
  <1>3. \A s \in 1..p : made[g[s]] \in Seq(Part) /\ Len(made[g[s]]) = k
    BY <1>1, <1>2 DEF VectorTypes
  <1>4. PICK parts \in Descriptors(p, k) : parts = [s \in 1..p |-> made[g[s]]]
    <2>1. \A s \in 1..p : made[g[s]] \in [1..k -> Part]
      BY <1>3
    <2>. QED
      BY <2>1 DEF Descriptors
  <1>5. \A s \in 1..p : parts[s] = made[g[s]]
    BY <1>4
  <1>6. dv = Gathered(parts)
    BY <1>1, <1>4 DEF Collected
  <1>7. k * p \in Nat /\ Len(dv) = k * p /\ dv = [j \in 1..(k * p) |-> dv[j]]
    <2>1. /\ k * p \in Nat /\ Len(Gathered(parts)) = k * p
          /\ Gathered(parts) = [j \in 1..(k * p) |-> GetPart(GatheredBuf(parts), j)]
      BY GatheredMany, Zenon
    <2>2. PICK n, b : n = k * p /\ b = GatheredBuf(parts)
      OBVIOUS
    <2>3. n \in Nat /\ Len(dv) = n /\ dv = [j \in 1..n |-> GetPart(b, j)]
      BY <1>6, <2>1, <2>2, Zenon
    <2>4. dv = [j \in 1..n |-> dv[j]]
      BY <2>3
    <2>. QED
      BY <2>2, <2>3, <2>4
  <1>. DEFINE At(s, i) == k * (s - 1) + i
  <1>8. ASSUME NEW s \in 1..p, NEW i \in 1..k
        PROVE  dv[At(s, i)] \in Part /\ dv[At(s, i)].pid = g[s] /\ dv[At(s, i)].resid = made[g[s]][i].resid
    <2>1. LET part == Gathered(parts)[k * (s - 1) + i]
          IN  part \in Part /\ part.pid = parts[s][i].pid /\ part.resid = parts[s][i].resid
              /\ part.size = parts[s][i].size
      BY GatheredKeys, Zenon
    <2>2. dv[At(s, i)] \in Part /\ dv[At(s, i)].pid = parts[s][i].pid /\ dv[At(s, i)].resid = parts[s][i].resid
      BY <1>6, <2>1
    <2>3. made[g[s]][i].pid = g[s]
      BY <1>2, <1>3 DEF KnownInv
    <2>. QED
      BY <1>5, <2>2, <2>3
  <1>9. \A j \in 1..Len(dv) : \E s \in 1..p, i \in 1..k : j = At(s, i)
    <2>1. \A j \in 1..(k * p) : \E s \in 1..p, i \in 1..k : j = k * (s - 1) + i
      BY GatheredPlace, Zenon
    <2>. QED
      BY <1>7, <2>1, Zenon
  <1>. HIDE DEF At
  <1>10. dv \in Seq(Part)
    <2>1. \A j \in 1..Len(dv) : dv[j] \in Part
      BY <1>8, <1>9
    <2>. DEFINE n == k * p
    <2>2. n \in Nat /\ dv = [j \in 1..n |-> dv[j]] /\ \A j \in 1..n : dv[j] \in Part
      BY <1>7, <2>1
    <2>. HIDE DEF n
    <2>. QED
      BY <2>2
  <1>11. ASSUME NEW j \in 1..Len(dv)
         PROVE  \E s \in 1..Len(g) : \E i \in 1..Len(made[g[s]]) :
                    dv[j].pid = g[s] /\ dv[j].resid = made[g[s]][i].resid
    <2>1. PICK s \in 1..p, i \in 1..k : j = At(s, i)
      BY <1>9
    <2>2. dv[j].pid = g[s] /\ dv[j].resid = made[g[s]][i].resid
      BY <1>8, <2>1
    <2>3. s \in 1..Len(g) /\ i \in 1..Len(made[g[s]])
      BY <1>1, <1>3
    <2>. QED
      BY <2>2, <2>3, Zenon
  <1>12. ASSUME NEW j \in 1..Len(dv), NEW l \in 1..Len(dv), SamePart(dv[j], dv[l])
         PROVE  j = l
    <2>1. PICK s \in 1..p, i \in 1..k : j = At(s, i)
      BY <1>9
    <2>2. PICK t \in 1..p, m \in 1..k : l = At(t, m)
      BY <1>9
    <2>3. g[s] = g[t] /\ made[g[s]][i].resid = made[g[t]][m].resid
      BY <1>8, <1>12, <2>1, <2>2 DEF SamePart
    <2>4. s = t
      BY <1>2, <2>3
    <2>5. made[g[s]][i].pid = g[s] /\ made[g[s]][m].pid = g[s]
      BY <1>2, <1>3 DEF KnownInv
    <2>6. SamePart(made[g[s]][i], made[g[s]][m])
      BY <2>3, <2>4, <2>5 DEF SamePart
    <2>7. i \in 1..Len(made[g[s]]) /\ m \in 1..Len(made[g[s]]) /\ g[s] \in Ranks
      BY <1>2, <1>3
    <2>8. i = m
      BY <2>6, <2>7, Zenon DEF PartsApart
    <2>. QED
      BY <2>1, <2>2, <2>4, <2>8
  <1>. QED
    BY <1>10, <1>11, <1>12 DEF MadeBy

LEMMA EndFetchReads ==
    ASSUME KeyInv, ReadInv, NEW g \in Groups, EndFetch(g)
    PROVE  ReadInv'
  <1>0. /\ ReadTypes /\ KnownInv /\ PartsApart /\ JobInv /\ CheckInv /\ ReleaseInv /\ ListedInv /\ KeyTypes
        /\ ReaderTypes /\ AnswerTypes /\ VectorTypes
        /\ \A q \in Procs : ReaderInv(q)
    BY ReadParts DEF KeyInv, ReadTypes
  <1>1. PICK dv, v : dv = Collected(g) /\ v = job[g]
    OBVIOUS
  <1>2. /\ v # None /\ \A s \in DOMAIN g : made[g[s]] # << >>
        /\ dvs' = [dvs EXCEPT ![v] = dv]
        /\ made' = [r \in Ranks |-> IF \E s \in DOMAIN g : g[s] = r THEN << >> ELSE made[r]]
        /\ job' = [job EXCEPT ![g] = None]
        /\ UNCHANGED <<mgmt, reply, answer, store, pending, checking, nextKey, localKey, reader, origin, source, released>>
    BY <1>1 DEF EndFetch, servers, Collected
  <1>3. /\ dv \in Seq(Part)
        /\ \A j \in 1..Len(dv) : \E s \in 1..Len(g) : \E i \in 1..Len(made[g[s]]) :
              dv[j].pid = g[s] /\ dv[j].resid = made[g[s]][i].resid
        /\ \A j, l \in 1..Len(dv) : SamePart(dv[j], dv[l]) => j = l
    <2>1. MadeBy(g, dv)
      BY <1>0, <1>1, <1>2, GatheredMade
    <2>. QED
      BY <2>1 DEF MadeBy
  <1>4. \A s \in 1..Len(g) : s \in DOMAIN g /\ g[s] \in Ranks
    BY GroupProcs, GroupsAssumption
  <1>5. v \in Vectors /\ dvs[v] = << >> /\ origin[v] # None
    BY <1>0, <1>1, <1>2 DEF JobInv, VectorTypes
  <1>6. dvs' \in [Vectors -> Seq(Part)] /\ dvs'[v] = dv /\ \A w \in Vectors \ {v} : dvs'[w] = dvs[w]
    BY <1>0, <1>2, <1>3, <1>5 DEF VectorTypes
  <1>7. /\ made' \in [Ranks -> Seq(Part)]
        /\ \A r \in Ranks : /\ made'[r] = << >> \/ made'[r] = made[r]
                            /\ (\E s \in DOMAIN g : g[s] = r) => made'[r] = << >>
    <2>1. << >> \in Seq(Part)
      OBVIOUS
    <2>. QED
      BY <1>0, <1>2, <2>1 DEF VectorTypes
  <1>8. job' \in [Groups -> Vectors \cup {None}] /\ job'[g] = None /\ \A h \in Groups \ {g} : job'[h] = job[h]
    BY <1>0, <1>2 DEF VectorTypes
  \* The parts of the descriptor are issued, and no other descriptor has them.
  <1>9. ASSUME NEW j \in 1..Len(dv)
        PROVE  /\ dv[j].pid \in Ranks /\ Issued(dv[j].pid, dv[j].resid) /\ made'[dv[j].pid] = << >>
               /\ \A w \in Vectors : \A l \in 1..Len(dvs[w]) : ~ SamePart(dv[j], dvs[w][l])
    <2>1. PICK s \in 1..Len(g) : \E i \in 1..Len(made[g[s]]) : dv[j].pid = g[s] /\ dv[j].resid = made[g[s]][i].resid
      BY <1>3
    <2>2. PICK i \in 1..Len(made[g[s]]) : dv[j].pid = g[s] /\ dv[j].resid = made[g[s]][i].resid
      BY <2>1
    <2>3. g[s] \in Ranks /\ s \in DOMAIN g
      BY <1>4
    <2>4. made[g[s]][i].pid = g[s] /\ Issued(g[s], made[g[s]][i].resid)
      BY <1>0, <2>2, <2>3 DEF KnownInv
    <2>5. ASSUME NEW w \in Vectors, NEW l \in 1..Len(dvs[w]), SamePart(dv[j], dvs[w][l])
          PROVE  FALSE
      <3>1. SamePart(made[g[s]][i], dvs[w][l])
        BY <2>2, <2>4, <2>5 DEF SamePart
      <3>. QED
        BY <1>0, <2>3, <3>1, Zenon DEF PartsApart
    <2>. QED
      BY <1>7, <2>2, <2>3, <2>4, <2>5
  <1>10. PICK at : Kept(at, "none")
    BY <1>2, KeptSame
  <1>11. DvsStay /\ KeysStay /\ ComingStays
    <2>1. \A p \in Ranks : \A key : Coming(p, key)' => Coming(p, key)
      BY <1>2, <1>10, ComingKept
    <2>2. DvsStay
      BY <1>5, <1>6 DEF DvsStay
    <2>. QED
      BY <1>0, <1>2, <2>1, <2>2, SameReply DEF ComingStays
  <1>12. \A q \in Procs, p \in Ranks : \E f : NoNewAsk(q, p, f)
    BY <1>10, KeptAsks
  <1>13. ReadTypes'
    <2>1. ReaderTypes' /\ AnswerTypes'
      BY <1>0, <1>2 DEF ReaderTypes, ReaderOf, AnswerTypes
    <2>2. ASSUME NEW w \in Vectors, NEW i \in 1..Len(dvs'[w]) PROVE dvs'[w][i].pid \in Ranks
      <3>1. CASE w = v
        BY <1>6, <1>9, <2>2, <3>1
      <3>2. CASE w # v
        BY <1>0, <1>6, <2>2, <3>2 DEF VectorTypes
      <3>. QED
        BY <3>1, <3>2
    <2>3. \A r \in Ranks : made'[r] = << >> \/ Len(made'[r]) = PartsPerProc
      BY <1>0, <1>7 DEF VectorTypes
    <2>4. VectorTypes'
      BY <1>0, <1>2, <1>6, <1>7, <1>8, <2>2, <2>3 DEF VectorTypes
    <2>. QED
      BY <2>1, <2>4 DEF ReadTypes
  <1>14. \A r \in Ranks : \A i \in 1..Len(made'[r]) : i \in 1..Len(made[r]) /\ made'[r] = made[r]
    <2>1. Len(<< >>) = 0
      BY IdleRecord
    <2>. QED
      BY <1>7, <2>1
  <1>15. KnownInv'
    <2>1. ASSUME NEW p \in Ranks, NEW key \in DOMAIN pending'[p] PROVE Issued(p, key)'
      BY <1>0, <1>2, <1>11, <2>1 DEF KnownInv, KeysStay
    <2>2. ASSUME NEW w \in Vectors, NEW i \in 1..Len(dvs'[w]) PROVE Issued(dvs[w][i].pid, dvs[w][i].resid)'
      <3>1. dvs'[w][i].pid \in Ranks /\ Issued(dvs'[w][i].pid, dvs'[w][i].resid)
        <4>1. CASE w = v
          BY <1>6, <1>9, <2>2, <4>1
        <4>2. CASE w # v
          BY <1>0, <1>6, <2>2, <4>2 DEF VectorTypes, KnownInv
        <4>. QED
          BY <4>1, <4>2
      <3>2. \A p \in Ranks : \A key : Issued(p, key) => Issued(p, key)'
        BY <1>11 DEF KeysStay
      <3>3. PICK p, key : p = dvs'[w][i].pid /\ key = dvs'[w][i].resid
        OBVIOUS
      <3>4. Issued(p, key)'
        BY <3>1, <3>2, <3>3
      <3>. QED
        BY <3>3, <3>4 DEF Issued, Given, GivenBy, Taken, InReply
    <2>3. ASSUME NEW r \in Ranks, NEW i \in 1..Len(made'[r]) PROVE made'[r][i].pid = r /\ Issued(r, made[r][i].resid)'
      BY <1>0, <1>11, <1>14, <2>3 DEF KnownInv, KeysStay
    <2>. QED
      BY <2>1, <2>2, <2>3 DEF KnownInv
  <1>16. PartsApart'
    <2>1. ASSUME NEW u \in Vectors, NEW w \in Vectors, NEW i \in 1..Len(dvs'[u]), NEW j \in 1..Len(dvs'[w]),
                 SamePart(dvs'[u][i], dvs'[w][j])
          PROVE  u = w /\ i = j
      <3>1. CASE u = v /\ w = v
        BY <1>3, <1>6, <2>1, <3>1
      <3>2. CASE u = v /\ w # v
        BY <1>6, <1>9, <2>1, <3>2
      <3>3. CASE u # v /\ w = v
        <4>1. SamePart(dvs'[w][j], dvs'[u][i])
          BY <2>1 DEF SamePart
        <4>. QED
          BY <1>6, <1>9, <2>1, <3>3, <4>1
      <3>4. CASE u # v /\ w # v
        <4>1. i \in 1..Len(dvs[u]) /\ j \in 1..Len(dvs[w]) /\ SamePart(dvs[u][i], dvs[w][j])
          BY <1>6, <2>1, <3>4
        <4>. QED
          BY <1>0, <4>1, Zenon DEF PartsApart
      <3>. QED
        BY <3>1, <3>2, <3>3, <3>4
    <2>2. ASSUME NEW q \in Ranks, NEW w \in Vectors, NEW i \in 1..Len(made'[q]), NEW j \in 1..Len(dvs'[w])
          PROVE  ~ SamePart(made'[q][i], dvs'[w][j])
      <3>1. i \in 1..Len(made[q]) /\ made'[q] = made[q] /\ made[q][i].pid = q /\ made'[q] # << >>
        <4>1. Len(<< >>) = 0
          BY IdleRecord
        <4>2. i \in 1..Len(made[q]) /\ made'[q] = made[q]
          BY <1>14, <2>2
        <4>. QED
          BY <1>0, <2>2, <4>1, <4>2 DEF KnownInv
      <3>2. CASE w = v
        BY <1>6, <1>9, <2>2, <3>1, <3>2 DEF SamePart
      <3>3. CASE w # v
        <4>1. j \in 1..Len(dvs[w]) /\ dvs'[w] = dvs[w]
          BY <1>6, <2>2, <3>3
        <4>2. ~ SamePart(made[q][i], dvs[w][j])
          BY <1>0, <3>1, <4>1, Zenon DEF PartsApart
        <4>. QED
          BY <3>1, <4>1, <4>2
      <3>. QED
        BY <3>2, <3>3
    <2>3. ASSUME NEW q \in Ranks, NEW i \in 1..Len(made'[q]), NEW j \in 1..Len(made'[q]),
                 SamePart(made'[q][i], made'[q][j])
          PROVE  i = j
      <3>1. i \in 1..Len(made[q]) /\ j \in 1..Len(made[q]) /\ SamePart(made[q][i], made[q][j])
        BY <1>14, <2>3
      <3>. QED
        BY <1>0, <3>1, Zenon DEF PartsApart
    <2>. QED
      BY <2>1, <2>2, <2>3, Zenon DEF PartsApart, SamePart
  <1>17. JobInv'
    <2>1. ASSUME NEW h \in Groups, job'[h] # None
          PROVE  /\ h # g /\ job'[h] = job[h] /\ job[h] \in Vectors /\ job[h] # v
                 /\ dvs'[job'[h]] = << >> /\ origin'[job'[h]] # None
                 /\ source'[job'[h]] \in Vectors /\ source'[job'[h]] \notin released'
      <3>1. h # g /\ job'[h] = job[h] /\ job[h] # None /\ job[h] \in Vectors
        BY <1>0, <1>8, <2>1 DEF VectorTypes
      <3>2. job[h] # v
        BY <1>0, <1>1, <1>2, <3>1 DEF JobInv
      <3>. QED
        BY <1>0, <1>2, <1>6, <3>1, <3>2 DEF JobInv
    <2>2. ASSUME NEW h \in Groups, NEW k \in Groups, job'[h] # None, job'[k] # None, h # k
          PROVE  ~ Share(h, k) /\ job'[h] # job'[k]
      BY <1>0, <2>1, <2>2 DEF JobInv
    <2>3. ASSUME NEW w \in Vectors, dvs'[w] # << >> PROVE origin'[w] # None
      BY <1>0, <1>2, <1>5, <1>6, <2>3 DEF JobInv
    <2>4. ASSUME reader'[Client].pc = "distributing"
          PROVE  /\ reader'[Client].vec \in Vectors
                 /\ dvs'[reader'[Client].vec] = << >> /\ origin'[reader'[Client].vec] # None
                 /\ \A h \in Groups : job'[h] # reader'[Client].vec
      <3>1. /\ reader[Client].vec \in Vectors
            /\ dvs[reader[Client].vec] = << >> /\ origin[reader[Client].vec] # None
            /\ \A h \in Groups : job[h] # reader[Client].vec
        BY <1>0, <1>2, <2>4 DEF JobInv
      <3>2. reader[Client].vec # v /\ reader'[Client].vec = reader[Client].vec /\ reader[Client].vec # None
        BY <1>1, <1>2, <3>1 DEF Vectors, None
      <3>. QED
        BY <1>2, <1>6, <1>8, <3>1, <3>2
    <2>. QED
      BY <2>1, <2>2, <2>3, <2>4 DEF JobInv, Share
  <1>18. CheckInv'
    BY <1>0, <1>2 DEF CheckInv
  <1>19. ReleaseInv'
    BY <1>0, <1>2, <1>10, <1>11, ReleaseKept
  <1>20. \A q \in Procs : SameReader(q)
    BY <1>2, SameRecord
  <1>21. ListedInv'
    <2>1. ASSUME NEW q \in Procs, NEW p \in Ranks
          PROVE  SameRange(q) /\ (Asking(q, p)' => Asking(q, p))
      BY <1>12, <1>20, NoNewAsking DEF SameReader
    <2>. QED
      BY <1>0, <1>2, <1>11, <2>1, ListedKept
  <1>22. ASSUME NEW q \in Procs
         PROVE  ReaderInv(q)' /\ \A p \in Ranks : AskInv(q, p)' /\ CountInv(q, p)'
    <2>1. Active(q) => reader[q].vec \notin released'
      BY <1>0, <1>2 DEF ReaderInv
    <2>. QED
      BY <1>2, <1>11, <1>12, <1>20, <2>1, ReaderStays
  <1>. QED
    BY <1>13, <1>15, <1>16, <1>17, <1>18, <1>19, <1>21, <1>22, ReadWhole

-----------------------------------------------------------------------------
\* The program stores the parts of a vector it distributed.

\* Part k of the descriptor dv is the one message m carries to p.
Carries(dv, p, m) == m.type = "STORE" /\ \E k \in 1..Len(dv) : dv[k].pid = p /\ dv[k].resid = m.resid

LEMMA StorePartsEffect ==
    ASSUME KeyInv, NEW h \in Ranks, StoreParts(h), NEW dv, dv = reply[h][1]
    PROVE  /\ 1 \in 1..Len(reply[h]) /\ IsSeq(dv)
           /\ dvs' = [dvs EXCEPT ![reader[Client].vec] = dv]
           /\ \A q \in Ranks : \A i \in 1..Len(reply'[q]) : \E j \in 1..Len(reply[q]) :
                 reply'[q][i] = reply[q][j] /\ (q = h => j # 1)
           /\ \A c \in Procs, p \in Ranks : \A i \in 1..Len(mgmt'[c][p]) :
                 \/ i \in 1..Len(mgmt[c][p]) /\ mgmt'[c][p][i] = mgmt[c][p][i]
                 \/ Carries(dv, p, mgmt'[c][p][i])
  <1>0. KeyTypes
    BY DEF KeyInv
  <1>. DEFINE v == reader[Client].vec
              s == reply[h]
              hd == Head(s)
              n == Len(hd)
              mail == [i \in 1..n |-> [to |-> hd[i].pid, msg |-> StoreMsg(hd[i].resid, Bytes(v, hd[i]))]]
  <1>1. /\ s # << >> /\ reply' = [reply EXCEPT ![h] = Tail(s)]
        /\ mgmt' = SendAll(Client, mail) /\ dvs' = [dvs EXCEPT ![v] = hd]
    BY <1>0 DEF StoreParts, KeyTypes
  <1>2. IsSeq(s) /\ DOMAIN reply = Ranks
    BY <1>0 DEF KeyTypes
  <1>3. hd = dv /\ 1 \in 1..Len(s)
    <2>. HIDE DEF s, mail
    <2>1. Head(s) = s[1] /\ Len(s) >= 1 /\ Len(s) \in Nat
      BY ONLY <1>1, <1>2, TailOf DEF IsSeq
    <2>. QED
      BY <2>1 DEF s
  <1>4. \A i \in 1..Len(Tail(s)) : Tail(s)[i] = s[i + 1] /\ i + 1 \in 1..Len(s) /\ i + 1 # 1
    <2>. HIDE DEF s, mail
    <2>1. \A i \in 1..Len(Tail(s)) : Tail(s)[i] = s[i + 1] /\ i + 1 \in 1..Len(s)
      BY ONLY <1>1, <1>2, TailOf
    <2>2. \A i \in 1..Len(Tail(s)) : i + 1 # 1
      OBVIOUS
    <2>. QED
      BY <2>1, <2>2
  <1>5. IsSeq(hd) /\ n \in Nat
    BY <1>0, <1>3 DEF KeyTypes, IsSeq
  <1>6. DOMAIN mail = 1..n /\ \A k \in 1..n : /\ mail[k].to = hd[k].pid /\ mail[k].msg.type = "STORE"
                                              /\ mail[k].msg.resid = hd[k].resid
    BY <1>5 DEF StoreMsg
  <1>7. /\ reply'[h] = Tail(s)
        /\ \A q \in Ranks : q # h => reply'[q] = reply[q]
    BY <1>1, <1>2
  <1>. HIDE DEF mail, n, hd, v, s
  <1>8. Client \in Procs
    BY DEF Procs
  <1>9. /\ \A d \in Procs \ {Client} : mgmt'[d] = mgmt[d]
        /\ \A p \in Ranks : \A i \in 1..Len(mgmt[Client][p]) : mgmt'[Client][p][i] = mgmt[Client][p][i]
        /\ \A p \in Ranks : \A i \in 1..Len(mgmt'[Client][p]) : i \notin 1..Len(mgmt[Client][p]) =>
              /\ Place(Client, mail, p, i) \in 1..n /\ mail[Place(Client, mail, p, i)].to = p
              /\ mgmt'[Client][p][i] = mail[Place(Client, mail, p, i)].msg
    BY <1>0, <1>1, <1>5, <1>6, <1>8, SendAllEffect
  <1>10. ASSUME NEW p \in Ranks, NEW i \in 1..Len(mgmt'[Client][p]), i \notin 1..Len(mgmt[Client][p])
         PROVE  Carries(dv, p, mgmt'[Client][p][i])
    <2>1. PICK k : k = Place(Client, mail, p, i)
      OBVIOUS
    <2>2. k \in 1..n /\ mail[k].to = p /\ mgmt'[Client][p][i] = mail[k].msg
      BY <1>9, <1>10, <2>1
    <2>3. k \in 1..Len(dv) /\ dv[k].pid = p /\ dv[k].resid = mgmt'[Client][p][i].resid
      BY <1>3, <1>6, <2>2 DEF n
    <2>. QED
      BY <1>6, <2>2, <2>3 DEF Carries
  <1>11. ASSUME NEW c \in Procs, NEW p \in Ranks, NEW i \in 1..Len(mgmt'[c][p])
         PROVE  \/ i \in 1..Len(mgmt[c][p]) /\ mgmt'[c][p][i] = mgmt[c][p][i]
                \/ Carries(dv, p, mgmt'[c][p][i])
    <2>1. CASE c # Client
      <3>1. mgmt'[c] = mgmt[c]
        BY <1>9, <2>1
      <3>. QED
        BY <1>11, <3>1
    <2>2. CASE c = Client
      BY <1>9, <1>10, <1>11, <2>2
    <2>. QED
      BY <2>1, <2>2
  <1>12. ASSUME NEW q \in Ranks, NEW i \in 1..Len(reply'[q])
         PROVE  \E j \in 1..Len(reply[q]) : reply'[q][i] = reply[q][j] /\ (q = h => j # 1)
    <2>1. CASE q = h
      <3>1. PICK j : j = i + 1
        OBVIOUS
      <3>2. j \in 1..Len(s) /\ j # 1 /\ reply'[q][i] = s[j]
        BY <1>4, <1>7, <1>12, <2>1, <3>1
      <3>. QED
        BY <2>1, <3>2 DEF s
    <2>2. CASE q # h
      <3>1. i \in 1..Len(reply[q]) /\ reply'[q] = reply[q]
        BY <1>7, <1>12, <2>2
      <3>. QED
        BY <2>2, <3>1
    <2>. QED
      BY <2>1, <2>2
  <1>13. 1 \in 1..Len(reply[h]) /\ IsSeq(dv) /\ dvs' = [dvs EXCEPT ![reader[Client].vec] = dv]
    BY <1>1, <1>3, <1>5 DEF s, v
  <1>. QED
    BY <1>11, <1>12, <1>13, Zenon

\* What ApartInv says of two parts.
Differ(h, i, k, j, l) == reply[h][i][k].resid # reply[h][j][l].resid

LEMMA ApartOne ==
    ASSUME ApartInv, NEW h \in Ranks, NEW i \in 1..Len(reply[h]), NEW j \in 1..Len(reply[h]),
           NEW k \in 1..Len(reply[h][i]), NEW l \in 1..Len(reply[h][j]), i # j \/ k # l
    PROVE  Differ(h, i, k, j, l)
  BY ZenonT(60) DEF ApartInv, Differ

\* The keys of the descriptor: they are known to nobody, and then to everybody.
LEMMA StorePartsIssues ==
    ASSUME SameHead, KeyInv, NEW h \in Ranks, StoreParts(h), NEW dv, dv = reply[h][1]
    PROVE  /\ \A p \in Ranks : \A key : InReply(p, key)' => InReply(p, key)
           /\ \A k \in 1..Len(dv) :
                 /\ dv[k].pid \in Ranks /\ InReply(dv[k].pid, dv[k].resid) /\ Issued(dv[k].pid, dv[k].resid)'
           /\ \A k, l \in 1..Len(dv) : dv[k].resid = dv[l].resid => k = l
  <1>0. KeyTypes /\ NewInv /\ ApartInv
    BY DEF KeyInv
  <1>1. /\ 1 \in 1..Len(reply[h]) /\ localKey' = localKey /\ nextKey' = nextKey
        /\ \A q \in Ranks : \A i \in 1..Len(reply'[q]) : \E j \in 1..Len(reply[q]) :
              reply'[q][i] = reply[q][j] /\ (q = h => j # 1)
    BY StorePartsEffect DEF StoreParts
  <1>2. \A k \in 1..Len(dv) : NewKey(h, dv[k])
    BY <1>0, <1>1 DEF NewInv
  <1>3. ASSUME NEW k \in 1..Len(dv), NEW l \in 1..Len(dv), k # l
        PROVE  dv[k].resid # dv[l].resid
    <2>1. k \in 1..Len(reply[h][1]) /\ l \in 1..Len(reply[h][1])
      OBVIOUS
    <2>2. Differ(h, 1, k, 1, l)
      BY <1>0, <1>1, <1>3, <2>1, ApartOne
    <2>. QED
      BY <2>2 DEF Differ
  <1>4. ASSUME NEW p \in Ranks, NEW key, InReply(p, key)'
        PROVE  /\ InReply(p, key)
               /\ \A k \in 1..Len(dv) : ~ (dv[k].pid = p /\ dv[k].resid = key)
    <2>1. PICK q \in Ranks : \E i \in 1..Len(reply'[q]) : \E k \in 1..Len(reply'[q][i]) :
              reply'[q][i][k].pid = p /\ reply'[q][i][k].resid = key
      BY <1>4, Zenon DEF InReply
    <2>2. PICK i \in 1..Len(reply'[q]) : \E k \in 1..Len(reply'[q][i]) :
              reply'[q][i][k].pid = p /\ reply'[q][i][k].resid = key
      BY <2>1, Zenon
    <2>3. PICK j \in 1..Len(reply[q]) : reply'[q][i] = reply[q][j] /\ (q = h => j # 1)
      BY <1>1
    <2>4. PICK l \in 1..Len(reply[q][j]) : reply[q][j][l].pid = p /\ reply[q][j][l].resid = key
      BY <2>2, <2>3
    <2>5. InReply(p, key)
      BY <2>4, Zenon DEF InReply
    <2>6. ASSUME NEW k \in 1..Len(dv), dv[k].pid = p, dv[k].resid = key
          PROVE  FALSE
      <3>1. NewKey(q, reply[q][j][l]) /\ NewKey(h, dv[k])
        BY <1>0, <1>2, <2>4 DEF NewInv
      <3>2. GivenBy(p, q) /\ GivenBy(p, h)
        BY <2>4, <2>6, <3>1 DEF NewKey
      <3>3. q = h
        BY <3>2, OneHead
      <3>4. /\ j \in 1..Len(reply[h]) /\ j # 1 /\ l \in 1..Len(reply[h][j]) /\ k \in 1..Len(reply[h][1])
            /\ reply[h][j][l].resid = key /\ reply[h][1][k].resid = key
        BY <2>3, <2>4, <2>6, <3>3
      <3>5. Differ(h, j, l, 1, k)
        BY <1>0, <1>1, <3>4, ApartOne
      <3>. QED
        BY <3>4, <3>5 DEF Differ
    <2>. QED
      BY <2>5, <2>6
  <1>5. ASSUME NEW k \in 1..Len(dv)
        PROVE  /\ dv[k].pid \in Ranks /\ InReply(dv[k].pid, dv[k].resid) /\ Issued(dv[k].pid, dv[k].resid)'
    <2>1. /\ dv[k].pid \in Ranks /\ dv[k].resid \in Int
          /\ GivenBy(dv[k].pid, h) /\ localKey[h] < dv[k].resid /\ dv[k].resid <= -1
      BY <1>2 DEF NewKey
    <2>2. Given(dv[k].pid, dv[k].resid)'
      BY <1>1, <2>1 DEF Given, GivenBy
    <2>3. InReply(dv[k].pid, dv[k].resid)
      BY <1>1 DEF InReply
    <2>4. ~ InReply(dv[k].pid, dv[k].resid)'
      <3>1. PICK p, key : p \in Ranks /\ p = dv[k].pid /\ key = dv[k].resid
        BY <2>1
      <3>2. ~ InReply(p, key)'
        BY <1>4, <3>1
      <3>. QED
        BY <3>1, <3>2 DEF InReply
    <2>. QED
      BY <2>1, <2>2, <2>3, <2>4 DEF Issued
  <1>. QED
    BY <1>3, <1>4, <1>5

LEMMA StorePartsReads ==
    ASSUME SameHead, KeyInv, ReadInv, NEW h \in Ranks, StoreParts(h)
    PROVE  ReadInv'
  <1>0. /\ ReadTypes /\ KnownInv /\ PartsApart /\ JobInv /\ CheckInv /\ ReleaseInv /\ ListedInv /\ KeyTypes
        /\ ReaderTypes /\ AnswerTypes /\ VectorTypes
        /\ Client \in Procs /\ \A q \in Procs : ReaderInv(q)
    BY ReadParts DEF KeyInv, ReadTypes, Procs
  <1>1. PICK dv, v : dv = reply[h][1] /\ v = reader[Client].vec
    OBVIOUS
  <1>2. /\ reader[Client].pc = "distributing"
        /\ reader' = [reader EXCEPT ![Client] = Idle]
        /\ UNCHANGED <<answer, store, pending, checking, nextKey, localKey, origin, source, job, made, released>>
    BY DEF StoreParts, servers
  <1>3. /\ 1 \in 1..Len(reply[h]) /\ IsSeq(dv)
        /\ dvs' = [dvs EXCEPT ![v] = dv]
        /\ \A q \in Ranks : \A i \in 1..Len(reply'[q]) : \E j \in 1..Len(reply[q]) :
              reply'[q][i] = reply[q][j] /\ (q = h => j # 1)
        /\ \A c \in Procs, p \in Ranks : \A i \in 1..Len(mgmt'[c][p]) :
              \/ i \in 1..Len(mgmt[c][p]) /\ mgmt'[c][p][i] = mgmt[c][p][i]
              \/ Carries(dv, p, mgmt'[c][p][i])
    BY <1>1, StorePartsEffect
  <1>4. /\ \A p \in Ranks : \A key : InReply(p, key)' => InReply(p, key)
        /\ \A k \in 1..Len(dv) :
              /\ dv[k].pid \in Ranks /\ InReply(dv[k].pid, dv[k].resid) /\ Issued(dv[k].pid, dv[k].resid)'
        /\ \A k, l \in 1..Len(dv) : dv[k].resid = dv[l].resid => k = l
    BY <1>1, StorePartsIssues
  <1>5. /\ v \in Vectors /\ dvs[v] = << >> /\ origin[v] # None /\ (\A g \in Groups : job[g] # v)
        /\ dv \in Seq(Part)
    BY <1>0, <1>1, <1>2, <1>3 DEF JobInv, VectorTypes
  <1>6. dvs' \in [Vectors -> Seq(Part)] /\ dvs'[v] = dv /\ \A w \in Vectors \ {v} : dvs'[w] = dvs[w]
    BY <1>0, <1>3, <1>5 DEF VectorTypes
  <1>7. /\ ReaderTypes' /\ \A q \in Procs \ {Client} : SameReader(q)
        /\ reader'[Client].pc = "idle" /\ reader'[Client].vec = None
    BY <1>0, <1>2, ReaderIdle
  <1>8. PICK at : Kept(at, "STORE")
    <2>1. ASSUME NEW c \in Procs, NEW p \in Ranks, NEW i \in 1..Len(mgmt'[c][p])
          PROVE  \/ i \in 1..Len(mgmt[c][p]) /\ mgmt'[c][p][i] = mgmt[c][p][i]
                 \/ mgmt'[c][p][i].type = "STORE"
      BY <1>3, <2>1 DEF Carries
    <2>. QED
      BY <2>1, KeptGrown
  <1>9. \A q \in Procs, p \in Ranks : \E f : NoNewAsk(q, p, f)
    BY <1>8, KeptAsks
  <1>10. KeysStay /\ DvsStay
    <2>1. CountersGrow
      BY <1>0, <1>2, CountersStay
    <2>2. DvsStay
      BY <1>5, <1>6 DEF DvsStay
    <2>. QED
      BY <1>0, <1>4, <2>1, <2>2, KeysStayIssued
  <1>11. ComingStays
    <2>. SUFFICES ASSUME NEW p \in Ranks, NEW key, Issued(p, key), Coming(p, key)'
                  PROVE  Coming(p, key)
      BY DEF ComingStays
    <2>1. CASE key \in checking'[p]
      BY <1>2, <2>1 DEF Coming
    <2>2. CASE \E c \in Procs : \E i \in 1..Len(mgmt'[c][p]) : Storing(c, p, i)' /\ mgmt'[c][p][i].resid = key
      <3>1. PICK c \in Procs : \E i \in 1..Len(mgmt'[c][p]) : Storing(c, p, i)' /\ mgmt'[c][p][i].resid = key
        BY <2>2
      <3>2. PICK i \in 1..Len(mgmt'[c][p]) : Storing(c, p, i)' /\ mgmt'[c][p][i].resid = key
        BY <3>1
      <3>3. ~ Carries(dv, p, mgmt'[c][p][i])
        <4>1. ASSUME NEW k \in 1..Len(dv), dv[k].pid = p, dv[k].resid = key PROVE FALSE
          BY <1>4, <4>1 DEF Issued
        <4>. QED
          BY <3>2, <4>1 DEF Carries
      <3>4. i \in 1..Len(mgmt[c][p]) /\ mgmt'[c][p][i] = mgmt[c][p][i]
        BY <1>3, <3>3
      <3>5. Storing(c, p, i) /\ mgmt[c][p][i].resid = key
        BY <3>2, <3>4 DEF Storing
      <3>. QED
        BY <3>4, <3>5 DEF Coming
    <2>. QED
      BY <2>1, <2>2 DEF Coming
  <1>12. ReadTypes'
    <2>1. ASSUME NEW w \in Vectors, NEW i \in 1..Len(dvs'[w]) PROVE dvs'[w][i].pid \in Ranks
      <3>1. CASE w = v
        BY <1>4, <1>6, <2>1, <3>1
      <3>2. CASE w # v
        BY <1>0, <1>6, <2>1, <3>2 DEF VectorTypes
      <3>. QED
        BY <3>1, <3>2
    <2>2. \A q \in Ranks : \A i \in 1..Len(reply'[q]) : reply'[q][i] \in Seq(Part)
      BY <1>0, <1>3 DEF VectorTypes
    <2>3. VectorTypes'
      BY <1>0, <1>2, <1>6, <2>1, <2>2 DEF VectorTypes
    <2>4. AnswerTypes'
      BY <1>0, <1>2 DEF AnswerTypes
    <2>. QED
      BY <1>7, <2>3, <2>4 DEF ReadTypes
  \* No one knew the parts of the descriptor.
  <1>13. ASSUME NEW p \in Ranks, NEW key, Issued(p, key), NEW k \in 1..Len(dv)
         PROVE  ~ (dv[k].pid = p /\ dv[k].resid = key)
    BY <1>4, <1>13 DEF Issued
  <1>14. ASSUME NEW w \in Vectors, NEW l \in 1..Len(dvs[w])
         PROVE  dvs[w][l].pid \in Ranks /\ Issued(dvs[w][l].pid, dvs[w][l].resid)
    BY <1>0, <1>14 DEF KnownInv, VectorTypes
  <1>15. KnownInv'
    <2>1. ASSUME NEW p \in Ranks, NEW key \in DOMAIN pending'[p] PROVE Issued(p, key)'
      BY <1>0, <1>2, <1>10, <2>1 DEF KnownInv, KeysStay
    <2>2. ASSUME NEW w \in Vectors, NEW i \in 1..Len(dvs'[w]) PROVE Issued(dvs[w][i].pid, dvs[w][i].resid)'
      <3>1. PICK p, key : p = dvs'[w][i].pid /\ key = dvs'[w][i].resid
        OBVIOUS
      <3>2. Issued(p, key)'
        <4>1. CASE w = v
          <5>1. i \in 1..Len(dv) /\ p = dv[i].pid /\ key = dv[i].resid
            BY <1>6, <2>2, <3>1, <4>1
          <5>2. Issued(dv[i].pid, dv[i].resid)'
            BY <1>4, <5>1
          <5>. QED
            BY <5>1, <5>2 DEF Issued, Given, GivenBy, Taken, InReply
        <4>2. CASE w # v
          <5>1. p \in Ranks /\ Issued(p, key)
            BY <1>6, <1>14, <2>2, <3>1, <4>2
          <5>. QED
            BY <1>10, <5>1 DEF KeysStay
        <4>. QED
          BY <4>1, <4>2
      <3>. QED
        BY <3>1, <3>2 DEF Issued, Given, GivenBy, Taken, InReply
    <2>3. ASSUME NEW r \in Ranks, NEW i \in 1..Len(made'[r]) PROVE made'[r][i].pid = r /\ Issued(r, made[r][i].resid)'
      BY <1>0, <1>2, <1>10, <2>3 DEF KnownInv, KeysStay
    <2>. QED
      BY <2>1, <2>2, <2>3 DEF KnownInv
  <1>16. PartsApart'
    <2>1. ASSUME NEW u \in Vectors, NEW w \in Vectors, NEW i \in 1..Len(dvs'[u]), NEW j \in 1..Len(dvs'[w]),
                 SamePart(dvs'[u][i], dvs'[w][j])
          PROVE  u = w /\ i = j
      <3>1. CASE u = v /\ w = v
        BY <1>4, <1>6, <2>1, <3>1 DEF SamePart
      <3>2. CASE u = v /\ w # v
        BY <1>6, <1>13, <1>14, <2>1, <3>2 DEF SamePart
      <3>3. CASE u # v /\ w = v
        BY <1>6, <1>13, <1>14, <2>1, <3>3 DEF SamePart
      <3>4. CASE u # v /\ w # v
        <4>1. i \in 1..Len(dvs[u]) /\ j \in 1..Len(dvs[w]) /\ SamePart(dvs[u][i], dvs[w][j])
          BY <1>6, <2>1, <3>4
        <4>. QED
          BY <1>0, <4>1, Zenon DEF PartsApart
      <3>. QED
        BY <3>1, <3>2, <3>3, <3>4
    <2>2. ASSUME NEW q \in Ranks, NEW w \in Vectors, NEW i \in 1..Len(made'[q]), NEW j \in 1..Len(dvs'[w])
          PROVE  ~ SamePart(made'[q][i], dvs'[w][j])
      <3>1. i \in 1..Len(made[q]) /\ made'[q] = made[q] /\ made[q][i].pid = q /\ Issued(q, made[q][i].resid)
        BY <1>0, <1>2, <2>2 DEF KnownInv
      <3>2. CASE w = v
        BY <1>6, <1>13, <2>2, <3>1, <3>2 DEF SamePart
      <3>3. CASE w # v
        <4>1. j \in 1..Len(dvs[w]) /\ dvs'[w] = dvs[w]
          BY <1>6, <2>2, <3>3
        <4>2. ~ SamePart(made[q][i], dvs[w][j])
          BY <1>0, <3>1, <4>1, Zenon DEF PartsApart
        <4>. QED
          BY <3>1, <4>1, <4>2
      <3>. QED
        BY <3>2, <3>3
    <2>3. ASSUME NEW q \in Ranks, NEW i \in 1..Len(made'[q]), NEW j \in 1..Len(made'[q]),
                 SamePart(made'[q][i], made'[q][j])
          PROVE  i = j
      <3>1. i \in 1..Len(made[q]) /\ j \in 1..Len(made[q]) /\ SamePart(made[q][i], made[q][j])
        BY <1>2, <2>3
      <3>. QED
        BY <1>0, <3>1, Zenon DEF PartsApart
    <2>. QED
      BY <2>1, <2>2, <2>3, Zenon DEF PartsApart, SamePart
  <1>17. JobInv'
    <2>1. ASSUME NEW g \in Groups, job'[g] # None
          PROVE  /\ dvs'[job'[g]] = << >> /\ origin'[job'[g]] # None
                 /\ source'[job'[g]] \in Vectors /\ source'[job'[g]] \notin released'
      <3>1. job'[g] = job[g] /\ job[g] \in Vectors /\ job[g] # v
        BY <1>0, <1>2, <1>5, <2>1 DEF VectorTypes
      <3>. QED
        BY <1>0, <1>2, <1>6, <2>1, <3>1 DEF JobInv
    <2>2. \A g, k \in Groups : job'[g] # None /\ job'[k] # None /\ g # k => ~ Share(g, k) /\ job'[g] # job'[k]
      BY <1>0, <1>2 DEF JobInv
    <2>3. ASSUME NEW w \in Vectors, dvs'[w] # << >> PROVE origin'[w] # None
      BY <1>0, <1>2, <1>5, <1>6, <2>3 DEF JobInv
    <2>4. reader'[Client].pc # "distributing"
      BY <1>7
    <2>. QED
      BY <2>1, <2>2, <2>3, <2>4 DEF JobInv, Share
  <1>18. CheckInv'
    BY <1>0, <1>2 DEF CheckInv
  <1>19. ReleaseInv'
    BY <1>0, <1>2, <1>8, <1>10, ReleaseKept
  <1>20. ListedInv'
    <2>1. ASSUME NEW q \in Procs, NEW p \in Ranks, Receiving(q)
          PROVE  SameRange(q) /\ (Asking(q, p)' => Asking(q, p))
      <3>1. q # Client
        BY <1>2, <2>1 DEF Receiving
      <3>. QED
        BY <1>7, <1>9, <3>1, NoNewAsking DEF SameReader
    <2>. QED
      BY <1>0, <1>2, <1>10, <1>11, <2>1, ListedKept
  <1>21. ASSUME NEW q \in Procs
         PROVE  ReaderInv(q)' /\ \A p \in Ranks : AskInv(q, p)' /\ CountInv(q, p)'
    <2>1. CASE q = Client
      <3>1. ~ Active(Client) /\ ~ Active(Client)'
        BY <1>2, <1>7 DEF Active
      <3>2. ReaderInv(Client)'
        BY <1>7, <3>1 DEF ReaderInv
      <3>3. ASSUME NEW p \in Ranks PROVE AskInv(Client, p)' /\ CountInv(Client, p)'
        <4>1. PICK f : NoNewAsk(Client, p, f)
          BY <1>0, <1>9
        <4>. QED
          BY <1>0, <1>2, <3>1, <4>1, RestsStill
      <3>. QED
        BY <2>1, <3>2, <3>3
    <2>2. CASE q # Client
      <3>1. Active(q) => reader[q].vec \notin released'
        BY <1>0, <1>2 DEF ReaderInv
      <3>. QED
        BY <1>2, <1>7, <1>9, <1>10, <2>2, <3>1, ReaderStays
    <2>. QED
      BY <2>1, <2>2
  <1>. QED
    BY <1>12, <1>15, <1>16, <1>17, <1>18, <1>19, <1>20, <1>21, ReadWhole

-----------------------------------------------------------------------------
\* Every step.

LEMMA InitReads ==
    ASSUME Init
    PROVE  ReadInv
  <1>0. Client \in Procs /\ None \in Vectors \cup {None} /\ 0 \in Nat /\ 0 \in Int
    BY DEF Procs
  <1>1. IsSeq(<< >>) /\ Len(<< >>) = 0 /\ << >> \in Seq(Part) /\ DOMAIN << >> = {}
    <2>1. << >> \in Seq(Part) /\ DOMAIN << >> = {}
      OBVIOUS
    <2>. QED
      BY <2>1, IdleRecord
  <1>2. /\ \A c \in Procs, p \in Ranks : mgmt[c][p] = << >>
        /\ \A h \in Ranks : reply[h] = << >>
        /\ \A p \in Ranks : pending[p] = << >> /\ checking[p] = {} /\ made[p] = << >>
        /\ \A p \in Ranks : DOMAIN answer[p] = Procs /\ \A r \in Procs : answer[p][r] = << >>
        /\ \A v \in Vectors : dvs[v] = << >>
        /\ \A g \in Groups : job[g] = None
        /\ released = {}
    BY DEF Init
  <1>3. /\ DOMAIN answer = Ranks /\ DOMAIN pending = Ranks /\ DOMAIN checking = Ranks /\ DOMAIN reader = Procs
        /\ dvs \in [Vectors -> Seq(Part)] /\ made \in [Ranks -> Seq(Part)]
        /\ job \in [Groups -> Vectors \cup {None}]
        /\ source \in [Vectors -> Vectors \cup {None}] /\ origin \in [Vectors -> Vectors \cup {None}]
    BY <1>1 DEF Init
  <1>4. ASSUME NEW r \in Procs
        PROVE  /\ reader[r] = ReaderOf(r) /\ reader[r].pc = "idle" /\ reader[r].vec = None
               /\ reader[r].first = 0 /\ reader[r].size = 0 /\ reader[r].local = << >>
               /\ DOMAIN reader[r].asked = Ranks /\ \A p \in Ranks : reader[r].asked[p] = << >>
    <2>. DEFINE a == [p \in Ranks |-> << >>]
    <2>1. Idle = [pc |-> "idle", vec |-> None, first |-> 0, size |-> 0, local |-> << >>, asked |-> a, buf |-> << >>]
      BY IdleRecord
    <2>2. DOMAIN a = Ranks /\ \A p \in Ranks : a[p] = << >>
      OBVIOUS
    <2>3. reader[r] = Idle
      BY DEF Init
    <2>. HIDE DEF a
    <2>. QED
      BY <2>1, <2>2, <2>3 DEF ReaderOf
  <1>5. ReadTypes
    <2>1. ReaderTypes
      BY <1>0, <1>1, <1>3, <1>4 DEF ReaderTypes
    <2>2. AnswerTypes
      BY <1>1, <1>2, <1>3 DEF AnswerTypes
    <2>3. VectorTypes
      BY <1>1, <1>2, <1>3 DEF VectorTypes
    <2>. QED
      BY <2>1, <2>2, <2>3 DEF ReadTypes
  <1>6. KnownInv /\ PartsApart /\ ListedInv
    BY <1>1, <1>2 DEF KnownInv, PartsApart, ListedInv
  <1>7. JobInv /\ CheckInv /\ ReleaseInv
    BY <1>0, <1>1, <1>2, <1>4 DEF JobInv, CheckInv, ReleaseInv
  <1>8. ASSUME NEW r \in Procs
        PROVE  ReaderInv(r) /\ \A p \in Ranks : AskInv(r, p) /\ CountInv(r, p)
    <2>1. ~ Active(r)
      BY <1>4 DEF Active
    <2>. QED
      BY <1>1, <1>2, <1>4, <2>1 DEF ReaderInv, AskInv, CountInv
  <1>. QED
    BY <1>5, <1>6, <1>7, <1>8 DEF ReadInv

LEMMA ServerReads ==
    ASSUME SameHead, KeyInv, ReadInv, NEW p \in Ranks, ServerStep(p) \/ SpuriousWakeup(p)
    PROVE  ReadInv'
  <1>1. ASSUME NEW c \in Procs, HandleDistribute(c, p) PROVE ReadInv'
    BY <1>1, HandleDistributeReads
  <1>2. ASSUME NEW c \in Procs, HandleStore(c, p) PROVE ReadInv'
    BY <1>2, HandleStoreReads
  <1>3. ASSUME NEW c \in Procs, HandleGet(c, p) PROVE ReadInv'
    BY <1>3, HandleGetReads
  <1>4. ASSUME NEW c \in Procs, HandleRelease(c, p) PROVE ReadInv'
    BY <1>4, HandleReleaseReads
  <1>5. CASE CheckDvPartRequired(p)
    BY <1>5, CheckDvPartReads
  <1>6. CASE SpuriousWakeup(p)
    BY <1>6, SpuriousWakeupReads DEF Procs
  <1>. QED
    BY <1>1, <1>2, <1>3, <1>4, <1>5, <1>6 DEF ServerStep

LEMMA ReaderReads ==
    ASSUME KeyInv, ReadInv, NEW r \in Procs, ReaderStep(r)
    PROVE  ReadInv'
  BY AskPiecesReads, ReceivePieceReads DEF ReaderStep

LEMMA ActorReads ==
    ASSUME KeyInv, ReadInv, NEW g \in Groups, ActorStep(g)
    PROVE  ReadInv'
  <1>1. \A s \in DOMAIN g : g[s] \in Ranks /\ g[s] \in Procs
    BY GroupProcs DEF Procs
  <1>2. ASSUME NEW s \in DOMAIN g, StartFetch(g, s) PROVE ReadInv'
    BY <1>2, StartFetchReads
  <1>3. ASSUME NEW s \in DOMAIN g, ReadLocal(g[s]) PROVE ReadInv'
    BY <1>1, <1>3, ReadLocalReads
  <1>4. ASSUME NEW s \in DOMAIN g, ReaderStep(g[s]) PROVE ReadInv'
    BY <1>1, <1>4, ReaderReads
  <1>5. ASSUME NEW s \in DOMAIN g, NEW extra \in Misdeclared, StoreAndRegister(g, g[s], extra) PROVE ReadInv'
    BY <1>1, <1>5, StoreAndRegisterReads
  <1>6. CASE EndFetch(g)
    BY <1>6, EndFetchReads
  <1>. QED
    BY <1>2, <1>3, <1>4, <1>5, <1>6 DEF ActorStep, WorkerStep

LEMMA ProgramReads ==
    ASSUME SameHead, KeyInv, ReadInv, ProgramStep \/ ProgramChoice
    PROVE  ReadInv'
  <1>1. ASSUME NEW h \in Ranks, StoreParts(h) PROVE ReadInv'
    BY <1>1, StorePartsReads
  <1>2. CASE ReaderStep(Client)
    BY <1>2, ReaderReads DEF Procs
  <1>3. CASE ProgramGot
    BY <1>3, ProgramGotReads
  <1>4. ASSUME NEW v \in Vectors, ReleaseVector(v) PROVE ReadInv'
    BY <1>4, ReleaseVectorReads
  <1>5. ASSUME NEW v \in Vectors, ProgramGet(v) PROVE ReadInv'
    BY <1>5, ProgramGetReads
  <1>6. ASSUME NEW v \in Vectors, NEW g \in Groups, AskDistribute(g, v) PROVE ReadInv'
    BY <1>6, AskDistributeReads
  <1>7. ASSUME NEW v \in Vectors, NEW g \in Groups, NEW w \in Vectors, CallFetch(g, v, w) PROVE ReadInv'
    BY <1>7, CallFetchReads
  <1>. QED
    BY <1>1, <1>2, <1>3, <1>4, <1>5, <1>6, <1>7 DEF ProgramStep, ProgramChoice

\* A step in which nothing changes.
LEMMA StutterReads ==
    ASSUME KeyInv, ReadInv, UNCHANGED vars
    PROVE  ReadInv'
  <1>1. /\ mgmt' = mgmt /\ reply' = reply /\ answer' = answer /\ store' = store /\ pending' = pending
        /\ checking' = checking /\ nextKey' = nextKey /\ localKey' = localKey /\ reader' = reader /\ dvs' = dvs
        /\ made' = made /\ job' = job /\ source' = source /\ origin' = origin /\ released' = released
    BY DEF vars
  <1>2. ReadTypes'
    BY <1>1, ReadParts DEF ReadTypes, ReaderTypes, AnswerTypes, VectorTypes, ReaderOf, IsSeq
  <1>3. KnownInv'
    <2>1. KeysStay
      BY <1>1, SameReply DEF KeyInv
    <2>2. ASSUME NEW p \in Ranks, NEW key, Issued(p, key)
          PROVE  Issued(p, key)'
      BY <2>1, <2>2, Zenon DEF KeysStay
    <2>3. KnownInv
      BY ReadParts
    <2>4. \A v \in Vectors : \A i \in 1..Len(dvs[v]) : dvs[v][i].pid \in Ranks
      BY ReadParts DEF ReadTypes, VectorTypes
    <2>5. \A p \in Ranks : \A key \in DOMAIN pending'[p] : Issued(p, key)'
      BY <1>1, <2>2, <2>3 DEF KnownInv
    <2>6. \A v \in Vectors : \A i \in 1..Len(dvs'[v]) : Issued(dvs[v][i].pid, dvs[v][i].resid)'
      BY <1>1, <2>2, <2>3, <2>4 DEF KnownInv
    <2>7. \A r \in Ranks : \A i \in 1..Len(made'[r]) : made'[r][i].pid = r /\ Issued(r, made[r][i].resid)'
      BY <1>1, <2>2, <2>3 DEF KnownInv
    <2>. QED
      BY <2>5, <2>6, <2>7 DEF KnownInv
  <1>4. PartsApart' /\ JobInv' /\ CheckInv' /\ ReleaseInv'
    BY <1>1, ReadParts DEF PartsApart, SamePart, JobInv, CheckInv, ReleaseInv
  <1>5. ListedInv'
    <2>1. ASSUME NEW p \in Ranks, NEW key
          PROVE  Coming(p, key)' => Coming(p, key)
      BY <1>1 DEF Coming, Storing
    <2>2. ASSUME NEW p \in Ranks, NEW key, NEW k, ListedOnce(p, key, k)
          PROVE  ListedOnce(p, key, k)'
      BY <1>1, <2>2 DEF ListedOnce, Receiving, Asking, Asks, Wanted, Vec
    <2>. QED
      BY <1>1, <2>1, <2>2, ReadParts DEF ListedInv
  <1>6. ASSUME NEW r \in Procs
        PROVE  ReaderInv(r)' /\ \A p \in Ranks : AskInv(r, p)' /\ CountInv(r, p)'
    <2>1. ReaderInv(r)'
      BY <1>1, ReadParts DEF ReaderInv, Active, Receiving, Vec, PiecesFrom, Wanted
    <2>2. ASSUME NEW p \in Ranks
          PROVE  AskInv(r, p)' /\ CountInv(r, p)'
      <3>1. PiecesFrom(r, p)' = PiecesFrom(r, p)
        BY <1>1 DEF PiecesFrom, Wanted, Vec
      <3>2. NotYet(r, p)' = NotYet(r, p)
        BY <1>1 DEF NotYet, Wanted, Vec, Asking, Asks, Listed
      <3>3. AskInv(r, p)'
        BY <1>1, <3>1, ReadParts DEF AskInv, Asks, Receiving
      <3>4. CountInv(r, p)'
        BY <1>1, <3>2, ReadParts DEF CountInv, Active, Receiving
      <3>. QED
        BY <3>3, <3>4
    <2>. QED
      BY <2>1, <2>2
  <1>. QED
    BY <1>2, <1>3, <1>4, <1>5, <1>6, ReadWhole

LEMMA ReadsInductive ==
    ASSUME SameHead
    PROVE  Spec => [](KeyInv /\ ReadInv)
  <1>1. Init => ReadInv
    BY InitReads
  <1>2. KeyInv /\ ReadInv /\ [Next]_vars => ReadInv'
    <2>. SUFFICES ASSUME KeyInv, ReadInv, [Next]_vars
                  PROVE  ReadInv'
      OBVIOUS
    <2>1. CASE UNCHANGED vars
      BY <2>1, StutterReads
    <2>2. CASE Next
      BY <2>2, ServerReads, ActorReads, ProgramReads DEF Next
    <2>. QED
      BY <2>1, <2>2
  <1>3. Spec => [](KeyInv /\ LengthInv)
    BY KeysInductive
  <1>. QED
    BY <1>1, <1>2, <1>3, PTL DEF Spec

(***************************************************************************)
(* If the actors that live on a process one after the other have the same  *)
(* head, a management thread never sends more answers to a reader than it  *)
(* has posted receives for, at once or when the parts it was asked for are *)
(* stored.  (If not, a key recurs after its part is released, and a        *)
(* request that checkDvPartRequired did not erase is served again.)        *)
(***************************************************************************)
THEOREM NothingUnexpected ==
    ASSUME SameHead
    PROVE  Spec => []NoUnexpectedData
  <1>1. KeyInv /\ ReadInv => NoUnexpectedData
    <2>. SUFFICES ASSUME ReadInv, NEW p \in Ranks, NEW r \in Procs
                  PROVE  Len(answer[p][r]) <= Len(reader[r].asked[p])
      BY DEF NoUnexpectedData
    <2>1. ReadTypes /\ ReaderInv(r) /\ CountInv(r, p)
      BY ReadParts
    <2>2. Len(reader[r].asked[p]) \in Nat /\ Len(answer[p][r]) \in Nat
      BY <2>1 DEF ReadTypes, ReaderTypes, AnswerTypes, IsSeq
    <2>3. CASE Active(r) /\ p # r
      <3>1. PICK n : n = Cardinality(NotYet(r, p))
        OBVIOUS
      <3>2. n \in Nat
        BY <2>1, <2>3, <3>1, WantedFacts DEF ReaderInv
      <3>3. Len(answer[p][r]) + n <= Len(reader[r].asked[p])
        BY <2>1, <2>3, <3>1 DEF CountInv
      <3>. QED
        BY <2>2, <3>2, <3>3
    <2>4. CASE ~ (Active(r) /\ p # r)
      <3>1. Len(answer[p][r]) = 0
        BY <2>1, <2>4, IdleRecord DEF CountInv
      <3>. QED
        BY <2>2, <3>1
    <2>. QED
      BY <2>3, <2>4
  <1>. QED
    BY <1>1, ReadsInductive, PTL

-----------------------------------------------------------------------------
\* Releases.

\* The i-th part of vector v is in the store of its process.
Stored(v, i) == dvs[v][i].resid \in DOMAIN store[dvs[v][i].pid]
RangeStored(v, first, size) == \A i \in Met(dvs[v], first, size) : Stored(v, i)
BytesStored(v) == \A i \in 1..Len(dvs[v]) : dvs[v][i].size > 0 => Stored(v, i)

\* The range that process s of actor g reads for the vector it is making.
First(g, s) == Beg(VecSize(Descriptor(g)), s - 1, Len(g))
Size(g, s) == End(VecSize(Descriptor(g)), s - 1, Len(g)) - First(g, s)

\* A reader has found the parts of its own process that it no longer looks for.
LocalInv(r) ==
    Active(r) =>
        /\ \A i \in Wanted(r, r) :
              \/ Stored(reader[r].vec, i)
              \/ \E k \in 1..Len(reader[r].local) : reader[r].local[k].resid = Vec(r)[i].resid
        /\ Receiving(r) => reader[r].local = << >>

\* What a process of an actor reads, and has read, for the vector that is being made.
FetchOne(g, s) ==
    /\ Active(g[s]) => /\ reader[g[s]].vec = source[job[g]]
                       /\ reader[g[s]].first = First(g, s) /\ reader[g[s]].size = Size(g, s)
    /\ made[g[s]] # << >> => Descriptor(g) # << >> /\ RangeStored(source[job[g]], First(g, s), Size(g, s))

FetchInv(g) == job[g] # None => \A s \in DOMAIN g : FetchOne(g, s)

\* A process reads and makes parts only for an actor that is making a vector.
Busy(r) == \E g \in Groups : job[g] # None /\ \E s \in DOMAIN g : g[s] = r

BusyInv == \A r \in Ranks : (Active(r) => Busy(r) /\ made[r] = << >>) /\ (made[r] # << >> => Busy(r))

\* The program reads vectors from end to end.
WholeInv == Active(Client) => reader[Client].first = 0 /\ reader[Client].size = VecSize(Vec(Client))

\* A vector that was read and not released is in the stores of its processes.
SeenInv ==
    \A r \in Procs, v \in Vectors : <<r, v>> \in seen =>
        dvs[v] # << >> /\ (v \notin released => BytesStored(v))

\* What is to be released is there, and is released once.
Leaving(p, i) == mgmt[Client][p][i].type = "RELEASE"

LeavingInv ==
    \A p \in Ranks : \A i \in 1..Len(mgmt[Client][p]) : Leaving(p, i) =>
        /\ mgmt[Client][p][i].resid \in DOMAIN store[p] \/ WithoutBytes(p, mgmt[Client][p][i].resid)
        /\ \A j \in 1..Len(mgmt[Client][p]) :
              Leaving(p, j) /\ i # j => mgmt[Client][p][i].resid # mgmt[Client][p][j].resid

PlaceInv ==
    /\ \A r \in Procs : LocalInv(r)
    /\ \A g \in Groups : FetchInv(g)
    /\ BusyInv /\ WholeInv /\ SeenInv /\ LeavingInv

\* The elements of every vector are counted by an int.
SizesFit == \A v \in Vectors : VecSize(dvs[v]) <= IntMax

-----------------------------------------------------------------------------
\* What stays when nothing is released, and who rests.

PartsStay ==
    \A v \in Vectors : dvs[v] # << >> /\ v \notin released =>
        dvs'[v] = dvs[v] /\ \A i \in 1..Len(dvs[v]) : Stored(v, i) => Stored(v, i)'

StoresGrow == \A p \in Ranks : DOMAIN store[p] \subseteq DOMAIN store'[p]

RangeRests(r) ==
    Active(r)' =>
        /\ Active(r) /\ reader'[r].vec = reader[r].vec
        /\ reader'[r].first = reader[r].first /\ reader'[r].size = reader[r].size

ReaderRests(r) ==
    /\ RangeRests(r)
    /\ Active(r)' => /\ reader'[r].local = reader[r].local
                     /\ Receiving(r)' => Receiving(r) \/ reader[r].local = << >>

SameJob(g) == job'[g] = job[g] /\ (job[g] # None => source'[job[g]] = source[job[g]])

LEMMA PlaceParts ==
    ASSUME PlaceInv
    PROVE  /\ BusyInv /\ WholeInv /\ SeenInv /\ LeavingInv
           /\ \A r \in Procs : LocalInv(r)
           /\ \A g \in Groups : FetchInv(g)
  BY DEF PlaceInv

LEMMA PlaceWhole ==
    ASSUME BusyInv', WholeInv', SeenInv', LeavingInv', \A r \in Procs : LocalInv(r)', \A g \in Groups : FetchInv(g)'
    PROVE  PlaceInv'
  BY Zenon DEF PlaceInv

LEMMA PartsGrow ==
    ASSUME VectorTypes, DvsStay, StoresGrow
    PROVE  PartsStay
  <1>. SUFFICES ASSUME NEW v \in Vectors, dvs[v] # << >>
                PROVE  dvs'[v] = dvs[v] /\ \A i \in 1..Len(dvs[v]) : Stored(v, i) => Stored(v, i)'
    BY DEF PartsStay
  <1>1. dvs'[v] = dvs[v]
    BY DEF DvsStay
  <1>2. \A i \in 1..Len(dvs[v]) : dvs[v][i].pid \in Ranks
    BY DEF VectorTypes
  <1>. QED
    BY <1>1, <1>2 DEF Stored, StoresGrow

LEMMA RangeKept ==
    ASSUME VectorTypes, PartsStay, NEW v \in Vectors, dvs[v] # << >>, v \notin released
    PROVE  /\ dvs'[v] = dvs[v]
           /\ \A f, z : RangeStored(v, f, z) => RangeStored(v, f, z)'
           /\ BytesStored(v) => BytesStored(v)'
  <1>1. dvs'[v] = dvs[v] /\ \A i \in 1..Len(dvs[v]) : Stored(v, i) => Stored(v, i)'
    BY DEF PartsStay
  <1>2. \A f, z : Met(dvs[v], f, z) \subseteq 1..Len(dvs[v])
    BY DEF Met, VectorTypes
  <1>. QED
    BY <1>1, <1>2 DEF RangeStored, BytesStored

LEMMA LocalKept ==
    ASSUME ReadTypes, PartsStay, NEW r \in Procs, ReaderInv(r), LocalInv(r), ReaderRests(r)
    PROVE  LocalInv(r)'
  <1>. SUFFICES ASSUME Active(r)'
                PROVE  /\ \A i \in Wanted(r, r)' :
                             \/ Stored(reader[r].vec, i)'
                             \/ \E k \in 1..Len(reader'[r].local) : reader'[r].local[k].resid = Vec(r)[i].resid'
                       /\ Receiving(r)' => reader'[r].local = << >>
    BY DEF LocalInv
  <1>1. /\ Active(r) /\ reader'[r].vec = reader[r].vec /\ reader'[r].local = reader[r].local
        /\ reader'[r].first = reader[r].first /\ reader'[r].size = reader[r].size
        /\ Receiving(r)' => Receiving(r) \/ reader[r].local = << >>
    BY DEF ReaderRests, RangeRests
  <1>2. reader[r].vec \in Vectors /\ Vec(r) # << >> /\ reader[r].vec \notin released
    BY <1>1 DEF ReaderInv
  <1>3. PICK v : v = reader[r].vec
    OBVIOUS
  <1>4. dvs'[v] = dvs[v] /\ \A i \in 1..Len(dvs[v]) : Stored(v, i) => Stored(v, i)'
    BY <1>2, <1>3 DEF PartsStay, Vec
  <1>5. Vec(r)' = Vec(r) /\ Wanted(r, r)' = Wanted(r, r) /\ Wanted(r, r) \subseteq 1..Len(dvs[v])
    <2>1. Vec(r)' = Vec(r)
      BY <1>1, <1>3, <1>4 DEF Vec
    <2>. QED
      BY <1>1, <1>2, <1>3, <2>1, WantedFacts DEF Wanted, Vec
  <1>6. \A i : Stored(reader[r].vec, i)' <=> Stored(v, i)'
    BY <1>1, <1>3 DEF Stored
  <1>7. /\ \A i \in Wanted(r, r) :
              Stored(v, i) \/ \E k \in 1..Len(reader[r].local) : reader[r].local[k].resid = Vec(r)[i].resid
        /\ Receiving(r) => reader[r].local = << >>
    BY <1>1, <1>3 DEF LocalInv
  <1>. QED
    BY <1>1, <1>4, <1>5, <1>6, <1>7

LEMMA FetchOneKept ==
    ASSUME ReadTypes, JobInv, PartsStay, NEW g \in Groups, job[g] # None, SameJob(g), NEW s \in DOMAIN g,
           ReaderInv(g[s]), made'[g[s]] = made[g[s]], RangeRests(g[s]), FetchOne(g, s)
    PROVE  FetchOne(g, s)'
  <1>1. job'[g] = job[g] /\ source'[job[g]] = source[job[g]]
    BY DEF SameJob
  <1>2. /\ Active(g[s]) => /\ reader[g[s]].vec = source[job[g]]
                           /\ reader[g[s]].first = First(g, s) /\ reader[g[s]].size = Size(g, s)
        /\ made[g[s]] # << >> => Descriptor(g) # << >> /\ RangeStored(source[job[g]], First(g, s), Size(g, s))
    BY DEF FetchOne
  <1>3. PICK v : v = source[job[g]]
    OBVIOUS
  <1>4. v \in Vectors /\ v \notin released
    BY <1>1, <1>3 DEF JobInv
  <1>5. ASSUME dvs[v] # << >>
        PROVE  /\ Descriptor(g)' = Descriptor(g) /\ First(g, s)' = First(g, s) /\ Size(g, s)' = Size(g, s)
               /\ RangeStored(v, First(g, s), Size(g, s)) => RangeStored(source[job[g]], First(g, s), Size(g, s))'
    <2>1. dvs'[v] = dvs[v] /\ \A f, z : RangeStored(v, f, z) => RangeStored(v, f, z)'
      BY <1>4, <1>5, RangeKept DEF ReadTypes
    <2>2. Descriptor(g)' = Descriptor(g)
      BY <1>1, <1>3, <2>1 DEF Descriptor
    <2>3. First(g, s)' = First(g, s) /\ Size(g, s)' = Size(g, s)
      BY <2>2 DEF First, Size
    <2>4. \A f, z : RangeStored(v, f, z)' <=> RangeStored(source[job[g]], f, z)'
      BY <1>1, <1>3 DEF RangeStored, Stored
    <2>. QED
      BY <2>1, <2>2, <2>3, <2>4
  <1>6. Active(g[s])' => /\ reader'[g[s]].vec = source'[job'[g]]
                         /\ reader'[g[s]].first = First(g, s)' /\ reader'[g[s]].size = Size(g, s)'
    <2>. SUFFICES ASSUME Active(g[s])'
                  PROVE  /\ reader'[g[s]].vec = source'[job'[g]]
                         /\ reader'[g[s]].first = First(g, s)' /\ reader'[g[s]].size = Size(g, s)'
      OBVIOUS
    <2>1. /\ Active(g[s]) /\ reader'[g[s]].vec = reader[g[s]].vec
          /\ reader'[g[s]].first = reader[g[s]].first /\ reader'[g[s]].size = reader[g[s]].size
      BY DEF RangeRests
    <2>2. dvs[v] # << >>
      BY <1>2, <1>3, <2>1 DEF ReaderInv, Vec
    <2>. QED
      BY <1>1, <1>2, <1>3, <1>5, <2>1, <2>2
  <1>7. made'[g[s]] # << >> => Descriptor(g)' # << >> /\ RangeStored(source[job[g]], First(g, s), Size(g, s))'
    BY <1>1, <1>2, <1>3, <1>5 DEF Descriptor
  <1>. QED
    BY <1>6, <1>7 DEF FetchOne

LEMMA FetchKept ==
    ASSUME ReadTypes, JobInv, PartsStay, NEW g \in Groups, \A s \in DOMAIN g : ReaderInv(g[s]), FetchInv(g),
           SameJob(g), \A s \in DOMAIN g : made'[g[s]] = made[g[s]] /\ RangeRests(g[s])
    PROVE  FetchInv(g)'
  <1>1. SUFFICES ASSUME job'[g] # None, NEW s \in DOMAIN g
                 PROVE  FetchOne(g, s)'
    BY DEF FetchInv
  <1>2. job[g] # None
    BY <1>1 DEF SameJob
  <1>3. FetchOne(g, s)
    BY <1>2 DEF FetchInv
  <1>. QED
    BY <1>2, <1>3, FetchOneKept

LEMMA SeenKept ==
    ASSUME VectorTypes, DvsStay, PartsStay, SeenInv, seen' = seen, released \subseteq released'
    PROVE  SeenInv'
  <1>. SUFFICES ASSUME NEW r \in Procs, NEW v \in Vectors, <<r, v>> \in seen'
                PROVE  dvs'[v] # << >> /\ (v \notin released' => BytesStored(v)')
    BY DEF SeenInv
  <1>1. dvs[v] # << >> /\ (v \notin released => BytesStored(v))
    BY DEF SeenInv
  <1>2. dvs'[v] # << >>
    BY <1>1 DEF DvsStay
  <1>3. v \notin released' => BytesStored(v)'
    BY <1>1, RangeKept
  <1>. QED
    BY <1>2, <1>3

LEMMA BusyKept ==
    ASSUME BusyInv, \A g \in Groups : job[g] # None => job'[g] # None,
           \A r \in Ranks : (Active(r)' => Active(r)) /\ made'[r] = made[r]
    PROVE  BusyInv'
  BY DEF BusyInv, Busy

LEMMA WholeKept ==
    ASSUME DvsStay, ReaderInv(Client), WholeInv, RangeRests(Client)
    PROVE  WholeInv'
  <1>. SUFFICES ASSUME Active(Client)'
                PROVE  reader'[Client].first = 0 /\ reader'[Client].size = VecSize(Vec(Client))'
    BY DEF WholeInv
  <1>1. /\ Active(Client) /\ reader'[Client].vec = reader[Client].vec
        /\ reader'[Client].first = reader[Client].first /\ reader'[Client].size = reader[Client].size
    BY DEF RangeRests
  <1>2. reader[Client].vec \in Vectors /\ dvs[reader[Client].vec] # << >>
    BY <1>1 DEF ReaderInv, Vec
  <1>3. Vec(Client)' = Vec(Client)
    BY <1>1, <1>2 DEF DvsStay, Vec
  <1>. QED
    BY <1>1, <1>3 DEF WholeInv

LEMMA LeavingOne ==
    ASSUME LeavingInv, NEW p \in Ranks, NEW i \in 1..Len(mgmt[Client][p]), Leaving(p, i)
    PROVE  /\ mgmt[Client][p][i].resid \in DOMAIN store[p] \/ WithoutBytes(p, mgmt[Client][p][i].resid)
           /\ \A j \in 1..Len(mgmt[Client][p]) :
                 Leaving(p, j) /\ i # j => mgmt[Client][p][i].resid # mgmt[Client][p][j].resid
  BY Zenon DEF LeavingInv

LEMMA EmptyStays ==
    ASSUME DvsStay, NEW p, NEW key, WithoutBytes(p, key)
    PROVE  WithoutBytes(p, key)'
  <1>1. PICK v \in Vectors : \E i \in DOMAIN dvs[v] :
            dvs[v][i].pid = p /\ dvs[v][i].resid = key /\ dvs[v][i].size = 0
    BY Zenon DEF WithoutBytes
  <1>2. dvs[v] # << >>
    <2>1. DOMAIN << >> = {}
      OBVIOUS
    <2>. QED
      BY <1>1, <2>1
  <1>3. dvs'[v] = dvs[v]
    BY <1>2 DEF DvsStay
  <1>. QED
    BY <1>1, <1>3 DEF WithoutBytes

\* The messages that release parts stay as they are.
LEMMA LeavingKept ==
    ASSUME DvsStay, LeavingInv, StoresGrow, NEW at, NEW T, Kept(at, T), T # "RELEASE"
    PROVE  LeavingInv'
  <1>. SUFFICES ASSUME NEW p \in Ranks, NEW i \in 1..Len(mgmt'[Client][p]), Leaving(p, i)'
                PROVE  /\ mgmt'[Client][p][i].resid \in DOMAIN store'[p] \/ WithoutBytes(p, mgmt[Client][p][i].resid)'
                       /\ \A j \in 1..Len(mgmt'[Client][p]) :
                             Leaving(p, j)' /\ i # j => mgmt'[Client][p][i].resid # mgmt'[Client][p][j].resid
    BY DEF LeavingInv
  <1>. DEFINE f == at[Client][p]
  <1>1. /\ \A j \in 1..Len(mgmt'[Client][p]) : Leaving(p, j)' =>
              f[j] \in 1..Len(mgmt[Client][p]) /\ mgmt'[Client][p][j] = mgmt[Client][p][f[j]]
        /\ \A j \in 1..Len(mgmt'[Client][p]) : i # j => f[i] # f[j]
    BY KeptOne DEF Leaving, Procs
  <1>2. \A j \in 1..Len(mgmt'[Client][p]) : Leaving(p, j)' => Leaving(p, f[j])
    BY <1>1 DEF Leaving
  <1>. HIDE DEF f
  <1>3. /\ mgmt[Client][p][f[i]].resid \in DOMAIN store[p] \/ WithoutBytes(p, mgmt[Client][p][f[i]].resid)
        /\ \A j \in 1..Len(mgmt[Client][p]) :
              Leaving(p, j) /\ f[i] # j => mgmt[Client][p][f[i]].resid # mgmt[Client][p][j].resid
    BY <1>1, <1>2, LeavingOne
  <1>4. mgmt'[Client][p][i].resid \in DOMAIN store'[p] \/ WithoutBytes(p, mgmt[Client][p][i].resid)'
    <2>1. PICK key : key = mgmt'[Client][p][i].resid
      OBVIOUS
    <2>2. key \in DOMAIN store[p] \/ WithoutBytes(p, key)
      BY <1>1, <1>3, <2>1
    <2>3. key \in DOMAIN store'[p] \/ WithoutBytes(p, key)'
      BY <2>2, EmptyStays DEF StoresGrow
    <2>. QED
      BY <2>1, <2>3 DEF WithoutBytes
  <1>5. ASSUME NEW j \in 1..Len(mgmt'[Client][p]), Leaving(p, j)', i # j
        PROVE  mgmt'[Client][p][i].resid # mgmt'[Client][p][j].resid
    BY <1>1, <1>2, <1>3, <1>5
  <1>. QED
    BY <1>4, <1>5

-----------------------------------------------------------------------------
\* Steps that start and end no read.

LEMMA RestPlaced ==
    ASSUME ReadInv, PlaceInv, PartsStay, DvsStay, LeavingInv', UNCHANGED <<job, source, made, seen>>,
           released \subseteq released',
           \A r \in Procs : RangeRests(r) /\ (ReaderRests(r) \/ LocalInv(r)')
    PROVE  PlaceInv'
  <1>1. ReadTypes /\ VectorTypes /\ JobInv /\ \A r \in Procs : ReaderInv(r)
    BY ReadParts DEF ReadTypes
  <1>2. /\ BusyInv /\ WholeInv /\ SeenInv
        /\ (\A r \in Procs : LocalInv(r)) /\ \A g \in Groups : FetchInv(g)
    BY PlaceParts
  <1>3. \A g \in Groups : \A s \in DOMAIN g : g[s] \in Procs
    BY GroupProcs DEF Procs
  <1>4. Client \in Procs /\ Ranks \subseteq Procs
    BY DEF Procs
  <1>5. ASSUME NEW r \in Procs
        PROVE  LocalInv(r)'
    BY <1>1, <1>2, LocalKept
  <1>6. ASSUME NEW g \in Groups
        PROVE  FetchInv(g)'
    <2>1. SameJob(g) /\ \A s \in DOMAIN g : made'[g[s]] = made[g[s]] /\ RangeRests(g[s])
      BY <1>3 DEF SameJob
    <2>2. \A s \in DOMAIN g : ReaderInv(g[s])
      BY <1>1, <1>3
    <2>3. FetchInv(g)
      BY <1>2
    <2>. QED
      BY <1>1, <2>1, <2>2, <2>3, FetchKept
  <1>7. BusyInv'
    <2>1. \A r \in Ranks : (Active(r)' => Active(r)) /\ made'[r] = made[r]
      BY <1>4 DEF RangeRests
    <2>. QED
      BY <1>2, <2>1, BusyKept
  <1>8. WholeInv'
    BY <1>1, <1>2, <1>4, WholeKept
  <1>9. SeenInv'
    BY <1>1, <1>2, SeenKept
  <1>. QED
    BY <1>5, <1>6, <1>7, <1>8, <1>9, PlaceWhole

LEMMA SameRests ==
    ASSUME NEW r, reader'[r] = reader[r]
    PROVE  RangeRests(r) /\ ReaderRests(r)
  BY DEF RangeRests, ReaderRests, Active, Receiving

\* A reader that does not read.
LEMMA EndedRests ==
    ASSUME NEW r, ~ Active(r)'
    PROVE  RangeRests(r) /\ ReaderRests(r)
  BY DEF RangeRests, ReaderRests

\* No part is released, and the readers that go on read what they read.
LEMMA NoneReleased ==
    ASSUME ReadInv, PlaceInv, DvsStay, StoresGrow, NEW at, NEW T, Kept(at, T), T # "RELEASE",
           UNCHANGED <<job, source, made, seen, released>>,
           \A r \in Procs : RangeRests(r) /\ (ReaderRests(r) \/ LocalInv(r)')
    PROVE  PlaceInv'
  <1>1. PartsStay
    BY ReadParts, PartsGrow DEF ReadTypes
  <1>2. LeavingInv'
    BY PlaceParts, LeavingKept
  <1>. QED
    BY <1>1, <1>2, RestPlaced

LEMMA HandleDistributePlaces ==
    ASSUME KeyInv, ReadInv, PlaceInv, NEW c \in Procs, NEW p \in Ranks, HandleDistribute(c, p)
    PROVE  PlaceInv'
  <1>1. /\ mgmt[c][p] # << >> /\ mgmt' = Received(c, p)
        /\ UNCHANGED <<store, dvs, source, job, made, reader, seen, released>>
    BY DEF HandleDistribute, Handles, servers
  <1>2. PICK at : Kept(at, "none")
    BY <1>1, KeptReceived DEF KeyInv
  <1>3. \A r \in Procs : RangeRests(r) /\ ReaderRests(r)
    BY <1>1, SameRests
  <1>4. DvsStay /\ StoresGrow
    BY <1>1 DEF DvsStay, StoresGrow
  <1>. QED
    BY <1>1, <1>2, <1>3, <1>4, NoneReleased

LEMMA HandleGetPlaces ==
    ASSUME KeyInv, ReadInv, PlaceInv, NEW c \in Procs, NEW p \in Ranks, HandleGet(c, p)
    PROVE  PlaceInv'
  <1>1. /\ mgmt[c][p] # << >> /\ mgmt' = Received(c, p)
        /\ UNCHANGED <<store, dvs, source, job, made, reader, seen, released>>
    BY DEF HandleGet, Handles, program
  <1>2. PICK at : Kept(at, "none")
    BY <1>1, KeptReceived DEF KeyInv
  <1>3. \A r \in Procs : RangeRests(r) /\ ReaderRests(r)
    BY <1>1, SameRests
  <1>4. DvsStay /\ StoresGrow
    BY <1>1 DEF DvsStay, StoresGrow
  <1>. QED
    BY <1>1, <1>2, <1>3, <1>4, NoneReleased

LEMMA CheckDvPartPlaces ==
    ASSUME ReadInv, PlaceInv, NEW p \in Ranks, CheckDvPartRequired(p)
    PROVE  PlaceInv'
  <1>1. UNCHANGED <<mgmt, store, dvs, source, job, made, reader, seen, released>>
    BY DEF CheckDvPartRequired, program
  <1>2. PICK at : Kept(at, "none")
    BY <1>1, KeptSame
  <1>3. \A r \in Procs : RangeRests(r) /\ ReaderRests(r)
    BY <1>1, SameRests
  <1>4. DvsStay /\ StoresGrow
    BY <1>1 DEF DvsStay, StoresGrow
  <1>. QED
    BY <1>1, <1>2, <1>3, <1>4, NoneReleased

\* A reader that waits, or looks again.
LEMMA PcOnly ==
    ASSUME ReaderTypes, NEW r \in Procs, NEW z, reader' = [reader EXCEPT ![r].pc = z],
           Active(r)' => Active(r), Receiving(r)' => Receiving(r) \/ reader[r].local = << >>
    PROVE  \A q \in Procs : RangeRests(q) /\ ReaderRests(q)
  <1>1. \A q \in Procs \ {r} : reader'[q] = reader[q]
    BY DEF ReaderTypes
  <1>2. /\ reader'[r].vec = reader[r].vec /\ reader'[r].first = reader[r].first
        /\ reader'[r].size = reader[r].size /\ reader'[r].local = reader[r].local
    <2>1. PICK y : y = reader[r]
      OBVIOUS
    <2>2. y = [pc |-> y.pc, vec |-> y.vec, first |-> y.first, size |-> y.size, local |-> y.local,
               asked |-> y.asked, buf |-> y.buf]
      BY <2>1, ReaderFields DEF ReaderOf
    <2>3. PICK x : x = [y EXCEPT !.pc = z]
      OBVIOUS
    <2>4. x.vec = y.vec /\ x.first = y.first /\ x.size = y.size /\ x.local = y.local
      BY <2>2, <2>3
    <2>5. reader'[r] = x
      BY <2>1, <2>3 DEF ReaderTypes
    <2>. QED
      BY <2>1, <2>4, <2>5
  <1>3. RangeRests(r) /\ ReaderRests(r)
    BY <1>2 DEF RangeRests, ReaderRests
  <1>. QED
    BY <1>1, <1>3, SameRests

LEMMA SpuriousWakeupPlaces ==
    ASSUME ReadInv, PlaceInv, NEW r \in Procs, SpuriousWakeup(r)
    PROVE  PlaceInv'
  <1>0. ReaderTypes
    BY ReadParts DEF ReadTypes
  <1>1. /\ reader[r].pc = "waiting" /\ reader' = [reader EXCEPT ![r].pc = "local"]
        /\ UNCHANGED <<mgmt, store, dvs, source, job, made, seen, released>>
    BY DEF SpuriousWakeup, program, servers
  <1>2. PICK at : Kept(at, "none")
    BY <1>1, KeptSame
  <1>3. \A q \in Procs : RangeRests(q) /\ ReaderRests(q)
    <2>1. Active(r) /\ ~ Receiving(r)'
      BY <1>0, <1>1, ReaderFields DEF Active, Receiving, ReaderTypes, ReaderOf
    <2>. QED
      BY <1>0, <1>1, <2>1, PcOnly
  <1>4. DvsStay /\ StoresGrow
    BY <1>1 DEF DvsStay, StoresGrow
  <1>. QED
    BY <1>1, <1>2, <1>3, <1>4, NoneReleased

LEMMA HandleStorePlaces ==
    ASSUME KeyInv, ReadInv, PlaceInv, NEW c \in Procs, NEW p \in Ranks, HandleStore(c, p)
    PROVE  PlaceInv'
  <1>0. ReaderTypes /\ KeyTypes /\ p \in Procs
    BY ReadParts DEF ReadTypes, KeyInv, Procs
  <1>. DEFINE m == Head(mgmt[c][p])
              z == IF reader[p].pc = "waiting" THEN "local" ELSE reader[p].pc
  <1>1. /\ mgmt[c][p] # << >> /\ mgmt' = Received(c, p)
        /\ store' = [store EXCEPT ![p] = StorePartMessage(store[p], m.resid, m.data)]
        /\ reader' = [reader EXCEPT ![p].pc = z]
        /\ UNCHANGED <<dvs, source, job, made, seen, released>>
    BY <1>0 DEF HandleStore, Handles, program, KeyTypes, Woken
  <1>2. PICK at : Kept(at, "none")
    BY <1>0, <1>1, KeptReceived
  <1>3. \A q \in Procs : RangeRests(q) /\ ReaderRests(q)
    <2>1. reader'[p].pc = z
      BY <1>0, <1>1 DEF ReaderTypes, ReaderOf
    <2>2. Active(p)' => Active(p)
      BY <2>1 DEF Active
    <2>3. Receiving(p)' => Receiving(p)
      BY <2>1 DEF Receiving
    <2>. HIDE DEF z
    <2>. QED
      BY <1>0, <1>1, <2>2, <2>3, PcOnly
  <1>4. StoresGrow
    <2>1. DOMAIN store[p] \subseteq DOMAIN StorePartMessage(store[p], m.resid, m.data)
      BY DEF StorePartMessage, WithPart
    <2>. QED
      BY <1>0, <1>1, <2>1 DEF StoresGrow, KeyTypes
  <1>5. DvsStay
    BY <1>1 DEF DvsStay
  <1>. QED
    BY <1>1, <1>2, <1>3, <1>4, <1>5, NoneReleased

LEMMA AskPiecesPlaces ==
    ASSUME KeyInv, ReadInv, PlaceInv, NEW r \in Procs, AskPieces(r)
    PROVE  PlaceInv'
  <1>0. ReaderTypes /\ KeyTypes
    BY ReadParts DEF ReadTypes, KeyInv
  <1>1. /\ reader[r].pc = "local" /\ reader[r].local = << >>
        /\ reader' = [reader EXCEPT ![r].pc = "receiving"]
        /\ UNCHANGED <<store, dvs, source, job, made, seen, released>>
    BY DEF AskPieces, program, servers
  <1>2. PICK at : Kept(at, "GET")
    BY <1>0, AskPiecesSends
  <1>3. \A q \in Procs : RangeRests(q) /\ ReaderRests(q)
    BY <1>0, <1>1, PcOnly DEF Active
  <1>4. DvsStay /\ StoresGrow
    BY <1>1 DEF DvsStay, StoresGrow
  <1>. QED
    BY <1>1, <1>2, <1>3, <1>4, NoneReleased

LEMMA ReceivePiecePlaces ==
    ASSUME ReadInv, PlaceInv, NEW r \in Procs, NEW p \in Ranks, ReceivePiece(r, p)
    PROVE  PlaceInv'
  <1>0. ReaderTypes /\ reader[r] = ReaderOf(r)
    BY ReadParts, ReaderFields DEF ReadTypes
  <1>1. /\ reader[r].pc = "receiving"
        /\ UNCHANGED <<mgmt, store, dvs, source, job, made, seen, released>>
    BY DEF ReceivePiece, program, servers
  <1>2. PICK at : Kept(at, "none")
    BY <1>1, KeptSame
  <1>3. /\ \A q \in Procs \ {r} : reader'[q] = reader[q]
        /\ reader'[r].pc = reader[r].pc /\ reader'[r].vec = reader[r].vec /\ reader'[r].first = reader[r].first
        /\ reader'[r].size = reader[r].size /\ reader'[r].local = reader[r].local
    <2>1. PICK b : reader' = [reader EXCEPT ![r].asked[p] = Tail(@), ![r].buf = b]
      BY DEF ReceivePiece
    <2>2. PICK y, a : y = reader[r] /\ a = [y.asked EXCEPT ![p] = Tail(y.asked[p])]
      OBVIOUS
    <2>3. y = [pc |-> y.pc, vec |-> y.vec, first |-> y.first, size |-> y.size, local |-> y.local,
               asked |-> y.asked, buf |-> y.buf]
      BY <1>0, <2>2 DEF ReaderOf
    <2>4. PICK x : x = [y EXCEPT !.asked = a, !.buf = b]
      OBVIOUS
    <2>5. x = [pc |-> y.pc, vec |-> y.vec, first |-> y.first, size |-> y.size, local |-> y.local,
               asked |-> a, buf |-> b]
      BY <2>3, <2>4, RecordWith
    <2>6. [reader EXCEPT ![r].asked[p] = Tail(@)] = [reader EXCEPT ![r] = [y EXCEPT !.asked = a]]
      BY <2>2
    <2>7. reader' = [reader EXCEPT ![r] = x]
      BY <1>0, <2>1, <2>2, <2>4, <2>6 DEF ReaderTypes
    <2>8. reader'[r] = x /\ \A q \in Procs \ {r} : reader'[q] = reader[q]
      BY <1>0, <2>7 DEF ReaderTypes
    <2>. QED
      BY <2>2, <2>5, <2>8
  <1>4. \A q \in Procs : RangeRests(q) /\ ReaderRests(q)
    <2>1. RangeRests(r) /\ ReaderRests(r)
      BY <1>3 DEF RangeRests, ReaderRests, Active, Receiving
    <2>. QED
      BY <1>3, <2>1, SameRests
  <1>5. DvsStay /\ StoresGrow
    BY <1>1 DEF DvsStay, StoresGrow
  <1>. QED
    BY <1>1, <1>2, <1>4, <1>5, NoneReleased

LEMMA AskDistributePlaces ==
    ASSUME KeyInv, ReadInv, PlaceInv, NEW g \in Groups, NEW v \in Vectors, AskDistribute(g, v)
    PROVE  PlaceInv'
  <1>0. ReaderTypes /\ KeyTypes /\ Client \in Procs
    BY ReadParts DEF ReadTypes, KeyInv, Procs
  <1>1. /\ reader' = [reader EXCEPT ![Client] = [Idle EXCEPT !.pc = "distributing", !.vec = v]]
        /\ UNCHANGED <<store, dvs, source, job, made, seen, released>>
    BY DEF AskDistribute, servers
  <1>2. PICK at : Kept(at, "DISTRIBUTE")
    BY <1>0, AskDistributeSends
  <1>3. \A q \in Procs : RangeRests(q) /\ ReaderRests(q)
    <2>1. \A q \in Procs \ {Client} : reader'[q] = reader[q]
      BY <1>0, <1>1 DEF ReaderTypes
    <2>2. [Idle EXCEPT !.pc = "distributing", !.vec = v].pc = "distributing"
      BY DEF Idle
    <2>3. ~ Active(Client)'
      BY <1>0, <1>1, <2>2 DEF ReaderTypes, Active
    <2>. QED
      BY <2>1, <2>3, SameRests, EndedRests
  <1>4. DvsStay /\ StoresGrow
    BY <1>1 DEF DvsStay, StoresGrow
  <1>. QED
    BY <1>1, <1>2, <1>3, <1>4, NoneReleased

LEMMA StorePartsPlaces ==
    ASSUME KeyInv, ReadInv, PlaceInv, NEW h \in Ranks, StoreParts(h)
    PROVE  PlaceInv'
  <1>0. ReaderTypes /\ VectorTypes /\ JobInv /\ Client \in Procs
    BY ReadParts DEF ReadTypes, Procs
  <1>1. /\ reader[Client].pc = "distributing" /\ reader' = [reader EXCEPT ![Client] = Idle]
        /\ UNCHANGED <<store, source, job, made, seen, released>>
    BY DEF StoreParts, servers
  <1>2. PICK dv : dv = reply[h][1]
    OBVIOUS
  <1>3. /\ dvs' = [dvs EXCEPT ![reader[Client].vec] = dv]
        /\ \A c \in Procs, p \in Ranks : \A i \in 1..Len(mgmt'[c][p]) :
              (i \in 1..Len(mgmt[c][p]) /\ mgmt'[c][p][i] = mgmt[c][p][i]) \/ Carries(dv, p, mgmt'[c][p][i])
    BY <1>2, StorePartsEffect
  <1>4. PICK at : Kept(at, "STORE")
    <2>1. \A p, m : Carries(dv, p, m) => m.type = "STORE"
      BY DEF Carries
    <2>2. \A c \in Procs, p \in Ranks : \A i \in 1..Len(mgmt'[c][p]) :
              (i \in 1..Len(mgmt[c][p]) /\ mgmt'[c][p][i] = mgmt[c][p][i]) \/ mgmt'[c][p][i].type = "STORE"
      BY <1>3, <2>1
    <2>. QED
      BY <2>2, KeptGrown
  <1>5. DvsStay
    BY <1>0, <1>1, <1>3 DEF DvsStay, JobInv, VectorTypes
  <1>6. \A q \in Procs : RangeRests(q) /\ ReaderRests(q)
    <2>1. reader'[Client].pc = "idle" /\ \A q \in Procs \ {Client} : reader'[q] = reader[q]
      BY <1>0, <1>1, ReaderIdle
    <2>2. ~ Active(Client)'
      BY <2>1 DEF Active
    <2>. QED
      BY <2>1, <2>2, SameRests, EndedRests
  <1>7. StoresGrow
    BY <1>1 DEF StoresGrow
  <1>. QED
    BY <1>1, <1>4, <1>5, <1>6, <1>7, NoneReleased

\* A worker reads a piece of its own process's parts, or waits for it.
LEMMA ReadLocalPlaces ==
    ASSUME ReadInv, PlaceInv, NEW r \in Ranks, ReadLocal(r)
    PROVE  PlaceInv'
  <1>0. r \in Procs /\ ReadTypes /\ ReaderTypes /\ reader[r] = ReaderOf(r) /\ IsSeq(reader[r].local) /\ ReaderInv(r)
    BY ReadParts, ReaderFields DEF ReadTypes, Procs
  <1>1. /\ reader[r].pc = "local" /\ reader[r].local # << >>
        /\ UNCHANGED <<mgmt, store, dvs, source, job, made, seen, released>>
    BY DEF ReadLocal, program, servers
  <1>2. PICK at : Kept(at, "none")
    BY <1>1, KeptSame
  <1>3. DvsStay /\ StoresGrow
    BY <1>1 DEF DvsStay, StoresGrow
  <1>4. PICK b : \/ reader' = [reader EXCEPT ![r].pc = "waiting"]
                 \/ /\ reader' = [reader EXCEPT ![r].local = Tail(@), ![r].buf = b]
                    /\ Head(reader[r].local).resid \in DOMAIN store[r]
    BY DEF ReadLocal, Available, Holds
  <1>5. CASE reader' = [reader EXCEPT ![r].pc = "waiting"]
    <2>1. Active(r) /\ ~ Receiving(r)'
      BY <1>0, <1>1, <1>5 DEF Active, Receiving, ReaderTypes, ReaderOf
    <2>2. \A q \in Procs : RangeRests(q) /\ ReaderRests(q)
      BY <1>0, <1>5, <2>1, PcOnly
    <2>. QED
      BY <1>1, <1>2, <1>3, <2>2, NoneReleased
  <1>6. CASE /\ reader' = [reader EXCEPT ![r].local = Tail(@), ![r].buf = b]
             /\ Head(reader[r].local).resid \in DOMAIN store[r]
    <2>1. PICK y : y = reader[r]
      OBVIOUS
    <2>2. y = [pc |-> y.pc, vec |-> y.vec, first |-> y.first, size |-> y.size, local |-> y.local,
               asked |-> y.asked, buf |-> y.buf]
      BY <1>0, <2>1 DEF ReaderOf
    <2>3. PICK x : x = [y EXCEPT !.local = Tail(y.local), !.buf = b]
      OBVIOUS
    <2>4. x = [pc |-> y.pc, vec |-> y.vec, first |-> y.first, size |-> y.size, local |-> Tail(y.local),
               asked |-> y.asked, buf |-> b]
      BY <2>2, <2>3, RecordWith
    <2>5. reader' = [reader EXCEPT ![r] = x]
      BY <1>0, <1>6, <2>1, <2>3 DEF ReaderTypes
    <2>6. /\ \A q \in Procs \ {r} : reader'[q] = reader[q]
          /\ reader'[r].pc = "local" /\ reader'[r].vec = reader[r].vec /\ reader'[r].first = reader[r].first
          /\ reader'[r].size = reader[r].size /\ reader'[r].local = Tail(reader[r].local)
      BY <1>0, <1>1, <2>1, <2>4, <2>5 DEF ReaderTypes
    <2>7. Active(r) /\ ~ Receiving(r)'
      BY <1>1, <2>6 DEF Active, Receiving
    <2>8. RangeRests(r)
      BY <2>6, <2>7 DEF RangeRests
    <2>9. LocalInv(r)'
      <3>1. /\ reader[r].vec \in Vectors
            /\ \A i \in Wanted(r, r) : Stored(reader[r].vec, i)
                  \/ \E k \in 1..Len(reader[r].local) : reader[r].local[k].resid = Vec(r)[i].resid
        BY <1>0, <2>7, PlaceParts DEF LocalInv, ReaderInv
      <3>2. Vec(r)' = Vec(r) /\ Wanted(r, r)' = Wanted(r, r)
        <4>1. Vec(r)' = Vec(r)
          BY <1>1, <2>6 DEF Vec
        <4>. QED
          BY <2>6, <4>1 DEF Wanted
      <3>3. PICK l : l = reader[r].local
        OBVIOUS
      <3>4. /\ IsSeq(l) /\ Head(l) = l[1] /\ Len(l) \in Nat /\ Len(Tail(l)) = Len(l) - 1
            /\ \A k \in 1..Len(Tail(l)) : Tail(l)[k] = l[k + 1]
        BY <1>0, <1>1, <3>3, TailOf DEF IsSeq
      <3>5. ASSUME NEW i \in Wanted(r, r)
            PROVE  Stored(reader[r].vec, i)'
                   \/ \E k \in 1..Len(reader'[r].local) : reader'[r].local[k].resid = Vec(r)[i].resid
        <4>1. Stored(reader[r].vec, i) \/ Vec(r)[i].resid \in DOMAIN store[r]
              \/ \E k \in 1..Len(Tail(l)) : Tail(l)[k].resid = Vec(r)[i].resid
          <5>1. CASE Stored(reader[r].vec, i)
            BY <5>1
          <5>2. ASSUME NEW k \in 1..Len(l), l[k].resid = Vec(r)[i].resid
                PROVE  Vec(r)[i].resid \in DOMAIN store[r]
                       \/ \E j \in 1..Len(Tail(l)) : Tail(l)[j].resid = Vec(r)[i].resid
            <6>1. CASE k = 1
              BY <1>6, <3>3, <3>4, <5>2, <6>1
            <6>2. CASE k # 1
              <7>1. k - 1 \in 1..Len(Tail(l)) /\ (k - 1) + 1 = k
                BY <3>4, <6>2
              <7>. QED
                BY <3>4, <5>2, <7>1
            <6>. QED
              BY <6>1, <6>2
          <5>. QED
            BY <3>1, <3>3, <5>1, <5>2
        <4>2. Vec(r)[i].pid = r
          BY DEF Wanted
        <4>3. Stored(reader[r].vec, i)' <=> Stored(reader[r].vec, i)
          BY <1>1, <2>6 DEF Stored
        <4>4. Stored(reader[r].vec, i) <=> Vec(r)[i].resid \in DOMAIN store[r]
          BY <4>2 DEF Stored, Vec
        <4>. QED
          BY <2>6, <3>3, <4>1, <4>3, <4>4
      <3>. QED
        BY <2>7, <3>2, <3>5 DEF LocalInv
    <2>10. \A q \in Procs : RangeRests(q) /\ (ReaderRests(q) \/ LocalInv(q)')
      BY <2>6, <2>8, <2>9, SameRests
    <2>. QED
      BY <1>1, <1>2, <1>3, <2>10, NoneReleased
  <1>. QED
    BY <1>4, <1>5, <1>6

-----------------------------------------------------------------------------
\* Reads that start.

\* A reader starts to look for all the parts of its own process that it wants.
LEMMA StartLocal ==
    ASSUME ReadInv, NEW r \in Procs, NEW v \in Vectors, NEW o \in Nat, NEW n \in Int,
           reader' = [reader EXCEPT ![r] = Reading(r, v, o, n)], dvs' = dvs
    PROVE  /\ \A q \in Procs \ {r} : reader'[q] = reader[q]
           /\ reader'[r].pc = "local" /\ reader'[r].vec = v /\ reader'[r].first = o /\ reader'[r].size = n
           /\ LocalInv(r)'
  <1>0. ReaderTypes /\ VectorTypes
    BY ReadParts DEF ReadTypes
  <1>1. PICK dv \in Seq(Part) : dv = dvs[v]
    BY <1>0 DEF VectorTypes
  <1>2. Len(dv) \in Nat /\ DOMAIN dv = 1..Len(dv)
    BY <1>1
  <1>3. PICK I : I = {i \in Met(dv, o, n) : dv[i].pid = r}
    OBVIOUS
  <1>4. I \subseteq 1..Len(dv)
    BY <1>2, <1>3 DEF Met
  <1>5. PICK l : l = PiecesAt(dv, I, o, n)
    OBVIOUS
  <1>6. /\ \A q \in Procs \ {r} : reader'[q] = reader[q]
        /\ reader'[r].pc = "local" /\ reader'[r].vec = v /\ reader'[r].first = o /\ reader'[r].size = n
        /\ reader'[r].local = l
    BY <1>0, <1>1, <1>3, <1>5 DEF Reading, ReaderTypes
  <1>7. Vec(r)' = dv
    BY <1>1, <1>6 DEF Vec
  <1>8. Wanted(r, r)' = I
    BY <1>3, <1>6, <1>7 DEF Wanted
  <1>9. ASSUME NEW i \in I
        PROVE  \E k \in 1..Len(l) : l[k].resid = dv[i].resid
    <2>1. /\ Len(l) = Cardinality(I)
          /\ \A k \in 1..Cardinality(I) : l[k] = Piece(dv[Nth(I, k)], o, o + n)
      <3>0. Len(dv) \in Nat
        BY <1>2
      <3>1. Len(PiecesAt(dv, I, o, n)) = Cardinality(I)
        BY <1>4, <3>0, PiecesAtFacts
      <3>2. \A k \in 1..Cardinality(I) : PiecesAt(dv, I, o, n)[k] = Piece(dv[Nth(I, k)], o, o + n)
        <4>1. PICK c : c = Chosen(dv, I)
          OBVIOUS
        <4>2. Len(c) = Cardinality(I) /\ \A k \in 1..Cardinality(I) : c[k] = dv[Nth(I, k)]
          BY <1>4, <3>0, <4>1, ChosenFacts
        <4>3. PiecesAt(dv, I, o, n) = [k \in 1..Len(c) |-> Piece(c[k], o, o + n)]
          BY <4>1 DEF PiecesAt
        <4>. QED
          BY <4>2, <4>3
      <3>. QED
        BY <1>5, <3>1, <3>2
    <2>2. PICK k \in 1..Cardinality(I) : Nth(I, k) = i
      BY <1>2, <1>4, NthAll
    <2>3. l[k].resid = dv[i].resid
      BY <2>1, <2>2 DEF Piece
    <2>. QED
      BY <2>1, <2>3
  <1>10. ~ Receiving(r)'
    BY <1>6 DEF Receiving
  <1>. QED
    BY <1>6, <1>7, <1>8, <1>9, <1>10 DEF LocalInv

LEMMA ProgramGetPlaces ==
    ASSUME ReadInv, PlaceInv, NEW v \in Vectors, ProgramGet(v)
    PROVE  PlaceInv'
  <1>0. /\ Client \in Procs /\ Ranks \subseteq Procs /\ Client \notin Ranks
        /\ ReadTypes /\ ReaderTypes /\ VectorTypes /\ JobInv /\ \A r \in Procs : ReaderInv(r)
    BY ReadParts, ClientAssumption DEF ReadTypes, Procs
  <1>1. /\ reader' = [reader EXCEPT ![Client] = Reading(Client, v, 0, VecSize(dvs[v]))]
        /\ UNCHANGED <<mgmt, store, dvs, source, job, made, seen, released>>
    BY DEF ProgramGet, program, servers
  <1>2. PICK n \in Int : n = VecSize(dvs[v])
    BY <1>0, VecSizeFacts DEF VectorTypes
  <1>3. /\ \A q \in Procs \ {Client} : reader'[q] = reader[q]
        /\ reader'[Client].vec = v /\ reader'[Client].first = 0 /\ reader'[Client].size = n
        /\ LocalInv(Client)'
    BY <1>0, <1>1, <1>2, StartLocal
  <1>4. PICK at : Kept(at, "none")
    BY <1>1, KeptSame
  <1>5. DvsStay /\ StoresGrow
    BY <1>1 DEF DvsStay, StoresGrow
  <1>6. PartsStay
    BY <1>0, <1>5, PartsGrow
  <1>7. \A r \in Procs \ {Client} : RangeRests(r) /\ ReaderRests(r)
    BY <1>3, SameRests
  <1>8. ASSUME NEW r \in Procs
        PROVE  LocalInv(r)'
    <2>1. CASE r = Client
      BY <1>3, <2>1
    <2>2. CASE r # Client
      BY <1>0, <1>6, <1>7, <2>2, LocalKept, PlaceParts
    <2>. QED
      BY <2>1, <2>2
  <1>9. ASSUME NEW g \in Groups
        PROVE  FetchInv(g)'
    <2>1. \A s \in DOMAIN g : g[s] \in Procs /\ g[s] # Client /\ g[s] \in Ranks
      BY <1>0, GroupProcs
    <2>2. SameJob(g) /\ \A s \in DOMAIN g : made'[g[s]] = made[g[s]] /\ RangeRests(g[s])
      BY <1>1, <1>7, <2>1 DEF SameJob
    <2>3. FetchInv(g) /\ \A s \in DOMAIN g : ReaderInv(g[s])
      BY <1>0, <2>1, PlaceParts
    <2>. QED
      BY <1>0, <1>6, <2>2, <2>3, FetchKept
  <1>10. BusyInv'
    <2>1. \A r \in Ranks : (Active(r)' => Active(r)) /\ made'[r] = made[r]
      BY <1>0, <1>1, <1>7 DEF RangeRests
    <2>. QED
      BY <1>1, <2>1, BusyKept, PlaceParts
  <1>11. WholeInv'
    BY <1>1, <1>2, <1>3 DEF WholeInv, Vec
  <1>12. SeenInv'
    BY <1>0, <1>1, <1>5, <1>6, SeenKept, PlaceParts
  <1>13. LeavingInv'
    BY <1>4, <1>5, LeavingKept, PlaceParts
  <1>. QED
    BY <1>8, <1>9, <1>10, <1>11, <1>12, <1>13, PlaceWhole

\* The actors that are making a vector share no process.
LEMMA JobsApart ==
    ASSUME JobInv, NEW g \in Groups, NEW h \in Groups, job[g] # None, job[h] # None, g # h,
           NEW s \in DOMAIN g, NEW t \in DOMAIN h
    PROVE  g[s] # h[t]
  BY DEF JobInv, Share

LEMMA StartFetchPlaces ==
    ASSUME ReadInv, PlaceInv, NEW g \in Groups, NEW s \in DOMAIN g, StartFetch(g, s)
    PROVE  PlaceInv'
  <1>0. /\ Client \in Procs /\ Ranks \subseteq Procs /\ Client \notin Ranks /\ g[s] \in Ranks
        /\ Len(g) \in Nat \ {0} /\ s - 1 \in Int
        /\ ReadTypes /\ ReaderTypes /\ VectorTypes /\ JobInv /\ \A r \in Procs : ReaderInv(r)
    BY ReadParts, ClientAssumption, GroupProcs DEF ReadTypes, Procs
  <1>1. PICK v, r : v = source[job[g]] /\ r = g[s]
    OBVIOUS
  <1>2. /\ job[g] # None /\ dvs[v] # << >> /\ made[r] = << >> /\ r \in Ranks /\ r \in Procs
        /\ UNCHANGED <<mgmt, store, dvs, source, job, made, seen, released>>
    BY <1>0, <1>1 DEF StartFetch, HasDescriptor, Descriptor, program, servers
  <1>3. v \in Vectors /\ dvs[v] \in Seq(Part)
    BY <1>0, <1>1, <1>2 DEF JobInv, VectorTypes
  <1>4. PICK o, n : o = First(g, s) /\ n = Size(g, s)
    OBVIOUS
  <1>5. o \in Nat /\ n \in Int
    <2>1. Descriptor(g) = dvs[v] /\ VecSize(Descriptor(g)) \in Int
      BY <1>1, <1>3, VecSizeFacts DEF Descriptor
    <2>2. PICK z \in Int : z = VecSize(Descriptor(g))
      BY <2>1
    <2>3. Beg(z, s - 1, Len(g)) \in Nat /\ End(z, s - 1, Len(g)) \in Nat
      BY <1>0, RangeTypes
    <2>. QED
      BY <1>4, <2>2, <2>3 DEF First, Size
  <1>6. reader' = [reader EXCEPT ![r] = Reading(r, v, o, n)]
    BY <1>1, <1>4 DEF StartFetch, First, Size
  <1>7. /\ \A q \in Procs \ {r} : reader'[q] = reader[q]
        /\ reader'[r].pc = "local" /\ reader'[r].vec = v /\ reader'[r].first = o /\ reader'[r].size = n
        /\ LocalInv(r)'
    BY <1>2, <1>3, <1>5, <1>6, StartLocal
  <1>8. PICK at : Kept(at, "none")
    BY <1>2, KeptSame
  <1>9. DvsStay /\ StoresGrow
    BY <1>2 DEF DvsStay, StoresGrow
  <1>10. PartsStay
    BY <1>0, <1>9, PartsGrow
  <1>11. \A q \in Procs \ {r} : RangeRests(q) /\ ReaderRests(q)
    BY <1>7, SameRests
  <1>12. ASSUME NEW q \in Procs
         PROVE  LocalInv(q)'
    <2>1. CASE q = r
      BY <1>7, <2>1
    <2>2. CASE q # r
      BY <1>0, <1>10, <1>11, <2>2, LocalKept, PlaceParts
    <2>. QED
      BY <2>1, <2>2
  <1>13. ASSUME NEW h \in Groups
         PROVE  FetchInv(h)'
    <2>1. SUFFICES ASSUME job'[h] # None, NEW t \in DOMAIN h
                   PROVE  FetchOne(h, t)'
      BY DEF FetchInv
    <2>2. job[h] # None /\ SameJob(h) /\ h[t] \in Ranks /\ h[t] \in Procs /\ FetchOne(h, t)
      BY <1>0, <1>2, <2>1, GroupProcs, PlaceParts DEF SameJob, FetchInv
    <2>3. CASE h[t] # r
      BY <1>0, <1>2, <1>10, <1>11, <2>1, <2>2, <2>3, FetchOneKept
    <2>4. CASE h[t] = r
      <3>1. h = g
        BY <1>0, <1>1, <1>2, <2>1, <2>2, <2>4, JobsApart
      <3>2. t = s
        BY <1>1, <2>1, <2>4, <3>1, GroupsAssumption
      <3>3. First(g, s)' = First(g, s) /\ Size(g, s)' = Size(g, s) /\ source'[job'[g]] = v
        BY <1>1, <1>2 DEF First, Size, Descriptor
      <3>4. made'[r] = << >>
        BY <1>2
      <3>. QED
        BY <1>1, <1>4, <1>7, <3>1, <3>2, <3>3, <3>4 DEF FetchOne
    <2>. QED
      BY <2>3, <2>4
  <1>14. BusyInv'
    <2>1. Busy(r)'
      BY <1>1, <1>2 DEF Busy
    <2>2. \A q \in Ranks : Busy(q) => Busy(q)'
      BY <1>2 DEF Busy
    <2>3. \A q \in Ranks \ {r} : Active(q)' => Active(q)
      BY <1>0, <1>11 DEF RangeRests
    <2>4. BusyInv
      BY PlaceParts
    <2>. QED
      BY <1>2, <2>1, <2>2, <2>3, <2>4 DEF BusyInv
  <1>15. WholeInv'
    <2>1. RangeRests(Client)
      BY <1>0, <1>2, <1>11
    <2>. QED
      BY <1>0, <1>9, <2>1, WholeKept, PlaceParts
  <1>16. SeenInv'
    BY <1>0, <1>2, <1>9, <1>10, SeenKept, PlaceParts
  <1>17. LeavingInv'
    BY <1>8, <1>9, LeavingKept, PlaceParts
  <1>. QED
    BY <1>12, <1>13, <1>14, <1>15, <1>16, <1>17, PlaceWhole

LEMMA CallFetchPlaces ==
    ASSUME ReadInv, PlaceInv, NEW g \in Groups, NEW v \in Vectors, NEW w \in Vectors, CallFetch(g, v, w)
    PROVE  PlaceInv'
  <1>0. /\ Client \in Procs /\ Ranks \subseteq Procs /\ ReadTypes /\ VectorTypes /\ JobInv
        /\ \A r \in Procs : ReaderInv(r)
    BY ReadParts DEF ReadTypes, Procs
  <1>1. /\ Unused(w) /\ CanLive(g) /\ job[g] = None
        /\ job' = [job EXCEPT ![g] = w] /\ source' = [source EXCEPT ![w] = v]
        /\ UNCHANGED <<mgmt, store, dvs, made, reader, seen, released>>
    BY DEF CallFetch, servers
  <1>2. w # None /\ \A h \in Groups : job[h] # w
    BY <1>0, <1>1 DEF Unused, Vectors, None, JobInv
  <1>3. PICK at : Kept(at, "none")
    BY <1>1, KeptSame
  <1>4. DvsStay /\ StoresGrow
    BY <1>1 DEF DvsStay, StoresGrow
  <1>5. PartsStay
    BY <1>0, <1>4, PartsGrow
  <1>6. \A r \in Procs : RangeRests(r) /\ ReaderRests(r)
    BY <1>1, SameRests
  <1>7. job'[g] = w /\ \A h \in Groups \ {g} : job'[h] = job[h]
    BY <1>0, <1>1 DEF VectorTypes
  <1>8. ASSUME NEW r \in Procs
        PROVE  LocalInv(r)'
    BY <1>0, <1>5, <1>6, LocalKept, PlaceParts
  <1>9. ASSUME NEW h \in Groups
        PROVE  FetchInv(h)'
    <2>1. \A t \in DOMAIN h : h[t] \in Procs /\ h[t] \in Ranks
      BY <1>0, GroupProcs
    <2>2. CASE h # g
      <3>1. SameJob(h) /\ \A t \in DOMAIN h : made'[h[t]] = made[h[t]] /\ RangeRests(h[t])
        BY <1>0, <1>1, <1>2, <1>6, <1>7, <2>1, <2>2 DEF SameJob, VectorTypes
      <3>2. FetchInv(h) /\ \A t \in DOMAIN h : ReaderInv(h[t])
        BY <1>0, <2>1, PlaceParts
      <3>. QED
        BY <1>0, <1>5, <3>1, <3>2, FetchKept
    <2>3. CASE h = g
      <3>1. ASSUME NEW s \in DOMAIN g
            PROVE  ~ Busy(g[s])
        <4>1. ASSUME NEW k \in Groups, job[k] # None, NEW t \in DOMAIN k, k[t] = g[s]
              PROVE  FALSE
          <5>1. k # g /\ Share(g, k)
            BY <1>1, <4>1 DEF Share
          <5>. QED
            BY <1>1, <4>1, <5>1 DEF CanLive
        <4>. QED
          BY <4>1 DEF Busy
      <3>2. ASSUME NEW s \in DOMAIN g
            PROVE  FetchOne(g, s)'
        <4>1. ~ Active(g[s]) /\ made[g[s]] = << >>
          BY <2>1, <2>3, <3>1, PlaceParts DEF BusyInv
        <4>2. ~ Active(g[s])' /\ made'[g[s]] = << >>
          BY <1>1, <4>1 DEF Active
        <4>. QED
          BY <4>2 DEF FetchOne
      <3>. QED
        BY <2>3, <3>2 DEF FetchInv
    <2>. QED
      BY <2>2, <2>3
  <1>10. BusyInv'
    <2>1. \A h \in Groups : job[h] # None => job'[h] # None
      BY <1>2, <1>7
    <2>2. \A r \in Ranks : (Active(r)' => Active(r)) /\ made'[r] = made[r]
      BY <1>0, <1>1, <1>6 DEF RangeRests
    <2>. QED
      BY <2>1, <2>2, BusyKept, PlaceParts
  <1>11. WholeInv'
    BY <1>0, <1>4, <1>6, WholeKept, PlaceParts
  <1>12. SeenInv'
    BY <1>0, <1>1, <1>4, <1>5, SeenKept, PlaceParts
  <1>13. LeavingInv'
    BY <1>3, <1>4, LeavingKept, PlaceParts
  <1>. QED
    BY <1>8, <1>9, <1>10, <1>11, <1>12, <1>13, PlaceWhole

-----------------------------------------------------------------------------
\* Reads that end: the processes of an actor read the whole vector.

\* A part with bytes is one that some process of the actor reads.
LEMMA AllMet ==
    ASSUME NEW g \in Groups, NEW dv \in Seq(Part), Descriptor(g) = dv, VecSize(dv) <= IntMax,
           NEW i \in 1..Len(dv), dv[i].size > 0
    PROVE  \E s \in DOMAIN g : i \in Met(dv, First(g, s), Size(g, s))
  <1>1. Len(g) \in Nat \ {0} /\ DOMAIN g = 1..Len(g)
    BY GroupProcs
  <1>2. PICK n : n = VecSize(dv)
    OBVIOUS
  <1>3. n \in Nat /\ PartEnd(dv[i]) <= n
    BY <1>2, VecSizeFacts
  <1>4. dv[i] \in Part /\ DOMAIN dv = 1..Len(dv)
    OBVIOUS
  <1>5. PICK b, e : b = dv[i].offset /\ e = PartEnd(dv[i])
    OBVIOUS
  <1>6. b \in Nat /\ e \in Nat /\ b < e /\ e <= n
    BY <1>3, <1>4, <1>5 DEF Part, PartEnd
  <1>7. PICK q : q = Len(g)
    OBVIOUS
  <1>8. IntMax \in Int /\ n \in 0..IntMax
    BY <1>2, <1>3, IntMaxAssumption
  <1>9. PICK s \in 1..q : Beg(n, s - 1, q) <= b /\ b < End(n, s - 1, q)
    <2>1. b \in Nat /\ b < n /\ q \in Nat \ {0}
      BY <1>1, <1>3, <1>6, <1>7
    <2>2. \E s \in 1..q : Beg(n, s - 1, q) <= b /\ b < End(n, s - 1, q)
      BY <1>8, <2>1, RangesCover, Zenon
    <2>. QED
      BY <2>2
  <1>10. PICK o, z : o = First(g, s) /\ z = Size(g, s)
    OBVIOUS
  <1>11. o = Beg(n, s - 1, q) /\ z = End(n, s - 1, q) - o
    BY <1>2, <1>7, <1>10 DEF First, Size
  <1>12. Beg(n, s - 1, q) \in Int /\ End(n, s - 1, q) \in Int
    BY <1>1, <1>3, <1>7, RangeTypes
  <1>13. ~ (e <= o) /\ ~ (b >= o + z)
    BY <1>6, <1>9, <1>11, <1>12
  <1>14. i \in Met(dv, o, z)
    BY <1>4, <1>5, <1>13 DEF Met, Meets
  <1>. QED
    BY <1>1, <1>7, <1>10, <1>14

LEMMA EndFetchPlaces ==
    ASSUME SizesFit, ReadInv, PlaceInv, NEW g \in Groups, EndFetch(g)
    PROVE  PlaceInv'
  <1>0. /\ Client \in Procs /\ Ranks \subseteq Procs /\ ReadTypes /\ VectorTypes /\ JobInv
        /\ \A r \in Procs : ReaderInv(r)
    BY ReadParts DEF ReadTypes, Procs
  <1>1. PICK v : v = source[job[g]]
    OBVIOUS
  <1>2. /\ job[g] # None /\ \A s \in DOMAIN g : made[g[s]] # << >>
        /\ dvs' = [dvs EXCEPT ![job[g]] = Collected(g)] /\ seen' = seen \cup {<<g[1], v>>}
        /\ made' = [r \in Ranks |-> IF \E s \in DOMAIN g : g[s] = r THEN << >> ELSE made[r]]
        /\ job' = [job EXCEPT ![g] = None]
        /\ UNCHANGED <<mgmt, store, reader, source, released>>
    BY <1>1 DEF EndFetch, Collected, servers
  <1>3. v \in Vectors /\ v \notin released /\ dvs[v] \in Seq(Part)
    BY <1>0, <1>1, <1>2 DEF JobInv, VectorTypes
  <1>4. PICK at : Kept(at, "none")
    BY <1>2, KeptSame
  <1>5. DvsStay
    <2>1. dvs[job[g]] = << >> /\ \A u \in Vectors : u # job[g] => dvs'[u] = dvs[u]
      BY <1>0, <1>2 DEF JobInv, VectorTypes
    <2>. QED
      BY <2>1 DEF DvsStay
  <1>6. StoresGrow
    BY <1>2 DEF StoresGrow
  <1>7. PartsStay
    BY <1>0, <1>5, <1>6, PartsGrow
  <1>8. \A r \in Procs : RangeRests(r) /\ ReaderRests(r)
    BY <1>2, SameRests
  <1>9. job'[g] = None /\ \A h \in Groups \ {g} : job'[h] = job[h]
    BY <1>0, <1>2 DEF VectorTypes
  <1>10. \A r \in Ranks : made'[r] = IF \E s \in DOMAIN g : g[s] = r THEN << >> ELSE made[r]
    BY <1>2
  <1>11. ASSUME NEW r \in Procs
         PROVE  LocalInv(r)'
    BY <1>0, <1>7, <1>8, LocalKept, PlaceParts
  <1>12. ASSUME NEW h \in Groups
         PROVE  FetchInv(h)'
    <2>1. CASE h = g
      BY <1>9, <2>1 DEF FetchInv
    <2>2. CASE job[h] = None
      BY <1>9, <2>2 DEF FetchInv
    <2>3. CASE h # g /\ job[h] # None
      <3>1. \A t \in DOMAIN h : h[t] \in Procs /\ h[t] \in Ranks
        BY <1>0, GroupProcs
      <3>2. \A t \in DOMAIN h : made'[h[t]] = made[h[t]]
        <4>1. \A t \in DOMAIN h, s \in DOMAIN g : g[s] # h[t]
          BY <1>0, <1>2, <2>3, JobsApart
        <4>. QED
          BY <1>10, <3>1, <4>1
      <3>3. SameJob(h)
        BY <1>2, <1>9, <2>3 DEF SameJob
      <3>4. FetchInv(h) /\ \A t \in DOMAIN h : ReaderInv(h[t]) /\ RangeRests(h[t])
        BY <1>0, <1>8, <3>1, PlaceParts
      <3>. QED
        BY <1>0, <1>7, <3>2, <3>3, <3>4, FetchKept
    <2>. QED
      BY <2>1, <2>2, <2>3
  <1>13. BusyInv'
    <2>1. ASSUME NEW r \in Ranks, Active(r) \/ made'[r] # << >>
          PROVE  Busy(r)' /\ (Active(r) => made'[r] = << >>)
      <3>1. \A s \in DOMAIN g : g[s] # r
        <4>1. Active(r) => made[r] = << >>
          BY PlaceParts DEF BusyInv
        <4>. QED
          BY <1>2, <1>10, <2>1, <4>1
      <3>2. made'[r] = made[r] /\ Busy(r) /\ (Active(r) => made[r] = << >>)
        BY <1>10, <2>1, <3>1, PlaceParts DEF BusyInv
      <3>3. PICK h \in Groups : job[h] # None /\ \E s \in DOMAIN h : h[s] = r
        BY <3>2 DEF Busy
      <3>4. h # g
        BY <3>1, <3>3
      <3>. QED
        BY <1>9, <3>2, <3>3, <3>4 DEF Busy
    <2>2. \A r \in Ranks : Active(r)' <=> Active(r)
      BY <1>2 DEF Active
    <2>. QED
      BY <2>1, <2>2 DEF BusyInv
  <1>14. WholeInv'
    BY <1>0, <1>5, <1>8, WholeKept, PlaceParts
  <1>15. LeavingInv'
    BY <1>4, <1>5, <1>6, LeavingKept, PlaceParts
  <1>16. SeenInv'
    <2>1. \A s \in DOMAIN g : dvs[v] # << >> /\ RangeStored(v, First(g, s), Size(g, s))
      <3>1. \A s \in DOMAIN g : FetchOne(g, s)
        BY <1>2, PlaceParts DEF FetchInv
      <3>2. Descriptor(g) = dvs[v]
        BY <1>1 DEF Descriptor
      <3>. QED
        BY <1>1, <1>2, <3>1, <3>2 DEF FetchOne
    <2>2. 1 \in DOMAIN g
      BY GroupProcs
    <2>3. BytesStored(v)
      <3>1. ASSUME NEW i \in 1..Len(dvs[v]), dvs[v][i].size > 0
            PROVE  Stored(v, i)
        <4>1. PICK dv \in Seq(Part) : dv = dvs[v]
          BY <1>3
        <4>2. PICK s \in DOMAIN g : i \in Met(dv, First(g, s), Size(g, s))
          <5>1. Descriptor(g) = dv /\ VecSize(dv) <= IntMax
            BY <1>1, <1>3, <4>1 DEF Descriptor, SizesFit
          <5>2. i \in 1..Len(dv) /\ dv[i].size > 0
            BY <3>1, <4>1
          <5>. QED
            BY <5>1, <5>2, AllMet
        <4>. QED
          BY <2>1, <4>1, <4>2 DEF RangeStored
      <3>. QED
        BY <3>1 DEF BytesStored
    <2>4. dvs'[v] # << >> /\ BytesStored(v)'
      <3>1. dvs[v] # << >>
        BY <2>1, <2>2
      <3>. QED
        BY <1>0, <1>3, <1>7, <2>3, <3>1, RangeKept DEF ReadTypes
    <2>5. ASSUME NEW r \in Procs, NEW u \in Vectors, <<r, u>> \in seen'
          PROVE  dvs'[u] # << >> /\ (u \notin released' => BytesStored(u)')
      <3>1. CASE <<r, u>> \in seen
        <4>1. dvs[u] # << >> /\ (u \notin released => BytesStored(u))
          BY <3>1, PlaceParts DEF SeenInv
        <4>2. dvs'[u] # << >>
          BY <1>5, <4>1 DEF DvsStay
        <4>. QED
          BY <1>0, <1>2, <1>7, <4>1, <4>2, RangeKept
      <3>2. CASE <<r, u>> \notin seen
        <4>1. u = v
          BY <1>2, <2>5, <3>2
        <4>2. dvs'[u] # << >> /\ (BytesStored(u)' <=> BytesStored(v)')
          BY <2>4, <4>1 DEF BytesStored, Stored
        <4>. QED
          BY <2>4, <4>2
      <3>. QED
        BY <3>1, <3>2
    <2>. QED
      BY <2>5 DEF SeenInv
  <1>. QED
    BY <1>11, <1>12, <1>13, <1>14, <1>15, <1>16, PlaceWhole

\* A reader that has got everything: the parts it read are in the stores of their processes.
LEMMA GotRange ==
    ASSUME KeyInv, ReadInv, NEW r \in Procs, LocalInv(r), GotAll(r)
    PROVE  RangeStored(reader[r].vec, reader[r].first, reader[r].size)
  <1>0. ReadTypes /\ VectorTypes /\ ReaderInv(r) /\ Active(r) /\ Receiving(r)
    BY ReadParts DEF ReadTypes, GotAll, Active, Receiving
  <1>1. PICK v : v = reader[r].vec
    OBVIOUS
  <1>2. v \in Vectors /\ Vec(r) = dvs[v] /\ dvs[v] \in Seq(Part)
    BY <1>0, <1>1 DEF ReaderInv, Vec, VectorTypes
  <1>3. SUFFICES ASSUME NEW i \in Met(dvs[v], reader[r].first, reader[r].size)
                 PROVE  Stored(v, i)
    BY <1>1 DEF RangeStored
  <1>4. i \in 1..Len(dvs[v])
    BY <1>2 DEF Met
  <1>5. PICK p \in Ranks : p = dvs[v][i].pid
    BY <1>0, <1>2, <1>4 DEF VectorTypes
  <1>6. i \in Wanted(r, p)
    BY <1>2, <1>3, <1>5 DEF Wanted
  <1>7. CASE p = r
    <2>1. Stored(v, i) \/ \E k \in 1..Len(reader[r].local) : reader[r].local[k].resid = Vec(r)[i].resid
      BY <1>0, <1>1, <1>6, <1>7 DEF LocalInv
    <2>2. reader[r].local = << >>
      BY <1>0 DEF LocalInv
    <2>. QED
      BY <2>1, <2>2, IdleRecord
  <1>8. CASE p # r
    <2>1. NotYet(r, p) = {}
      BY <1>8, GotAllDone
    <2>2. Vec(r)[i].resid \in DOMAIN store[p]
      BY <1>6, <2>1 DEF NotYet
    <2>. QED
      BY <1>2, <1>5, <2>2 DEF Stored
  <1>. QED
    BY <1>7, <1>8

LEMMA ProgramGotPlaces ==
    ASSUME KeyInv, ReadInv, PlaceInv, ProgramGot
    PROVE  PlaceInv'
  <1>0. /\ Client \in Procs /\ Ranks \subseteq Procs /\ Client \notin Ranks
        /\ ReadTypes /\ ReaderTypes /\ VectorTypes /\ JobInv /\ \A r \in Procs : ReaderInv(r)
    BY ReadParts, ClientAssumption DEF ReadTypes, Procs
  <1>1. PICK v : v = reader[Client].vec
    OBVIOUS
  <1>2. /\ GotAll(Client) /\ seen' = seen \cup {<<Client, v>>} /\ reader' = [reader EXCEPT ![Client] = Idle]
        /\ UNCHANGED <<mgmt, store, dvs, source, job, made, released>>
    BY <1>1 DEF ProgramGot, servers
  <1>3. v \in Vectors /\ dvs[v] # << >> /\ dvs[v] \in Seq(Part) /\ Active(Client)
    <2>1. Active(Client)
      BY <1>2 DEF GotAll, Active
    <2>. QED
      BY <1>0, <1>1, <2>1 DEF ReaderInv, Vec, VectorTypes
  <1>4. PICK at : Kept(at, "none")
    BY <1>2, KeptSame
  <1>5. DvsStay /\ StoresGrow
    BY <1>2 DEF DvsStay, StoresGrow
  <1>6. PartsStay
    BY <1>0, <1>5, PartsGrow
  <1>7. \A r \in Procs : RangeRests(r) /\ ReaderRests(r)
    <2>1. reader'[Client].pc = "idle" /\ \A q \in Procs \ {Client} : reader'[q] = reader[q]
      BY <1>0, <1>2, ReaderIdle
    <2>2. ~ Active(Client)'
      BY <2>1 DEF Active
    <2>. QED
      BY <2>1, <2>2, SameRests, EndedRests
  <1>8. ASSUME NEW r \in Procs
        PROVE  LocalInv(r)'
    BY <1>0, <1>6, <1>7, LocalKept, PlaceParts
  <1>9. ASSUME NEW g \in Groups
        PROVE  FetchInv(g)'
    <2>1. \A s \in DOMAIN g : g[s] \in Procs
      BY <1>0, GroupProcs
    <2>2. SameJob(g) /\ \A s \in DOMAIN g : made'[g[s]] = made[g[s]] /\ RangeRests(g[s])
      BY <1>2, <1>7, <2>1 DEF SameJob
    <2>3. FetchInv(g) /\ \A s \in DOMAIN g : ReaderInv(g[s])
      BY <1>0, <2>1, PlaceParts
    <2>. QED
      BY <1>0, <1>6, <2>2, <2>3, FetchKept
  <1>10. BusyInv'
    <2>1. \A r \in Ranks : (Active(r)' => Active(r)) /\ made'[r] = made[r]
      BY <1>0, <1>2, <1>7 DEF RangeRests
    <2>. QED
      BY <1>2, <2>1, BusyKept, PlaceParts
  <1>11. WholeInv'
    BY <1>0, <1>5, <1>7, WholeKept, PlaceParts
  <1>12. LeavingInv'
    BY <1>4, <1>5, LeavingKept, PlaceParts
  <1>13. SeenInv'
    <2>1. BytesStored(v)
      <3>1. PICK dv \in Seq(Part) : dv = dvs[v]
        BY <1>3
      <3>2. RangeStored(v, 0, VecSize(dv))
        <4>1. RangeStored(reader[Client].vec, reader[Client].first, reader[Client].size)
          BY <1>0, <1>2, GotRange, PlaceParts
        <4>2. reader[Client].first = 0 /\ reader[Client].size = VecSize(dv)
          BY <1>1, <1>3, <3>1, PlaceParts DEF WholeInv, Vec
        <4>. QED
          BY <1>1, <4>1, <4>2
      <3>3. ASSUME NEW i \in 1..Len(dv), dv[i].size > 0
            PROVE  Stored(v, i)
        <4>1. PICK n : n = VecSize(dv)
          OBVIOUS
        <4>2. n \in Nat /\ PartEnd(dv[i]) <= n
          BY <4>1, VecSizeFacts
        <4>3. dv[i] \in Part /\ DOMAIN dv = 1..Len(dv)
          OBVIOUS
        <4>4. ~ (PartEnd(dv[i]) <= 0) /\ ~ (dv[i].offset >= 0 + n)
          BY <3>3, <4>2, <4>3 DEF Part, PartEnd
        <4>5. i \in Met(dv, 0, n)
          BY <4>3, <4>4 DEF Met, Meets
        <4>. QED
          BY <3>1, <3>2, <4>1, <4>5 DEF RangeStored
      <3>. QED
        BY <3>1, <3>3 DEF BytesStored
    <2>2. SeenInv
      BY PlaceParts
    <2>3. \A u : BytesStored(u)' <=> BytesStored(u)
      BY <1>2 DEF BytesStored, Stored
    <2>4. ASSUME NEW r \in Procs, NEW u \in Vectors, <<r, u>> \in seen'
          PROVE  dvs'[u] # << >> /\ (u \notin released' => BytesStored(u)')
      <3>1. CASE <<r, u>> \in seen
        BY <1>2, <2>2, <2>3, <3>1 DEF SeenInv
      <3>2. CASE <<r, u>> \notin seen
        <4>1. u = v
          BY <1>2, <2>4, <3>2
        <4>. QED
          BY <1>2, <1>3, <2>1, <2>3, <4>1
      <3>. QED
        BY <3>1, <3>2
    <2>. QED
      BY <2>4 DEF SeenInv
  <1>. QED
    BY <1>8, <1>9, <1>10, <1>11, <1>12, <1>13, PlaceWhole

\* A process that has read its range makes its parts of the new vector.
LEMMA StoreAndRegisterPlaces ==
    ASSUME KeyInv, ReadInv, PlaceInv, NEW g \in Groups, NEW s \in DOMAIN g, NEW extra \in Misdeclared,
           StoreAndRegister(g, g[s], extra)
    PROVE  PlaceInv'
  <1>0. /\ Client \in Procs /\ Ranks \subseteq Procs /\ Client \notin Ranks /\ g[s] \in Ranks
        /\ ReadTypes /\ ReaderTypes /\ VectorTypes /\ JobInv /\ KeyTypes /\ \A r \in Procs : ReaderInv(r)
    BY ReadParts, ClientAssumption, GroupProcs DEF ReadTypes, Procs, KeyInv
  <1>1. PICK v, r : v = source[job[g]] /\ r = g[s]
    OBVIOUS
  <1>2. /\ job[g] # None /\ GotAll(r) /\ r \in Ranks /\ r \in Procs
        /\ made' = [made EXCEPT ![r] = Registered(r, extra)] /\ reader' = [reader EXCEPT ![r] = Idle]
        /\ UNCHANGED <<store, dvs, source, job, seen, released>>
    BY <1>0, <1>1 DEF StoreAndRegister, servers, program
  <1>3. v \in Vectors /\ v \notin released
    BY <1>0, <1>1, <1>2 DEF JobInv
  <1>4. reader'[r].pc = "idle" /\ \A q \in Procs \ {r} : reader'[q] = reader[q]
    BY <1>0, <1>2, ReaderIdle
  <1>5. ~ Active(r)' /\ Active(r)
    BY <1>2, <1>4 DEF Active, GotAll
  <1>6. \A q \in Procs : RangeRests(q) /\ ReaderRests(q)
    BY <1>4, <1>5, SameRests, EndedRests
  <1>7. \A q \in Ranks \ {r} : made'[q] = made[q]
    BY <1>0, <1>2 DEF VectorTypes
  <1>8. PICK at : Kept(at, "STORE")
    <2>1. \A c \in Procs, p \in Ranks : \A i \in 1..Len(mgmt'[c][p]) :
              (i \in 1..Len(mgmt[c][p]) /\ mgmt'[c][p][i] = mgmt[c][p][i]) \/ mgmt'[c][p][i].type = "STORE"
      <3>1. /\ \A d \in Procs, q \in Ranks : d # r \/ q # r => mgmt'[d][q] = mgmt[d][q]
            /\ \A i \in 1..Len(mgmt'[r][r]) :
                  (i \in 1..Len(mgmt[r][r]) /\ mgmt'[r][r][i] = mgmt[r][r][i]) \/ mgmt'[r][r][i].type = "STORE"
        BY <1>0, <1>1, RegisterEffect
      <3>. QED
        BY <3>1
    <2>. QED
      BY <2>1, KeptGrown
  <1>9. DvsStay /\ StoresGrow
    BY <1>2 DEF DvsStay, StoresGrow
  <1>10. PartsStay
    BY <1>0, <1>9, PartsGrow
  <1>11. ASSUME NEW q \in Procs
         PROVE  LocalInv(q)'
    BY <1>0, <1>6, <1>10, LocalKept, PlaceParts
  <1>12. ASSUME NEW h \in Groups
         PROVE  FetchInv(h)'
    <2>1. SUFFICES ASSUME job'[h] # None, NEW t \in DOMAIN h
                   PROVE  FetchOne(h, t)'
      BY DEF FetchInv
    <2>2. job[h] # None /\ SameJob(h) /\ h[t] \in Ranks /\ h[t] \in Procs /\ FetchOne(h, t)
      BY <1>0, <1>2, <2>1, GroupProcs, PlaceParts DEF SameJob, FetchInv
    <2>3. CASE h[t] # r
      <3>1. made'[h[t]] = made[h[t]] /\ RangeRests(h[t]) /\ ReaderInv(h[t])
        BY <1>0, <1>6, <1>7, <2>2, <2>3
      <3>. QED
        BY <1>0, <1>10, <2>1, <2>2, <3>1, FetchOneKept
    <2>4. CASE h[t] = r
      <3>1. h = g
        BY <1>0, <1>1, <1>2, <2>1, <2>2, <2>4, JobsApart
      <3>2. t = s
        BY <1>1, <2>1, <2>4, <3>1, GroupsAssumption
      <3>3. reader[r].vec = v /\ reader[r].first = First(g, s) /\ reader[r].size = Size(g, s)
        BY <1>1, <1>5, <2>2, <3>1, <3>2 DEF FetchOne
      <3>4. dvs[v] # << >> /\ RangeStored(v, First(g, s), Size(g, s))
        <4>1. LocalInv(r) /\ ReaderInv(r)
          BY <1>0, <1>2, PlaceParts
        <4>2. dvs[v] # << >>
          BY <1>5, <3>3, <4>1 DEF ReaderInv, Vec
        <4>. QED
          BY <1>2, <3>3, <4>1, <4>2, GotRange
      <3>5. First(g, s)' = First(g, s) /\ Size(g, s)' = Size(g, s) /\ source'[job'[g]] = v /\ Descriptor(g)' = dvs[v]
        BY <1>1, <1>2 DEF First, Size, Descriptor
      <3>6. \A f, z : RangeStored(v, f, z)' <=> RangeStored(v, f, z)
        BY <1>2 DEF RangeStored, Stored
      <3>. QED
        BY <1>1, <1>5, <3>1, <3>2, <3>4, <3>5, <3>6 DEF FetchOne
    <2>. QED
      BY <2>3, <2>4
  <1>13. BusyInv'
    <2>1. Busy(r)'
      BY <1>1, <1>2 DEF Busy
    <2>2. \A q \in Ranks : Busy(q) => Busy(q)'
      BY <1>2 DEF Busy
    <2>3. \A q \in Ranks \ {r} : (Active(q)' => Active(q)) /\ made'[q] = made[q]
      BY <1>0, <1>6, <1>7 DEF RangeRests
    <2>4. BusyInv
      BY PlaceParts
    <2>. QED
      BY <1>5, <2>1, <2>2, <2>3, <2>4 DEF BusyInv
  <1>14. WholeInv'
    BY <1>0, <1>6, <1>9, WholeKept, PlaceParts
  <1>15. SeenInv'
    BY <1>0, <1>2, <1>9, <1>10, SeenKept, PlaceParts
  <1>16. LeavingInv'
    BY <1>8, <1>9, LeavingKept, PlaceParts
  <1>. QED
    BY <1>11, <1>12, <1>13, <1>14, <1>15, <1>16, PlaceWhole

-----------------------------------------------------------------------------
\* Releases.

\* The parts of a vector that was not released are not those of one that was.
LEMMA ReleasedApart ==
    ASSUME ReadInv, NEW v \in Vectors, v \notin released, NEW k \in 1..Len(dvs[v]),
           NEW p \in Ranks, NEW i \in 1..Len(mgmt[Client][p]), Leaving(p, i)
    PROVE  ~ (dvs[v][k].pid = p /\ dvs[v][k].resid = mgmt[Client][p][i].resid)
  <1>0. ReleaseInv /\ PartsApart /\ VectorTypes /\ Client \in Procs
    BY ReadParts DEF ReadTypes, Procs
  <1>1. PICK w \in released : \E j \in 1..Len(dvs[w]) :
            dvs[w][j].pid = p /\ dvs[w][j].resid = mgmt[Client][p][i].resid
    BY <1>0, ReleaseOne DEF Leaving
  <1>2. w \in Vectors /\ w # v
    BY <1>0, <1>1 DEF VectorTypes
  <1>. QED
    BY <1>0, <1>1, <1>2 DEF PartsApart, SamePart

LEMMA ReleaseVectorPlaces ==
    ASSUME KeyInv, ReadInv, PlaceInv, NEW v \in Vectors, ReleaseVector(v)
    PROVE  PlaceInv'
  <1>0. /\ KeyTypes /\ VectorTypes /\ PartsApart /\ SeenInv /\ LeavingInv /\ Client \in Procs
    BY ReadParts, PlaceParts DEF ReadTypes, KeyInv, Procs
  <1>1. PICK n \in Nat : n = Len(dvs[v])
    BY <1>0 DEF VectorTypes
  <1>2. PICK mail : mail = [i \in 1..n |-> [to |-> dvs[v][i].pid, msg |-> ReleaseMsg(dvs[v][i].resid)]]
    OBVIOUS
  <1>3. /\ mgmt' = SendAll(Client, mail) /\ released' = released \cup {v} /\ v \notin released
        /\ \E r \in Procs : <<r, v>> \in seen
        /\ UNCHANGED <<store, dvs, source, job, made, reader, seen>>
    BY <1>1, <1>2 DEF ReleaseVector, servers
  <1>4. DOMAIN mail = 1..n /\ \A k \in 1..n : mail[k].to = dvs[v][k].pid /\ mail[k].msg = ReleaseMsg(dvs[v][k].resid)
    BY <1>2
  <1>5. /\ \A p \in Ranks : \A i \in 1..Len(mgmt[Client][p]) : mgmt'[Client][p][i] = mgmt[Client][p][i]
        /\ \A p \in Ranks : \A i \in 1..Len(mgmt'[Client][p]) : i \notin 1..Len(mgmt[Client][p]) =>
              /\ Place(Client, mail, p, i) \in 1..n /\ mail[Place(Client, mail, p, i)].to = p
              /\ mgmt'[Client][p][i] = mail[Place(Client, mail, p, i)].msg
        /\ \A p \in Ranks : \A i, j \in 1..Len(mgmt'[Client][p]) :
              i \notin 1..Len(mgmt[Client][p]) /\ j \notin 1..Len(mgmt[Client][p]) /\ i # j =>
                 Place(Client, mail, p, i) # Place(Client, mail, p, j)
    BY <1>0, <1>3, <1>4, SendAllEffect
  <1>6. BytesStored(v)
    BY <1>0, <1>3 DEF SeenInv
  <1>7. ASSUME NEW p \in Ranks, NEW i \in 1..Len(mgmt'[Client][p]), i \notin 1..Len(mgmt[Client][p])
        PROVE  \E k \in 1..n : /\ k = Place(Client, mail, p, i) /\ dvs[v][k].pid = p
                               /\ mgmt'[Client][p][i].resid = dvs[v][k].resid
    <2>1. PICK k : k = Place(Client, mail, p, i)
      OBVIOUS
    <2>2. k \in 1..n /\ mail[k].to = p /\ mgmt'[Client][p][i] = mail[k].msg
      BY <1>5, <1>7, <2>1
    <2>3. mail[k].to = dvs[v][k].pid /\ mail[k].msg = ReleaseMsg(dvs[v][k].resid)
      BY <1>4, <2>2
    <2>4. ReleaseMsg(dvs[v][k].resid).resid = dvs[v][k].resid
      BY DEF ReleaseMsg
    <2>5. dvs[v][k].pid = p /\ mgmt'[Client][p][i].resid = dvs[v][k].resid
      BY <2>2, <2>3, <2>4
    <2>. QED
      BY <2>1, <2>2, <2>5
  <1>8. LeavingInv'
    <2>1. SUFFICES ASSUME NEW p \in Ranks, NEW i \in 1..Len(mgmt'[Client][p]), Leaving(p, i)'
                   PROVE  /\ \/ mgmt'[Client][p][i].resid \in DOMAIN store'[p]
                             \/ WithoutBytes(p, mgmt[Client][p][i].resid)'
                          /\ \A j \in 1..Len(mgmt'[Client][p]) :
                                Leaving(p, j)' /\ i # j => mgmt'[Client][p][i].resid # mgmt'[Client][p][j].resid
      BY DEF LeavingInv
    <2>2. ASSUME NEW j \in 1..Len(mgmt'[Client][p]), Leaving(p, j)', j \in 1..Len(mgmt[Client][p])
          PROVE  Leaving(p, j) /\ mgmt'[Client][p][j].resid = mgmt[Client][p][j].resid
      BY <1>5, <2>2 DEF Leaving
    <2>3. PICK key : key = mgmt'[Client][p][i].resid
      OBVIOUS
    <2>4. key \in DOMAIN store[p] \/ WithoutBytes(p, key)
      <3>1. CASE i \in 1..Len(mgmt[Client][p])
        BY <1>0, <2>1, <2>2, <2>3, <3>1, LeavingOne
      <3>2. CASE i \notin 1..Len(mgmt[Client][p])
        <4>1. PICK k \in 1..n : dvs[v][k].pid = p /\ key = dvs[v][k].resid
          BY <1>7, <2>1, <2>3, <3>2
        <4>2. CASE dvs[v][k].size > 0
          BY <1>1, <1>6, <4>1, <4>2 DEF BytesStored, Stored
        <4>3. CASE ~ (dvs[v][k].size > 0)
          <5>1. dvs[v] \in Seq(Part) /\ DOMAIN dvs[v] = 1..n /\ dvs[v][k] \in Part
            BY <1>0, <1>1 DEF VectorTypes
          <5>2. dvs[v][k].size = 0
            BY <4>3, <5>1 DEF Part
          <5>. QED
            BY <4>1, <5>1, <5>2 DEF WithoutBytes
        <4>. QED
          BY <4>2, <4>3
      <3>. QED
        BY <3>1, <3>2
    <2>5. key \in DOMAIN store'[p] \/ WithoutBytes(p, mgmt[Client][p][i].resid)'
      <3>1. WithoutBytes(p, key) => WithoutBytes(p, key)'
        BY <1>3 DEF WithoutBytes
      <3>. QED
        BY <1>3, <2>3, <2>4, <3>1 DEF WithoutBytes
    <2>6. ASSUME NEW j \in 1..Len(mgmt'[Client][p]), Leaving(p, j)', i # j
          PROVE  key # mgmt'[Client][p][j].resid
      <3>1. CASE i \in 1..Len(mgmt[Client][p]) /\ j \in 1..Len(mgmt[Client][p])
        BY <1>0, <2>1, <2>2, <2>3, <2>6, <3>1, LeavingOne
      <3>2. CASE i \in 1..Len(mgmt[Client][p]) /\ j \notin 1..Len(mgmt[Client][p])
        <4>1. PICK k \in 1..n : dvs[v][k].pid = p /\ mgmt'[Client][p][j].resid = dvs[v][k].resid
          BY <1>7, <3>2
        <4>2. Leaving(p, i) /\ key = mgmt[Client][p][i].resid
          BY <2>1, <2>2, <2>3, <3>2
        <4>. QED
          BY <1>1, <1>3, <3>2, <4>1, <4>2, ReleasedApart
      <3>3. CASE i \notin 1..Len(mgmt[Client][p]) /\ j \in 1..Len(mgmt[Client][p])
        <4>1. PICK k \in 1..n : dvs[v][k].pid = p /\ key = dvs[v][k].resid
          BY <1>7, <2>3, <3>3
        <4>2. Leaving(p, j) /\ mgmt'[Client][p][j].resid = mgmt[Client][p][j].resid
          BY <2>2, <2>6, <3>3
        <4>. QED
          BY <1>1, <1>3, <3>3, <4>1, <4>2, ReleasedApart
      <3>4. CASE i \notin 1..Len(mgmt[Client][p]) /\ j \notin 1..Len(mgmt[Client][p])
        <4>1. PICK k \in 1..n : /\ k = Place(Client, mail, p, i) /\ dvs[v][k].pid = p
                                /\ key = dvs[v][k].resid
          BY <1>7, <2>3, <3>4
        <4>2. PICK l \in 1..n : /\ l = Place(Client, mail, p, j) /\ dvs[v][l].pid = p
                                /\ mgmt'[Client][p][j].resid = dvs[v][l].resid
          BY <1>7, <3>4
        <4>3. k # l
          BY <1>5, <2>6, <3>4, <4>1, <4>2
        <4>. QED
          BY <1>0, <1>1, <4>1, <4>2, <4>3 DEF PartsApart, SamePart
      <3>. QED
        BY <3>1, <3>2, <3>3, <3>4
    <2>. QED
      BY <2>3, <2>5, <2>6
  <1>9. DvsStay /\ StoresGrow
    BY <1>3 DEF DvsStay, StoresGrow
  <1>10. PartsStay
    BY <1>0, <1>9, PartsGrow
  <1>11. \A r \in Procs : RangeRests(r) /\ ReaderRests(r)
    BY <1>3, SameRests
  <1>12. released \subseteq released'
    BY <1>3
  <1>. QED
    BY <1>3, <1>8, <1>9, <1>10, <1>11, <1>12, RestPlaced

LEMMA HandleReleasePlaces ==
    ASSUME KeyInv, ReadInv, PlaceInv, NEW c \in Procs, NEW p \in Ranks, HandleRelease(c, p)
    PROVE  PlaceInv'
  <1>0. KeyTypes /\ SentInv /\ VectorTypes /\ ReleaseInv /\ LeavingInv
    BY ReadParts, PlaceParts DEF ReadTypes, KeyInv
  <1>1. /\ mgmt[c][p] # << >> /\ mgmt' = Received(c, p) /\ Head(mgmt[c][p]).type = "RELEASE"
        /\ store' = [store EXCEPT ![p] = RemovePart(store[p], Head(mgmt[c][p]).resid)]
        /\ UNCHANGED <<dvs, source, job, made, reader, seen, released>>
    BY <1>0 DEF HandleRelease, Handles, program, KeyTypes
  <1>2. 1 \in 1..Len(mgmt[c][p]) /\ Head(mgmt[c][p]) = mgmt[c][p][1]
    BY <1>0, <1>1, HeadSent
  <1>3. c = Client /\ Leaving(p, 1)
    BY <1>0, <1>1, <1>2, ReleaseOne DEF Leaving
  <1>4. PICK key : key = mgmt[Client][p][1].resid
    OBVIOUS
  <1>5. /\ DOMAIN store' = Ranks /\ DOMAIN store'[p] = DOMAIN store[p] \ {key}
        /\ \A q \in Ranks \ {p} : store'[q] = store[q]
    <2>1. DOMAIN RemovePart(store[p], key) = DOMAIN store[p] \ {key}
      BY DEF RemovePart, Restrict
    <2>2. store' = [store EXCEPT ![p] = RemovePart(store[p], key)] /\ DOMAIN store = Ranks
      BY <1>0, <1>1, <1>2, <1>3, <1>4 DEF KeyTypes
    <2>. QED
      BY <2>1, <2>2
  <1>6. /\ \A q \in Ranks : q # p => mgmt'[Client][q] = mgmt[Client][q]
        /\ \A i \in 1..Len(mgmt'[Client][p]) :
              /\ i + 1 \in 1..Len(mgmt[Client][p]) /\ mgmt'[Client][p][i] = mgmt[Client][p][i + 1]
              /\ i \in Nat
        /\ Client \in Procs
    BY <1>0, <1>1, <1>3, ReceivedEffect
  <1>7. PartsStay
    <2>1. SUFFICES ASSUME NEW v \in Vectors, v \notin released, NEW i \in 1..Len(dvs[v]), Stored(v, i)
                   PROVE  Stored(v, i)'
      BY <1>1 DEF PartsStay
    <2>2. PICK q \in Ranks : q = dvs[v][i].pid
      BY <1>0 DEF VectorTypes
    <2>3. ~ (q = p /\ dvs[v][i].resid = key)
      BY <1>2, <1>3, <1>4, <2>1, <2>2, ReleasedApart
    <2>4. dvs[v][i].resid \in DOMAIN store'[q]
      BY <1>5, <2>1, <2>2, <2>3 DEF Stored
    <2>. QED
      BY <1>1, <2>2, <2>4 DEF Stored
  <1>8. \A q, k : WithoutBytes(q, k) => WithoutBytes(q, k)'
    BY <1>1 DEF WithoutBytes
  <1>9. LeavingInv'
    <2>1. SUFFICES ASSUME NEW q \in Ranks, NEW i \in 1..Len(mgmt'[Client][q]), Leaving(q, i)'
                   PROVE  /\ \/ mgmt'[Client][q][i].resid \in DOMAIN store'[q]
                             \/ WithoutBytes(q, mgmt[Client][q][i].resid)'
                          /\ \A j \in 1..Len(mgmt'[Client][q]) :
                                Leaving(q, j)' /\ i # j => mgmt'[Client][q][i].resid # mgmt'[Client][q][j].resid
      BY DEF LeavingInv
    <2>2. PICK b : b = mgmt'[Client][q][i].resid
      OBVIOUS
    <2>3. b \in DOMAIN store'[q] \/ WithoutBytes(q, b)
      <3>1. CASE q # p
        BY <1>0, <1>5, <1>6, <2>1, <2>2, <3>1, LeavingOne DEF Leaving
      <3>2. CASE q = p
        <4>0. /\ i + 1 \in 1..Len(mgmt[Client][p]) /\ i \in Nat /\ i \in 1..Len(mgmt'[Client][p])
              /\ mgmt'[Client][p][i] = mgmt[Client][p][i + 1]
          BY <1>6, <3>2
        <4>1. i + 1 \in 1..Len(mgmt[Client][p]) /\ b = mgmt[Client][p][i + 1].resid /\ Leaving(p, i + 1)
              /\ i + 1 # 1
          <5>1. mgmt'[Client][p][i].type = "RELEASE"
            BY <2>1, <3>2 DEF Leaving
          <5>2. b = mgmt'[Client][p][i].resid
            BY <2>2, <3>2
          <5>3. i + 1 # 1
            <6>. HIDE DEF Leaving
            <6>1. i \in 1..Len(mgmt'[Client][q]) /\ i \in Nat
              BY <4>0
            <6>. QED
              BY <6>1
          <5>. QED
            BY <4>0, <5>1, <5>2, <5>3 DEF Leaving
        <4>2. b \in DOMAIN store[p] \/ WithoutBytes(p, b)
          BY <1>0, <4>1, LeavingOne
        <4>3. b # key
          BY <1>0, <1>2, <1>3, <1>4, <4>1, LeavingOne
        <4>. QED
          BY <1>5, <3>2, <4>2, <4>3
      <3>. QED
        BY <3>1, <3>2
    <2>4. b \in DOMAIN store'[q] \/ WithoutBytes(q, mgmt[Client][q][i].resid)'
      <3>1. WithoutBytes(q, b)' <=> WithoutBytes(q, mgmt[Client][q][i].resid)'
        BY <2>2 DEF WithoutBytes
      <3>. QED
        BY <1>8, <2>3, <3>1
    <2>5. ASSUME NEW j \in 1..Len(mgmt'[Client][q]), Leaving(q, j)', i # j
          PROVE  b # mgmt'[Client][q][j].resid
      <3>1. CASE q # p
        BY <1>0, <1>6, <2>1, <2>2, <2>5, <3>1, LeavingOne DEF Leaving
      <3>2. CASE q = p
        <4>1. /\ i + 1 \in 1..Len(mgmt[Client][p]) /\ b = mgmt[Client][p][i + 1].resid /\ Leaving(p, i + 1)
              /\ j + 1 \in 1..Len(mgmt[Client][p]) /\ mgmt'[Client][p][j] = mgmt[Client][p][j + 1]
              /\ Leaving(p, j + 1) /\ i + 1 # j + 1
          <5>1. /\ i + 1 \in 1..Len(mgmt[Client][p]) /\ i \in Nat
                /\ mgmt'[Client][p][i] = mgmt[Client][p][i + 1]
            BY <1>6, <3>2
          <5>2. /\ j + 1 \in 1..Len(mgmt[Client][p]) /\ j \in Nat
                /\ mgmt'[Client][p][j] = mgmt[Client][p][j + 1]
            BY <1>6, <3>2
          <5>3. mgmt'[Client][p][i].type = "RELEASE" /\ mgmt'[Client][p][j].type = "RELEASE"
            BY <2>1, <2>5, <3>2 DEF Leaving
          <5>4. b = mgmt'[Client][p][i].resid
            BY <2>2, <3>2
          <5>5. i + 1 # j + 1
            BY <2>5, <5>1, <5>2
          <5>. QED
            BY <5>1, <5>2, <5>3, <5>4, <5>5 DEF Leaving
        <4>. QED
          BY <1>0, <2>5, <3>2, <4>1, LeavingOne
      <3>. QED
        BY <3>1, <3>2
    <2>. QED
      BY <2>2, <2>4, <2>5
  <1>10. DvsStay /\ \A r \in Procs : RangeRests(r) /\ ReaderRests(r)
    BY <1>1, SameRests DEF DvsStay
  <1>. QED
    BY <1>1, <1>7, <1>9, <1>10, RestPlaced

-----------------------------------------------------------------------------
\* Every step.

LEMMA InitPlaces ==
    ASSUME Init
    PROVE  PlaceInv
  <1>0. Client \in Procs /\ Ranks \subseteq Procs
    BY DEF Procs
  <1>1. /\ \A p \in Ranks : mgmt[Client][p] = << >> /\ made[p] = << >>
        /\ \A g \in Groups : job[g] = None
        /\ \A r \in Procs : reader[r] = Idle
        /\ seen = {}
    BY <1>0 DEF Init
  <1>2. \A r \in Procs : ~ Active(r)
    BY <1>1, IdleRecord DEF Active
  <1>3. Len(<< >>) = 0 /\ 1..0 = {}
    OBVIOUS
  <1>4. \A r \in Procs : LocalInv(r)
    BY <1>2 DEF LocalInv
  <1>5. \A g \in Groups : FetchInv(g)
    BY <1>1 DEF FetchInv
  <1>6. BusyInv /\ WholeInv /\ SeenInv
    BY <1>0, <1>1, <1>2 DEF BusyInv, WholeInv, SeenInv
  <1>7. LeavingInv
    BY <1>1, <1>3 DEF LeavingInv
  <1>. QED
    BY <1>4, <1>5, <1>6, <1>7 DEF PlaceInv

LEMMA ServerPlaces ==
    ASSUME KeyInv, ReadInv, PlaceInv, NEW p \in Ranks, ServerStep(p) \/ SpuriousWakeup(p)
    PROVE  PlaceInv'
  <1>1. ASSUME NEW c \in Procs, HandleDistribute(c, p) PROVE PlaceInv'
    BY <1>1, HandleDistributePlaces
  <1>2. ASSUME NEW c \in Procs, HandleStore(c, p) PROVE PlaceInv'
    BY <1>2, HandleStorePlaces
  <1>3. ASSUME NEW c \in Procs, HandleGet(c, p) PROVE PlaceInv'
    BY <1>3, HandleGetPlaces
  <1>4. ASSUME NEW c \in Procs, HandleRelease(c, p) PROVE PlaceInv'
    BY <1>4, HandleReleasePlaces
  <1>5. CASE CheckDvPartRequired(p)
    BY <1>5, CheckDvPartPlaces
  <1>6. CASE SpuriousWakeup(p)
    BY <1>6, SpuriousWakeupPlaces DEF Procs
  <1>. QED
    BY <1>1, <1>2, <1>3, <1>4, <1>5, <1>6 DEF ServerStep

LEMMA ReaderPlaces ==
    ASSUME KeyInv, ReadInv, PlaceInv, NEW r \in Procs, ReaderStep(r)
    PROVE  PlaceInv'
  BY AskPiecesPlaces, ReceivePiecePlaces DEF ReaderStep

LEMMA ActorPlaces ==
    ASSUME SizesFit, KeyInv, ReadInv, PlaceInv, NEW g \in Groups, ActorStep(g)
    PROVE  PlaceInv'
  <1>1. \A s \in DOMAIN g : g[s] \in Ranks /\ g[s] \in Procs
    BY GroupProcs DEF Procs
  <1>2. ASSUME NEW s \in DOMAIN g, StartFetch(g, s) PROVE PlaceInv'
    BY <1>2, StartFetchPlaces
  <1>3. ASSUME NEW s \in DOMAIN g, ReadLocal(g[s]) PROVE PlaceInv'
    BY <1>1, <1>3, ReadLocalPlaces
  <1>4. ASSUME NEW s \in DOMAIN g, ReaderStep(g[s]) PROVE PlaceInv'
    BY <1>1, <1>4, ReaderPlaces
  <1>5. ASSUME NEW s \in DOMAIN g, NEW extra \in Misdeclared, StoreAndRegister(g, g[s], extra) PROVE PlaceInv'
    BY <1>5, StoreAndRegisterPlaces
  <1>6. CASE EndFetch(g)
    BY <1>6, EndFetchPlaces
  <1>. QED
    BY <1>2, <1>3, <1>4, <1>5, <1>6 DEF ActorStep, WorkerStep

LEMMA ProgramPlaces ==
    ASSUME KeyInv, ReadInv, PlaceInv, ProgramStep \/ ProgramChoice
    PROVE  PlaceInv'
  <1>1. ASSUME NEW h \in Ranks, StoreParts(h) PROVE PlaceInv'
    BY <1>1, StorePartsPlaces
  <1>2. CASE ReaderStep(Client)
    BY <1>2, ReaderPlaces DEF Procs
  <1>3. CASE ProgramGot
    BY <1>3, ProgramGotPlaces
  <1>4. ASSUME NEW v \in Vectors, ReleaseVector(v) PROVE PlaceInv'
    BY <1>4, ReleaseVectorPlaces
  <1>5. ASSUME NEW v \in Vectors, ProgramGet(v) PROVE PlaceInv'
    BY <1>5, ProgramGetPlaces
  <1>6. ASSUME NEW v \in Vectors, NEW g \in Groups, AskDistribute(g, v) PROVE PlaceInv'
    BY <1>6, AskDistributePlaces
  <1>7. ASSUME NEW v \in Vectors, NEW g \in Groups, NEW w \in Vectors, CallFetch(g, v, w) PROVE PlaceInv'
    BY <1>7, CallFetchPlaces
  <1>. QED
    BY <1>1, <1>2, <1>3, <1>4, <1>5, <1>6, <1>7 DEF ProgramStep, ProgramChoice

LEMMA StutterPlaces ==
    ASSUME ReadInv, PlaceInv, UNCHANGED vars
    PROVE  PlaceInv'
  <1>1. UNCHANGED <<mgmt, store, dvs, source, job, made, reader, seen, released>>
    BY DEF vars
  <1>2. PICK at : Kept(at, "none")
    BY <1>1, KeptSame
  <1>3. DvsStay /\ StoresGrow
    BY <1>1 DEF DvsStay, StoresGrow
  <1>4. \A r \in Procs : RangeRests(r) /\ ReaderRests(r)
    BY <1>1, SameRests
  <1>. QED
    BY <1>1, <1>2, <1>3, <1>4, NoneReleased

-----------------------------------------------------------------------------
(***************************************************************************)
(* How large the vectors are: every copy has at most the misdeclared bytes *)
(* of one process more than the vector it is a copy of.                    *)
(***************************************************************************)
Limit(E, v) == N + v * E

\* The vectors come into use one after the other, and a copy after what it is a copy of.
UseInv ==
    /\ \A v \in Vectors : origin[v] # None => \A u \in 1..(v - 1) : origin[u] # None
    /\ \A v \in Vectors : source[v] < v

ReplySizes == \A h \in Ranks : \A i \in 1..Len(reply[h]) : \A k \in 1..Len(reply[h][i]) : PartEnd(reply[h][i][k]) <= N

VectorSizes(E) == \A v \in Vectors : \A i \in 1..Len(dvs[v]) : PartEnd(dvs[v][i]) <= Limit(E, v)

MadeSizes(E) ==
    \A g \in Groups : job[g] # None =>
        \A s \in DOMAIN g : \A i \in 1..Len(made[g[s]]) : PartEnd(made[g[s]][i]) <= Limit(E, job[g])

SizeInv(E) == UseInv /\ ReplySizes /\ VectorSizes(E) /\ MadeSizes(E)

\* E bounds what a process declares beyond what it stores, and no vector gets too large.
Small(E) ==
    /\ E \in Nat /\ \A e \in Misdeclared : e <= E
    /\ N + MaxVectors * E <= IntMax

LEMMA LimitFacts ==
    ASSUME NEW E, Small(E), NEW v \in Vectors
    PROVE  /\ Limit(E, v) \in Nat /\ N <= Limit(E, v) /\ Limit(E, v) <= IntMax
           /\ \A u \in Vectors : u < v => Limit(E, u) + E <= Limit(E, v)
  <1>1. /\ E \in Nat /\ N \in Nat /\ MaxVectors \in Nat /\ IntMax \in Nat /\ N + MaxVectors * E <= IntMax
        /\ v \in Nat /\ v <= MaxVectors
    BY BoundsAssumption, IntMaxAssumption DEF Small, Vectors
  <1>2. v * E \in Nat /\ v * E <= MaxVectors * E
    BY <1>1, ProductGrows
  <1>3. MaxVectors * E \in Nat
    BY <1>1, ProductGrows
  <1>4. ASSUME NEW u \in Vectors, u < v
        PROVE  u * E + E <= v * E /\ u * E \in Nat
    <2>1. u \in Nat /\ u + 1 \in Nat /\ u + 1 <= v
      BY <1>1, <1>4 DEF Vectors
    <2>2. (u + 1) * E <= v * E
      BY <1>1, <2>1, ProductGrows
    <2>3. (u + 1) * E = u * E + E
      BY <1>1, <2>1
    <2>4. u * E \in Nat
      BY <1>1, <2>1, ProductGrows
    <2>. QED
      BY <2>2, <2>3, <2>4
  <1>5. PICK a, b : a = v * E /\ b = MaxVectors * E
    OBVIOUS
  <1>6. N + a \in Nat /\ N <= N + a /\ N + a <= IntMax
    BY <1>1, <1>2, <1>3, <1>5
  <1>7. ASSUME NEW u \in Vectors, u < v
        PROVE  Limit(E, u) + E <= Limit(E, v)
    <2>1. PICK c : c = u * E
      OBVIOUS
    <2>2. (N + c) + E <= N + a
      BY <1>1, <1>2, <1>4, <1>5, <1>7, <2>1
    <2>. QED
      BY <1>5, <2>1, <2>2 DEF Limit
  <1>. QED
    BY <1>5, <1>6, <1>7 DEF Limit

\* The vectors are as small as the reads need them.
LEMMA VectorFits ==
    ASSUME NEW E, Small(E), VectorTypes, SizeInv(E), NEW v \in Vectors
    PROVE  VecSize(dvs[v]) <= Limit(E, v) /\ VecSize(dvs[v]) \in 0..IntMax
  <1>1. PICK dv \in Seq(Part) : dv = dvs[v]
    BY DEF VectorTypes
  <1>2. PICK l : l = Limit(E, v)
    OBVIOUS
  <1>3. l \in Nat /\ l <= IntMax /\ IntMax \in Nat
    BY <1>2, LimitFacts, IntMaxAssumption
  <1>4. \A i \in 1..Len(dv) : PartEnd(dv[i]) <= l
    BY <1>1, <1>2 DEF SizeInv, VectorSizes
  <1>5. VecSize(dv) \in Nat /\ (VecSize(dv) = 0 \/ \E i \in 1..Len(dv) : VecSize(dv) = PartEnd(dv[i]))
    BY VecSizeFacts
  <1>6. VecSize(dv) <= l
    BY <1>3, <1>4, <1>5
  <1>. QED
    BY <1>1, <1>2, <1>3, <1>5, <1>6

LEMMA SizesDoFit ==
    ASSUME NEW E, Small(E), VectorTypes, SizeInv(E)
    PROVE  SizesFit
  <1>1. \A v \in Vectors : VecSize(dvs[v]) \in 0..IntMax
    BY VectorFits
  <1>2. IntMax \in Int
    BY IntMaxAssumption
  <1>. QED
    BY <1>1, <1>2 DEF SizesFit

\* The parts of a vector that is distributed lie in it.
LEMMA BlockEnds ==
    ASSUME N <= IntMax, NEW g \in Groups, NEW keys, NEW dv, dv = BlockParts(N, 1, g, keys)
    PROVE  \A k \in 1..Len(dv) : PartEnd(dv[k]) <= N
  <1>1. PICK p \in Nat \ {0} : p = Len(g)
    BY GroupProcs
  <1>2. N \in 0..IntMax /\ N \in Nat
    BY BoundsAssumption, IntMaxAssumption
  <1>3. Len(dv) = p
    BY <1>1 DEF BlockParts
  <1>4. SUFFICES ASSUME NEW k \in 1..p
                 PROVE  PartEnd(dv[k]) <= N
    BY <1>3
  <1>5. k - 1 \in 0..(p - 1)
    OBVIOUS
  <1>6. PICK b, z, e : b = Beg(N, k - 1, p) /\ z = PartSize(N, k - 1, p) /\ e = End(N, k - 1, p)
    OBVIOUS
  <1>7. b \in Nat /\ z \in Nat /\ e \in 0..N /\ b + z = e
    BY <1>2, <1>5, <1>6, RangeEnds
  <1>8. dv[k].offset = b * 1 /\ dv[k].size = z * 1
    BY <1>1, <1>6 DEF BlockParts
  <1>. QED
    BY <1>2, <1>7, <1>8 DEF PartEnd

\* The parts that a process registers end with its range, but for the bytes it misdeclares.
LEMMA RegisteredEnds ==
    ASSUME NEW r, NEW extra \in Nat, NEW f \in Nat, NEW z \in 0..IntMax, f = reader[r].first, z = reader[r].size
    PROVE  \A i \in 1..PartsPerProc : PartEnd(Registered(r, extra)[i]) <= f + z + extra
  <1>1. PICK n \in Nat \ {0} : n = PartsPerProc
    BY BoundsAssumption
  <1>2. SUFFICES ASSUME NEW i \in 1..n
                 PROVE  PartEnd(Registered(r, extra)[i]) <= f + z + extra
    BY <1>1
  <1>3. i - 1 \in 0..(n - 1) /\ z \in Nat
    BY IntMaxAssumption
  <1>4. PICK b, y, e : b = Beg(z, i - 1, n) /\ y = PartSize(z, i - 1, n) /\ e = End(z, i - 1, n)
    OBVIOUS
  <1>5. b \in Nat /\ y \in Nat /\ e \in 0..z /\ b + y = e
    BY <1>3, <1>4, RangeEnds
  <1>6. PICK x \in Nat : x = (IF i = n THEN extra ELSE 0) /\ x <= extra
    OBVIOUS
  <1>7. Registered(r, extra)[i].size = y + x /\ Registered(r, extra)[i].offset = f + b
    BY <1>1, <1>4, <1>6 DEF Registered
  <1>. QED
    BY <1>3, <1>5, <1>6, <1>7 DEF PartEnd

LEMMA SizesSame ==
    ASSUME NEW E, SizeInv(E), UNCHANGED <<origin, source, reply, dvs, job, made>>
    PROVE  SizeInv(E)'
  <1>1. UseInv' /\ ReplySizes'
    BY DEF SizeInv, UseInv, ReplySizes
  <1>2. VectorSizes(E)'
    BY DEF SizeInv, VectorSizes
  <1>3. MadeSizes(E)'
    BY DEF SizeInv, MadeSizes
  <1>. QED
    BY <1>1, <1>2, <1>3 DEF SizeInv

LEMMA HandleDistributeSizes ==
    ASSUME NEW E, Small(E), KeyInv, SizeInv(E), NEW c \in Procs, NEW p \in Ranks, HandleDistribute(c, p)
    PROVE  SizeInv(E)'
  <1>0. KeyTypes /\ SentInv /\ N <= IntMax
    <2>1. N \in Nat /\ MaxVectors \in Nat /\ E \in Nat /\ N + MaxVectors * E <= IntMax /\ IntMax \in Nat
      BY BoundsAssumption, IntMaxAssumption DEF Small
    <2>2. MaxVectors * E \in Nat
      BY <2>1, ProductGrows
    <2>. QED
      BY <2>1, <2>2 DEF KeyInv
  <1>. DEFINE g == Head(mgmt[c][p]).group
              dv == BlockParts(N, 1, g, LocalKeys(p, Len(g)))
              old == reply[p]
  <1>1. /\ mgmt[c][p] # << >> /\ Head(mgmt[c][p]).type = "DISTRIBUTE"
        /\ reply' = [reply EXCEPT ![p] = Append(old, dv)]
        /\ UNCHANGED <<origin, source, dvs, job, made>>
    BY <1>0 DEF HandleDistribute, Handles, servers, KeyTypes
  <1>2. g \in Groups
    BY <1>0, <1>1, HeadSent DEF MayBeSent
  <1>. HIDE DEF g
  <1>3. \A k \in 1..Len(dv) : PartEnd(dv[k]) <= N
    BY <1>0, <1>2, BlockEnds
  <1>. HIDE DEF dv
  <1>4. IsSeq(old) /\ DOMAIN reply = Ranks
    BY <1>0 DEF KeyTypes
  <1>5. /\ Len(old) \in Nat /\ Len(Append(old, dv)) = Len(old) + 1
        /\ \A i \in 1..Len(old) : Append(old, dv)[i] = old[i]
        /\ Append(old, dv)[Len(old) + 1] = dv
    BY <1>4, AppendOf DEF IsSeq
  <1>6. reply'[p] = Append(old, dv) /\ \A h \in Ranks : h # p => reply'[h] = reply[h]
    BY <1>1, <1>4
  <1>7. ASSUME NEW h \in Ranks, NEW i \in 1..Len(reply'[h]), NEW k \in 1..Len(reply'[h][i])
        PROVE  PartEnd(reply'[h][i][k]) <= N
    <2>1. CASE i \in 1..Len(reply[h]) /\ reply'[h][i] = reply[h][i]
      BY <1>7, <2>1 DEF SizeInv, ReplySizes
    <2>2. CASE h = p /\ reply'[h][i] = dv
      BY <1>3, <1>7, <2>2
    <2>3. \/ i \in 1..Len(reply[h]) /\ reply'[h][i] = reply[h][i]
          \/ h = p /\ reply'[h][i] = dv
      <3>1. CASE h # p
        BY <1>6, <1>7, <3>1
      <3>2. CASE h = p
        <4>1. i \in 1..(Len(old) + 1)
          BY <1>5, <1>6, <1>7, <3>2
        <4>2. CASE i \in 1..Len(old)
          BY <1>5, <1>6, <3>2, <4>2 DEF old
        <4>3. CASE i = Len(old) + 1
          BY <1>5, <1>6, <3>2, <4>3
        <4>. QED
          BY <1>5, <4>1, <4>2, <4>3
      <3>. QED
        BY <3>1, <3>2
    <2>. QED
      BY <2>1, <2>2, <2>3
  <1>8. ReplySizes'
    BY <1>7 DEF ReplySizes
  <1>9. UseInv' /\ VectorSizes(E)' /\ MadeSizes(E)'
    <2>1. UseInv'
      BY <1>1 DEF SizeInv, UseInv
    <2>2. VectorSizes(E)'
      BY <1>1 DEF SizeInv, VectorSizes
    <2>3. MadeSizes(E)'
      BY <1>1 DEF SizeInv, MadeSizes
    <2>. QED
      BY <2>1, <2>2, <2>3
  <1>. QED
    BY <1>8, <1>9 DEF SizeInv

LEMMA StorePartsSizes ==
    ASSUME NEW E, Small(E), KeyInv, ReadInv, SizeInv(E), NEW h \in Ranks, StoreParts(h)
    PROVE  SizeInv(E)'
  <1>0. VectorTypes /\ JobInv
    BY ReadParts DEF ReadTypes
  <1>1. PICK v, dv : v = reader[Client].vec /\ dv = reply[h][1]
    OBVIOUS
  <1>2. /\ 1 \in 1..Len(reply[h]) /\ dvs' = [dvs EXCEPT ![v] = dv]
        /\ \A q \in Ranks : \A i \in 1..Len(reply'[q]) : \E j \in 1..Len(reply[q]) : reply'[q][i] = reply[q][j]
    BY <1>1, StorePartsEffect
  <1>3. v \in Vectors /\ UNCHANGED <<origin, source, job, made>>
    BY <1>0, <1>1 DEF StoreParts, JobInv
  <1>4. dvs'[v] = dv /\ \A w \in Vectors \ {v} : dvs'[w] = dvs[w]
    BY <1>0, <1>2, <1>3 DEF VectorTypes
  <1>5. ReplySizes'
    <2>1. ASSUME NEW q \in Ranks, NEW i \in 1..Len(reply'[q]), NEW k \in 1..Len(reply'[q][i])
          PROVE  PartEnd(reply'[q][i][k]) <= N
      <3>1. PICK j \in 1..Len(reply[q]) : reply'[q][i] = reply[q][j]
        BY <1>2
      <3>. QED
        BY <2>1, <3>1 DEF SizeInv, ReplySizes
    <2>. QED
      BY <2>1 DEF ReplySizes
  <1>6. VectorSizes(E)'
    <2>1. ASSUME NEW w \in Vectors, NEW i \in 1..Len(dvs'[w])
          PROVE  PartEnd(dvs'[w][i]) <= Limit(E, w)
      <3>1. CASE w = v
        <4>1. dv \in Seq(Part) /\ i \in 1..Len(dv) /\ PartEnd(dv[i]) <= N
          BY <1>0, <1>1, <1>2, <1>4, <2>1, <3>1 DEF SizeInv, ReplySizes, VectorTypes
        <4>2. PICK l \in Nat : l = Limit(E, w) /\ N <= l
          BY LimitFacts
        <4>3. PartEnd(dv[i]) \in Int /\ N \in Int
          BY <4>1, VecSizeFacts, BoundsAssumption
        <4>. QED
          BY <1>4, <3>1, <4>1, <4>2, <4>3
      <3>2. CASE w # v
        BY <1>4, <2>1, <3>2 DEF SizeInv, VectorSizes
      <3>. QED
        BY <3>1, <3>2
    <2>. QED
      BY <2>1 DEF VectorSizes
  <1>7. UseInv'
    BY <1>3 DEF SizeInv, UseInv
  <1>8. MadeSizes(E)'
    BY <1>3 DEF SizeInv, MadeSizes
  <1>. QED
    BY <1>5, <1>6, <1>7, <1>8 DEF SizeInv

\* The next vector comes into use.
LEMMA NextUsed ==
    ASSUME VectorTypes, UseInv, NEW w \in Vectors, Unused(w), NEW x, x # None, origin' = [origin EXCEPT ![w] = x]
    PROVE  \A v \in Vectors : origin'[v] # None => \A u \in 1..(v - 1) : origin'[u] # None
  <1>1. \A v \in Vectors : origin'[v] = IF v = w THEN x ELSE origin[v]
    BY DEF VectorTypes
  <1>2. SUFFICES ASSUME NEW v \in Vectors, origin'[v] # None, NEW u \in 1..(v - 1)
                 PROVE  origin'[u] # None
    OBVIOUS
  <1>3. u \in Vectors
    BY BoundsAssumption DEF Vectors
  <1>4. u = w \/ origin[u] # None
    BY <1>1, <1>2 DEF UseInv, Unused
  <1>. QED
    BY <1>1, <1>3, <1>4

LEMMA AskDistributeSizes ==
    ASSUME NEW E, ReadInv, SizeInv(E), NEW g \in Groups, NEW v \in Vectors, AskDistribute(g, v)
    PROVE  SizeInv(E)'
  <1>0. VectorTypes /\ UseInv
    BY ReadParts DEF ReadTypes, SizeInv
  <1>1. Unused(v) /\ origin' = [origin EXCEPT ![v] = v] /\ UNCHANGED <<source, reply, dvs, job, made>>
    BY DEF AskDistribute
  <1>2. v # None
    BY DEF Vectors, None
  <1>3. UseInv'
    BY <1>0, <1>1, <1>2, NextUsed DEF UseInv
  <1>4. ReplySizes'
    BY <1>1 DEF SizeInv, ReplySizes
  <1>5. VectorSizes(E)'
    BY <1>1 DEF SizeInv, VectorSizes
  <1>6. MadeSizes(E)'
    BY <1>1 DEF SizeInv, MadeSizes
  <1>. QED
    BY <1>3, <1>4, <1>5, <1>6 DEF SizeInv

LEMMA CallFetchSizes ==
    ASSUME NEW E, ReadInv, PlaceInv, SizeInv(E), NEW g \in Groups, NEW v \in Vectors, NEW w \in Vectors,
           CallFetch(g, v, w)
    PROVE  SizeInv(E)'
  <1>0. VectorTypes /\ UseInv /\ BusyInv
    BY ReadParts, PlaceParts DEF ReadTypes, SizeInv
  <1>1. /\ origin[v] # None /\ Unused(w) /\ CanLive(g) /\ job[g] = None
        /\ job' = [job EXCEPT ![g] = w] /\ source' = [source EXCEPT ![w] = v]
        /\ origin' = [origin EXCEPT ![w] = origin[v]]
        /\ UNCHANGED <<reply, dvs, made>>
    BY DEF CallFetch
  <1>2. v < w
    <2>1. v # w /\ w \notin 1..(v - 1)
      BY <1>0, <1>1 DEF UseInv, Unused
    <2>2. v \in Nat /\ w \in Nat /\ w >= 1
      BY BoundsAssumption DEF Vectors
    <2>. QED
      BY <2>1, <2>2
  <1>3. UseInv'
    <2>1. \A u \in Vectors : source'[u] < u
      BY <1>0, <1>1, <1>2 DEF VectorTypes, UseInv
    <2>2. \A a \in Vectors : origin'[a] # None => \A u \in 1..(a - 1) : origin'[u] # None
      BY <1>0, <1>1, NextUsed
    <2>. QED
      BY <2>1, <2>2 DEF UseInv
  <1>4. ReplySizes'
    BY <1>1 DEF SizeInv, ReplySizes
  <1>5. VectorSizes(E)'
    BY <1>1 DEF SizeInv, VectorSizes
  <1>6. MadeSizes(E)'
    <2>1. job'[g] = w /\ \A h \in Groups \ {g} : job'[h] = job[h]
      BY <1>0, <1>1 DEF VectorTypes
    <2>2. ASSUME NEW h \in Groups, job'[h] # None, NEW s \in DOMAIN h, NEW i \in 1..Len(made'[h[s]])
          PROVE  PartEnd(made'[h[s]][i]) <= Limit(E, job'[h])
      <3>1. CASE h # g
        BY <1>1, <2>1, <2>2, <3>1 DEF SizeInv, MadeSizes
      <3>2. CASE h = g
        <4>1. ASSUME NEW k \in Groups, job[k] # None, NEW t \in DOMAIN k, k[t] = g[s]
              PROVE  FALSE
          <5>1. k # g /\ Share(g, k)
            BY <1>1, <2>2, <3>2, <4>1 DEF Share
          <5>. QED
            BY <1>1, <4>1, <5>1 DEF CanLive
        <4>2. ~ Busy(g[s])
          BY <4>1 DEF Busy
        <4>3. made[g[s]] = << >>
          BY <1>0, <2>2, <3>2, <4>2, GroupProcs DEF BusyInv
        <4>4. Len(<< >>) = 0 /\ 1..0 = {}
          OBVIOUS
        <4>. QED
          BY <1>1, <2>2, <3>2, <4>3, <4>4
      <3>. QED
        BY <3>1, <3>2
    <2>. QED
      BY <2>2 DEF MadeSizes
  <1>. QED
    BY <1>3, <1>4, <1>5, <1>6 DEF SizeInv

LEMMA StoreAndRegisterSizes ==
    ASSUME NEW E, Small(E), KeyInv, ReadInv, PlaceInv, SizeInv(E), NEW g \in Groups, NEW s \in DOMAIN g,
           NEW extra \in Misdeclared, StoreAndRegister(g, g[s], extra)
    PROVE  SizeInv(E)'
  <1>0. VectorTypes /\ JobInv /\ g[s] \in Ranks /\ Len(g) \in Nat \ {0} /\ s \in 1..Len(g)
    BY ReadParts, GroupProcs DEF ReadTypes
  <1>1. PICK r, v, w : r = g[s] /\ v = source[job[g]] /\ w = job[g]
    OBVIOUS
  <1>2. /\ w # None /\ GotAll(r) /\ r \in Ranks /\ made' = [made EXCEPT ![r] = Registered(r, extra)]
        /\ UNCHANGED <<reply, dvs, origin, source, job>>
    BY <1>0, <1>1 DEF StoreAndRegister, program
  <1>3. v \in Vectors /\ w \in Vectors /\ v < w
    BY <1>0, <1>1, <1>2 DEF JobInv, VectorTypes, SizeInv, UseInv
  <1>4. made'[r] = Registered(r, extra) /\ \A q \in Ranks \ {r} : made'[q] = made[q]
    BY <1>0, <1>2 DEF VectorTypes
  <1>5. PICK n \in 0..IntMax : n = VecSize(dvs[v]) /\ n <= Limit(E, v)
    BY <1>0, <1>3, VectorFits
  <1>len. PICK p \in Nat \ {0} : p = Len(g)
    BY <1>0
  <1>6. PICK m \in 0..(p - 1) : m = s - 1
    BY <1>0, <1>len
  <1>7. PICK f, z : f = reader[r].first /\ z = reader[r].size
    OBVIOUS
  <1>8. f = Beg(n, m, p) /\ z = End(n, m, p) - f
    <2>1. FetchOne(g, s) /\ Active(r)
      BY <1>1, <1>2, PlaceParts DEF FetchInv, GotAll, Active
    <2>2. f = First(g, s) /\ z = Size(g, s)
      BY <1>1, <1>7, <2>1 DEF FetchOne
    <2>. QED
      BY <1>1, <1>5, <1>6, <1>len, <2>2 DEF First, Size, Descriptor
  <1>9. f \in Nat /\ z \in 0..IntMax /\ f + z <= n
    <2>1. PICK y, e : y = PartSize(n, m, p) /\ e = End(n, m, p)
      OBVIOUS
    <2>2. f \in Nat /\ y \in Nat /\ e \in 0..n /\ f + y = e
      BY <1>8, <2>1, RangeEnds
    <2>. QED
      BY <1>8, <2>1, <2>2, IntMaxAssumption
  <1>10. extra \in Nat /\ extra <= E /\ E \in Nat
    BY ProgramAssumption DEF Small
  <1>11. ASSUME NEW i \in 1..Len(made'[r])
         PROVE  PartEnd(made'[r][i]) <= Limit(E, w)
    <2>1. Len(Registered(r, extra)) = PartsPerProc
      BY BoundsAssumption DEF Registered
    <2>2. i \in 1..PartsPerProc /\ made'[r][i] = Registered(r, extra)[i]
      BY <1>4, <1>11, <2>1
    <2>3. PartEnd(Registered(r, extra)[i]) <= f + z + extra
      BY <1>7, <1>9, <1>10, <2>2, RegisteredEnds
    <2>4. PartEnd(Registered(r, extra)[i]) \in Int
      <3>1. Registered(r, extra) \in Seq(Part)
        BY <1>2, ReadParts, RegisteredParts DEF ReadTypes, KeyInv
      <3>. QED
        BY <2>1, <2>2, <3>1, VecSizeFacts
    <2>. QED
      BY <1>3, <1>5, <1>9, <1>10, <2>2, <2>3, <2>4, LimitFacts
  <1>12. MadeSizes(E)'
    <2>1. ASSUME NEW h \in Groups, job'[h] # None, NEW t \in DOMAIN h, NEW i \in 1..Len(made'[h[t]])
          PROVE  PartEnd(made'[h[t]][i]) <= Limit(E, job'[h])
      <3>1. CASE h[t] = r
        <4>1. h = g
          BY <1>0, <1>1, <1>2, <2>1, <3>1, JobsApart
        <4>. QED
          BY <1>1, <1>2, <1>11, <2>1, <3>1, <4>1
      <3>2. CASE h[t] # r
        BY <1>2, <1>4, <2>1, <3>2, GroupProcs DEF SizeInv, MadeSizes
      <3>. QED
        BY <3>1, <3>2
    <2>. QED
      BY <2>1 DEF MadeSizes
  <1>13. UseInv'
    BY <1>2 DEF SizeInv, UseInv
  <1>14. ReplySizes'
    BY <1>2 DEF SizeInv, ReplySizes
  <1>15. VectorSizes(E)'
    BY <1>2 DEF SizeInv, VectorSizes
  <1>. QED
    BY <1>12, <1>13, <1>14, <1>15 DEF SizeInv

LEMMA EndFetchSizes ==
    ASSUME NEW E, Small(E), ReadInv, SizeInv(E), NEW g \in Groups, EndFetch(g)
    PROVE  SizeInv(E)'
  <1>0. VectorTypes /\ JobInv
    BY ReadParts DEF ReadTypes
  <1>1. PICK w, dv : w = job[g] /\ dv = Collected(g)
    OBVIOUS
  <1>2. /\ w # None /\ \A s \in DOMAIN g : made[g[s]] # << >>
        /\ dvs' = [dvs EXCEPT ![w] = dv] /\ job' = [job EXCEPT ![g] = None]
        /\ made' = [r \in Ranks |-> IF \E s \in DOMAIN g : g[s] = r THEN << >> ELSE made[r]]
        /\ UNCHANGED <<reply, origin, source>>
    BY <1>1 DEF EndFetch, Collected
  <1>3. w \in Vectors
    BY <1>0, <1>1, <1>2 DEF VectorTypes
  <1>4. PICK p \in Nat \ {0}, k \in Nat \ {0} : p = Len(g) /\ k = PartsPerProc
    BY GroupProcs, BoundsAssumption
  <1>5. DOMAIN g = 1..p /\ \A s \in 1..p : g[s] \in Ranks
    <2>1. DOMAIN g = 1..p
      BY <1>4, GroupsAssumption
    <2>. QED
      BY <2>1, GroupProcs
  <1>6. \A s \in 1..p : made[g[s]] \in Seq(Part) /\ Len(made[g[s]]) = k
    BY <1>0, <1>2, <1>4, <1>5 DEF VectorTypes
  <1>7. PICK parts \in Descriptors(p, k) : parts = [s \in 1..p |-> made[g[s]]]
    <2>1. \A s \in 1..p : made[g[s]] \in [1..k -> Part]
      BY <1>6
    <2>. QED
      BY <2>1 DEF Descriptors
  <1>8. dv = Gathered(parts)
    BY <1>1, <1>4, <1>7 DEF Collected
  <1>9. PICK l \in Nat : l = Limit(E, w) /\ l <= IntMax
    BY <1>3, LimitFacts
  <1>10. \A s \in 1..p, i \in 1..k : PartEnd(parts[s][i]) <= l /\ parts[s][i] \in Part
    <2>1. MadeSizes(E)
      BY DEF SizeInv
    <2>2. ASSUME NEW s \in 1..p, NEW i \in 1..k
          PROVE  PartEnd(parts[s][i]) <= l /\ parts[s][i] \in Part
      <3>1. s \in DOMAIN g /\ parts[s] = made[g[s]] /\ i \in 1..Len(made[g[s]])
        BY <1>5, <1>6, <1>7
      <3>2. PartEnd(made[g[s]][i]) <= Limit(E, job[g])
        BY <1>1, <1>2, <2>1, <3>1, Zenon DEF MadeSizes
      <3>3. made[g[s]][i] \in Part
        BY <1>6, <3>1
      <3>. QED
        BY <1>1, <1>9, <3>1, <3>2, <3>3
    <2>. QED
      BY <2>2
  <1>11. \A s \in 1..p : parts[s][k].offset < Word
    <2>1. ASSUME NEW s \in 1..p
          PROVE  parts[s][k].offset < Word
      <3>1. PICK x \in Part : x = parts[s][k] /\ PartEnd(x) <= l
        BY <1>10
      <3>2. x.offset \in Nat /\ x.offset <= l
        BY <3>1 DEF Part, PartEnd
      <3>3. IntMax \in Nat /\ Word = 2 * (IntMax + 1)
        BY IntMaxAssumption DEF Word
      <3>. QED
        BY <1>9, <3>1, <3>2, <3>3
    <2>. QED
      BY <2>1
  <1>12. /\ Len(dv) = k * p
         /\ \A s \in 1..p, i \in 1..k : dv[k * (s - 1) + i] = parts[s][i]
    BY <1>8, <1>11, GatherKeepsParts
  <1>13. \A j \in 1..Len(dv) : PartEnd(dv[j]) <= l
    <2>1. ASSUME NEW j \in 1..Len(dv)
          PROVE  PartEnd(dv[j]) <= l
      <3>1. \A i \in 1..(k * p) : \E s \in 1..p, m \in 1..k : i = k * (s - 1) + m
        BY GatheredPlace, Zenon
      <3>2. PICK s \in 1..p, m \in 1..k : j = k * (s - 1) + m
        BY <1>12, <3>1, Zenon
      <3>3. dv[j] = parts[s][m]
        BY <1>12, <3>2, Zenon
      <3>. QED
        BY <1>10, <3>3
    <2>. QED
      BY <2>1
  <1>14. VectorSizes(E)'
    <2>1. dvs'[w] = dv /\ \A v \in Vectors \ {w} : dvs'[v] = dvs[v]
      BY <1>0, <1>2, <1>3 DEF VectorTypes
    <2>2. ASSUME NEW v \in Vectors, NEW i \in 1..Len(dvs'[v])
          PROVE  PartEnd(dvs'[v][i]) <= Limit(E, v)
      <3>1. CASE v = w
        BY <1>9, <1>13, <2>1, <2>2, <3>1
      <3>2. CASE v # w
        BY <2>1, <2>2, <3>2 DEF SizeInv, VectorSizes
      <3>. QED
        BY <3>1, <3>2
    <2>. QED
      BY <2>2 DEF VectorSizes
  <1>15. MadeSizes(E)'
    <2>1. job'[g] = None /\ \A h \in Groups \ {g} : job'[h] = job[h]
      BY <1>0, <1>2 DEF VectorTypes
    <2>2. ASSUME NEW h \in Groups, job'[h] # None, NEW t \in DOMAIN h, NEW i \in 1..Len(made'[h[t]])
          PROVE  PartEnd(made'[h[t]][i]) <= Limit(E, job'[h])
      <3>1. h # g /\ job[h] # None /\ job'[h] = job[h] /\ h[t] \in Ranks
        BY <2>1, <2>2, GroupProcs
      <3>2. \A s \in DOMAIN g : g[s] # h[t]
        BY <1>0, <1>1, <1>2, <2>2, <3>1, JobsApart
      <3>3. made'[h[t]] = made[h[t]]
        BY <1>2, <3>1, <3>2
      <3>. QED
        BY <2>2, <3>1, <3>3 DEF SizeInv, MadeSizes
    <2>. QED
      BY <2>2 DEF MadeSizes
  <1>16. UseInv'
    BY <1>2 DEF SizeInv, UseInv
  <1>17. ReplySizes'
    BY <1>2 DEF SizeInv, ReplySizes
  <1>. QED
    BY <1>14, <1>15, <1>16, <1>17 DEF SizeInv

-----------------------------------------------------------------------------
\* Every step.

LEMMA InitSizes ==
    ASSUME NEW E, Init
    PROVE  SizeInv(E)
  <1>1. /\ \A v \in Vectors : origin[v] = None /\ source[v] = None /\ dvs[v] = << >>
        /\ \A h \in Ranks : reply[h] = << >>
        /\ \A g \in Groups : job[g] = None
    BY DEF Init
  <1>2. Len(<< >>) = 0 /\ 1..0 = {} /\ \A v \in Vectors : None < v
    BY DEF Vectors, None
  <1>3. UseInv /\ ReplySizes /\ VectorSizes(E) /\ MadeSizes(E)
    BY <1>1, <1>2 DEF UseInv, ReplySizes, VectorSizes, MadeSizes
  <1>. QED
    BY <1>3 DEF SizeInv

LEMMA ServerSizes ==
    ASSUME NEW E, Small(E), KeyInv, SizeInv(E), NEW p \in Ranks, ServerStep(p) \/ SpuriousWakeup(p)
    PROVE  SizeInv(E)'
  <1>1. ASSUME NEW c \in Procs, HandleDistribute(c, p) PROVE SizeInv(E)'
    BY <1>1, HandleDistributeSizes
  <1>2. ASSUME NEW c \in Procs, HandleStore(c, p) PROVE SizeInv(E)'
    BY <1>2, SizesSame DEF HandleStore, program
  <1>3. ASSUME NEW c \in Procs, HandleGet(c, p) PROVE SizeInv(E)'
    BY <1>3, SizesSame DEF HandleGet, program
  <1>4. ASSUME NEW c \in Procs, HandleRelease(c, p) PROVE SizeInv(E)'
    BY <1>4, SizesSame DEF HandleRelease, program
  <1>5. CASE CheckDvPartRequired(p)
    BY <1>5, SizesSame DEF CheckDvPartRequired, program
  <1>6. CASE SpuriousWakeup(p)
    BY <1>6, SizesSame DEF SpuriousWakeup, program
  <1>. QED
    BY <1>1, <1>2, <1>3, <1>4, <1>5, <1>6 DEF ServerStep

LEMMA ReaderSizes ==
    ASSUME NEW E, SizeInv(E), NEW r, ReaderStep(r)
    PROVE  SizeInv(E)'
  <1>1. CASE AskPieces(r)
    BY <1>1, SizesSame DEF AskPieces, program
  <1>2. ASSUME NEW p \in Ranks, ReceivePiece(r, p) PROVE SizeInv(E)'
    BY <1>2, SizesSame DEF ReceivePiece, program
  <1>. QED
    BY <1>1, <1>2 DEF ReaderStep

LEMMA ActorSizes ==
    ASSUME NEW E, Small(E), KeyInv, ReadInv, PlaceInv, SizeInv(E), NEW g \in Groups, ActorStep(g)
    PROVE  SizeInv(E)'
  <1>1. ASSUME NEW s \in DOMAIN g, StartFetch(g, s) PROVE SizeInv(E)'
    BY <1>1, SizesSame DEF StartFetch, program
  <1>2. ASSUME NEW s \in DOMAIN g, ReadLocal(g[s]) PROVE SizeInv(E)'
    BY <1>2, SizesSame DEF ReadLocal, program
  <1>3. ASSUME NEW s \in DOMAIN g, ReaderStep(g[s]) PROVE SizeInv(E)'
    BY <1>3, ReaderSizes
  <1>4. ASSUME NEW s \in DOMAIN g, NEW extra \in Misdeclared, StoreAndRegister(g, g[s], extra) PROVE SizeInv(E)'
    BY <1>4, StoreAndRegisterSizes
  <1>5. CASE EndFetch(g)
    BY <1>5, EndFetchSizes
  <1>. QED
    BY <1>1, <1>2, <1>3, <1>4, <1>5 DEF ActorStep, WorkerStep

LEMMA ProgramSizes ==
    ASSUME NEW E, Small(E), KeyInv, ReadInv, PlaceInv, SizeInv(E), ProgramStep \/ ProgramChoice
    PROVE  SizeInv(E)'
  <1>1. ASSUME NEW h \in Ranks, StoreParts(h) PROVE SizeInv(E)'
    BY <1>1, StorePartsSizes
  <1>2. CASE ReaderStep(Client)
    BY <1>2, ReaderSizes
  <1>3. CASE ProgramGot
    BY <1>3, SizesSame DEF ProgramGot
  <1>4. ASSUME NEW v \in Vectors, ReleaseVector(v) PROVE SizeInv(E)'
    BY <1>4, SizesSame DEF ReleaseVector
  <1>5. ASSUME NEW v \in Vectors, ProgramGet(v) PROVE SizeInv(E)'
    BY <1>5, SizesSame DEF ProgramGet, program
  <1>6. ASSUME NEW v \in Vectors, NEW g \in Groups, AskDistribute(g, v) PROVE SizeInv(E)'
    BY <1>6, AskDistributeSizes
  <1>7. ASSUME NEW v \in Vectors, NEW g \in Groups, NEW w \in Vectors, CallFetch(g, v, w) PROVE SizeInv(E)'
    BY <1>7, CallFetchSizes
  <1>. QED
    BY <1>1, <1>2, <1>3, <1>4, <1>5, <1>6, <1>7 DEF ProgramStep, ProgramChoice

LEMMA SizesInductive ==
    ASSUME SameHead, NEW E, Small(E)
    PROVE  Spec => [](KeyInv /\ ReadInv /\ PlaceInv /\ SizeInv(E))
  <1>1. Init => PlaceInv /\ SizeInv(E)
    BY InitPlaces, InitSizes
  <1>2. KeyInv /\ ReadInv /\ PlaceInv /\ SizeInv(E) /\ [Next]_vars => PlaceInv' /\ SizeInv(E)'
    <2>. SUFFICES ASSUME KeyInv, ReadInv, PlaceInv, SizeInv(E), [Next]_vars
                  PROVE  PlaceInv' /\ SizeInv(E)'
      OBVIOUS
    <2>1. SizesFit
      BY ReadParts, SizesDoFit DEF ReadTypes
    <2>2. CASE UNCHANGED vars
      BY <2>2, StutterPlaces, SizesSame DEF vars
    <2>3. CASE Next
      <3>1. PlaceInv'
        BY <2>1, <2>3, ServerPlaces, ActorPlaces, ProgramPlaces DEF Next
      <3>2. SizeInv(E)'
        BY <2>3, ServerSizes, ActorSizes, ProgramSizes DEF Next
      <3>. QED
        BY <3>1, <3>2
    <2>. QED
      BY <2>2, <2>3
  <1>3. Spec => [](KeyInv /\ ReadInv)
    BY ReadsInductive
  <1>. QED
    BY <1>1, <1>2, <1>3, PTL DEF Spec

(***************************************************************************)
(* A part that the program releases is in the store of its process when    *)
(* its management thread comes to the message (DataStore::removePart       *)
(* asserts it), unless the part has no bytes, so that nobody waited for it *)
(* to be stored.  The vectors are small enough for div_range, which counts *)
(* elements by an int: E bounds what a process misdeclares of a part.      *)
(***************************************************************************)
THEOREM ReleasesFindTheirParts ==
    ASSUME SameHead, NEW E, Small(E)
    PROVE  Spec => []ReleasedAreThere
  <1>1. KeyInv /\ ReadInv /\ PlaceInv => ReleasedAreThere
    <2>. SUFFICES ASSUME KeyInv, ReadInv, PlaceInv, NEW c \in Procs, NEW p \in Ranks,
                         mgmt[c][p] # << >>, Head(mgmt[c][p]).type = "RELEASE"
                  PROVE  \/ CanRemove(store[p], Head(mgmt[c][p]).resid)
                         \/ WithoutBytes(p, Head(mgmt[c][p]).resid)
      BY DEF ReleasedAreThere
    <2>1. KeyTypes /\ SentInv /\ ReleaseInv /\ LeavingInv
      BY ReadParts, PlaceParts DEF KeyInv
    <2>2. 1 \in 1..Len(mgmt[c][p]) /\ Head(mgmt[c][p]) = mgmt[c][p][1]
      BY <2>1, HeadSent
    <2>3. c = Client /\ Leaving(p, 1)
      BY <2>1, <2>2, ReleaseOne DEF Leaving
    <2>4. mgmt[Client][p][1].resid \in DOMAIN store[p] \/ WithoutBytes(p, mgmt[Client][p][1].resid)
      BY <2>1, <2>2, <2>3, LeavingOne
    <2>. QED
      BY <2>2, <2>3, <2>4 DEF CanRemove, Holds
  <1>2. Spec => [](KeyInv /\ ReadInv /\ PlaceInv /\ SizeInv(E))
    BY SizesInductive
  <1>. QED
    BY <1>1, <1>2, PTL

=============================================================================
