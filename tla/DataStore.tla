----------------------------- MODULE DataStore -----------------------------
(***************************************************************************)
(* DataStore: the parts of distributed vectors a process keeps, by key.    *)
(*                                                                         *)
(* A store is a function from the keys that are in it.  A part comes whole *)
(* in a StoreResult message and stays in it ("message"), or is prepared    *)
(* empty and filled by StoreResultPart messages ("vector"); remaining is   *)
(* the number of bytes it waits for.  The code asserts what it expects of  *)
(* a key before it changes the store: those are the Can operators, and an  *)
(* operation whose assertion fails ends the process.                       *)
(***************************************************************************)
EXTENDS Integers, Sequences, Functions, TLC

Zero == <<"zero">>     \* a byte of a new vector

EmptyStore == << >>

Holds(st, key) == key \in DOMAIN st

CanStore(st, key) == ~ Holds(st, key)

WithPart(st, key, part) == [k \in DOMAIN st \cup {key} |-> IF k = key THEN part ELSE st[k]]

StorePartMessage(st, key, data) ==
    WithPart(st, key, [data |-> data, remaining |-> 0, location |-> "message"])

PreparePartVector(st, key, size) ==
    WithPart(st, key, [data |-> [i \in 1..size |-> Zero], remaining |-> size, location |-> "vector"])

\* The address of a part that is an empty vector is null.
NoAddress(part) == part.location = "vector" /\ part.data = << >>

CanAddData(st, key, data, offset) ==
    /\ Holds(st, key)
    /\ ~ NoAddress(st[key])
    /\ offset + Len(data) <= Len(st[key].data)
    /\ Len(data) <= st[key].remaining

AddData(st, key, data, offset) ==
    [st EXCEPT ![key].data = [i \in DOMAIN @ |-> IF i - offset \in DOMAIN data THEN data[i - offset] ELSE @[i]],
               ![key].remaining = @ - Len(data)]

CanRemove(st, key) == Holds(st, key)

\* Mutant: all parts are erased.
RemoveAll(st, key) == Restrict(st, {})

RemovePart(st, key) == Restrict(st, DOMAIN st \ {key})

(***************************************************************************)
(* getPartData finds the bytes of a part unless some are still missing; a  *)
(* null address is taken for a missing part.                               *)
(***************************************************************************)
Available(st, key) ==
    /\ Holds(st, key)
    /\ st[key].remaining = 0
    /\ ~ NoAddress(st[key])
=============================================================================
