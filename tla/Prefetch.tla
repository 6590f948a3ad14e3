------------------------------ MODULE Prefetch ------------------------------
(***************************************************************************)
(* Prefetching a distributed vector: an actor is asked to bring to its own *)
(* processes a vector that another actor may still be computing, behind a  *)
(* future.  The actor answers with a future of its own, which it registers *)
(* at once; the bytes come later.                                          *)
(*                                                                         *)
(* The management threads do it.  The head of the actor forwards the       *)
(* request to its slaves, every process prepares an empty part, and the    *)
(* head gathers their keys and sends them to the owner of the future.  The *)
(* owner keeps the request until the future is registered; then every      *)
(* process of the owner pushes the bytes it holds to the parts that want   *)
(* them.  Readers of a part are in ResultParts.                            *)
(*                                                                         *)
(* A vector's number stands for the fresh keys that FutureKeyManager gives *)
(* to its future and to its parts.  Byte u of the vector produced as       *)
(* vector v is <<v, u>>.                                                   *)
(***************************************************************************)
EXTENDS Distribution, DataStore, SequencesExt

CONSTANTS
    Client,         \* rank 0, which runs the program
    Ranks,          \* the processes with a management thread
    Groups,         \* the processes of each actor, head first
    Producers,      \* the actors whose produce_dv the program calls
    Elems,          \* the numbers of elements a vector may have
    ElemSize,       \* bytes of an element
    MaxVectors      \* bound: vectors produced and prefetched

ASSUME ClientAssumption == Client \notin Ranks
ASSUME GroupsAssumption ==
    /\ \A g \in Groups : g \in Seq(Ranks) /\ g # << >>
    /\ \A p \in Ranks : \E g \in Groups : \E s \in DOMAIN g : g[s] = p
    /\ Producers \subseteq Groups
ASSUME SizeAssumption == Elems \subseteq Nat /\ ElemSize \in Nat \ {0} /\ MaxVectors \in Nat

Procs == Ranks \cup {Client}
Vectors == 1..MaxVectors
None == 0

VARIABLES
    mgmt,       \* mgmt[c][p]: messages of tag 0 from process c to process p
    futures,    \* futures[p]: the descriptors in ActorServer::_futureDataStore, by key
    askedFetch, \* askedFetch[p]: ActorServer::_askedFetch, by key
    gathering,  \* gathering[p]: the prefetch whose keys head p gathers, empty when it does not
    up,         \* up[p]: the keys slave p has given to gathers, on the communicator of the management threads
    down,       \* down[p]: the descriptors broadcast to slave p there
    store,      \* ActorServer::_dataStore
    owner,      \* owner[v]: the actor whose head holds the future of v, empty before v is asked for
    elems,      \* elems[v]: the elements of v
    source,     \* source[v]: the vector v is a prefetch of, None if it is produced
    asking,     \* the prefetch whose answer the program waits for
    job,        \* job[g]: the vector actor g is producing
    stored,     \* the processes that have sent their part of it to the store
    aborted     \* whether an assertion has failed: the process aborts, and with it the job

vars == <<mgmt, futures, askedFetch, gathering, up, down, store, owner, elems, source, asking, job, stored, aborted>>
vectors == <<owner, elems, source>>
program == <<vectors, asking, job, stored, aborted>>
comm == <<up, down>>

Init ==
    /\ mgmt = [c \in Procs |-> [p \in Ranks |-> << >>]]
    /\ futures = [p \in Ranks |-> << >>]
    /\ askedFetch = [p \in Ranks |-> << >>]
    /\ gathering = [p \in Ranks |-> << >>]
    /\ up = [p \in Ranks |-> << >>]
    /\ down = [p \in Ranks |-> << >>]
    /\ store = [p \in Ranks |-> EmptyStore]
    /\ owner = [v \in Vectors |-> << >>]
    /\ elems = [v \in Vectors |-> 0]
    /\ source = [v \in Vectors |-> None]
    /\ asking = None
    /\ job = [g \in Groups |-> None]
    /\ stored = {}
    /\ aborted = FALSE

Unused(v) == owner[v] = << >> /\ \A u \in 1..(v - 1) : owner[u] # << >>

GroupOf == [p \in Ranks |-> CHOOSE g \in Groups : \E s \in DOMAIN g : g[s] = p]
PidIn == [p \in Ranks |-> CHOOSE s \in DOMAIN GroupOf[p] : GroupOf[p][s] = p]
IsHead(p) == PidIn[p] = 1
Slaves(p) == Tail(GroupOf[p])

\* The keys of the parts of vector v on the processes of g.
Keys(g, v) == [i \in 1..Len(g) |-> v]

PrefetchMsg(u, v, size) == [type |-> "PREFETCH", pid |-> owner[u][1], req |-> u, res |-> v, size |-> size]
FetchMsg(u, pids, keys, size) == [type |-> "FETCH", req |-> u, pids |-> pids, keys |-> keys, size |-> size]
StoreMsg(key, data) == [type |-> "STORE", resid |-> key, data |-> data]
StorePartMsg(key, data) == [type |-> "STOREPART", resid |-> key, data |-> data, offset |-> 0]
RegisterMsg(v, dv) == [type |-> "REGISTER", key |-> v, dv |-> dv]

\* The messages of a sequence of [to, msg], on the channels of chans from process c.
SendAll(chans, c, mail) ==
    [chans EXCEPT ![c] = [p \in Ranks |->
        LET mine == Chosen(mail, {i \in DOMAIN mail : mail[i].to = p})
        IN  @[p] \o [i \in 1..Len(mine) |-> mine[i].msg]]]

ToSlaves(p, msg) == [i \in 1..Len(Slaves(p)) |-> [to |-> Slaves(p)[i], msg |-> msg]]

-----------------------------------------------------------------------------
(***************************************************************************)
(* The program calls produce_dv on actor g, one call at a time (a bound);  *)
(* the future of v is known at once.                                       *)
(***************************************************************************)
CallProduce(g, v, n) ==
    /\ ~ aborted
    /\ asking = None
    /\ Unused(v)
    /\ g \in Producers /\ job[g] = None
    /\ owner' = [owner EXCEPT ![v] = g]
    /\ elems' = [elems EXCEPT ![v] = n]
    /\ job' = [job EXCEPT ![g] = v]
    /\ UNCHANGED <<mgmt, futures, askedFetch, gathering, comm, store, source, asking, stored, aborted>>

(***************************************************************************)
(* ProxyBase::prefetch, of any future the program has, as often as it      *)
(* likes, with the size of the vector in bytes.                            *)
(***************************************************************************)
AskPrefetch(g, u, v) ==
    /\ ~ aborted
    /\ asking = None
    /\ Unused(v)
    /\ owner[u] # << >>
    /\ owner' = [owner EXCEPT ![v] = g]
    /\ elems' = [elems EXCEPT ![v] = elems[u]]
    /\ source' = [source EXCEPT ![v] = u]
    /\ asking' = v
    /\ mgmt' = [mgmt EXCEPT ![Client][g[1]] = Append(@, PrefetchMsg(u, v, elems[u] * ElemSize))]
    /\ UNCHANGED <<futures, askedFetch, gathering, comm, store, job, stored, aborted>>

(***************************************************************************)
(* bsp_produce_dv on process s (from 1) of actor g: its range of elements  *)
(* is stored in its own management thread and registered as its part.      *)
(***************************************************************************)
ProducedParts(g, v) == BlockParts(elems[v], ElemSize, g, Keys(g, v))

RegisterPart(g, s) ==
    /\ ~ aborted
    /\ job[g] # None
    /\ g[s] \notin stored
    /\ \E part \in {ProducedParts(g, job[g])[s]} :
        mgmt' = [mgmt EXCEPT ![g[s]][g[s]] = Append(@, StoreMsg(part.resid,
                    [i \in 1..part.size |-> <<part.resid, part.offset + i - 1>>]))]
    /\ stored' = stored \cup {g[s]}
    /\ UNCHANGED <<futures, askedFetch, gathering, comm, store, vectors, asking, job, aborted>>

(***************************************************************************)
(* After the last bsp_sync the head's worker publishes the gathered        *)
(* descriptor to its own management thread.                                *)
(***************************************************************************)
\* Mutant: the last bsp_sync is forgotten.
EndProduceEarly(g) ==
    /\ ~ aborted
    /\ job[g] # None
    /\ g[1] \in stored
    /\ mgmt' = [mgmt EXCEPT ![g[1]][g[1]] =
                    Append(@, RegisterMsg(job[g], ProducedParts(g, job[g])))]
    /\ job' = [job EXCEPT ![g] = None]
    /\ stored' = stored \ {g[s] : s \in DOMAIN g}
    /\ UNCHANGED <<futures, askedFetch, gathering, comm, store, vectors, asking, aborted>>

EndProduce(g) ==
    /\ ~ aborted
    /\ job[g] # None
    /\ \A s \in DOMAIN g : g[s] \in stored
    /\ mgmt' = [mgmt EXCEPT ![g[1]][g[1]] =
                    Append(@, RegisterMsg(job[g], ProducedParts(g, job[g])))]
    /\ job' = [job EXCEPT ![g] = None]
    /\ stored' = stored \ {g[s] : s \in DOMAIN g}
    /\ UNCHANGED <<futures, askedFetch, gathering, comm, store, vectors, asking, aborted>>

-----------------------------------------------------------------------------
(***************************************************************************)
(* The management thread of p takes the next message from any process c    *)
(* when it is in no gather.                                                *)
(***************************************************************************)
Handles(c, p, type) ==
    /\ ~ aborted
    /\ gathering[p] = << >>
    /\ mgmt[c][p] # << >>
    /\ Head(mgmt[c][p]).type = type

Received(c, p) == [mgmt EXCEPT ![c][p] = Tail(@)]

\* Result stores are read by get requests only in ResultParts: none is pending here.
HandleStore(c, p) ==
    /\ Handles(c, p, "STORE")
    /\ \E m \in {Head(mgmt[c][p])} :
        /\ CanStore(store[p], m.resid)
        /\ mgmt' = Received(c, p)
        /\ store' = [store EXCEPT ![p] = StorePartMessage(@, m.resid, m.data)]
        /\ UNCHANGED <<futures, askedFetch, gathering, comm, program>>

(***************************************************************************)
(* fetchDv: for every part that is wanted, process p pushes what it holds  *)
(* of it, from the START of its own part, for offset 0 of the wanted one.  *)
(***************************************************************************)
\* Mutant: the ranges are counted from the last process.
WantedFromLast(m, i) ==
    [first |-> Beg(m.size, Len(m.pids) - i, Len(m.pids)), end |-> End(m.size, Len(m.pids) - i, Len(m.pids))]

Wanted(m, i) == [first |-> Beg(m.size, i - 1, Len(m.pids)), end |-> End(m.size, i - 1, Len(m.pids))]

Pushed(p, dv, m) ==
    {x \in (DOMAIN m.pids) \X (DOMAIN dv) :
        dv[x[2]].pid = p /\ Meets(dv[x[2]], Wanted(m, x[1]).first, Wanted(m, x[1]).end)}

PartsThere(p, dv, m) == \A x \in Pushed(p, dv, m) : Available(store[p], dv[x[2]].resid)

InOrder(pairs) == SetToSortSeq(pairs, LAMBDA x, y : x[1] < y[1] \/ (x[1] = y[1] /\ x[2] < y[2]))

Push(p, dv, m, x) ==
    [to |-> m.pids[x[1]],
     msg |-> StorePartMsg(m.keys[x[1]],
                SubSeq(store[p][dv[x[2]].resid].data, 1,
                       ReqSize(dv[x[2]], Wanted(m, x[1]).first, Wanted(m, x[1]).end)))]

\* Process p sends on the channels chans the messages of mail, then its bytes.
SendPushes(p, dv, m, chans, mail) ==
    \E order \in {InOrder(Pushed(p, dv, m))} :
    \E pushes \in {[k \in DOMAIN order |-> Push(p, dv, m, order[k])]} :
        mgmt' = SendAll(chans, p, mail \o pushes)

(***************************************************************************)
(* The head's fetchDv, with the channels as they are after what it has     *)
(* already received and sent: the request and the descriptor go to its     *)
(* slaves, then its own bytes are pushed.                                  *)
(***************************************************************************)
FetchDv(p, dv, m, chans) ==
    /\ PartsThere(p, dv, m)
    /\ SendPushes(p, dv, m, chans, ToSlaves(p, m))
    /\ down' = [q \in Ranks |-> IF q # p /\ GroupOf[q] = GroupOf[p] THEN Append(down[q], dv) ELSE down[q]]

(***************************************************************************)
(* registerFuture (with no reader waiting) and checkFutureRequired: a      *)
(* fetch that was asked for too early is served and forgotten.             *)
(***************************************************************************)
RegisterFuture(p, key, dv, chans) ==
    /\ futures' = [futures EXCEPT ![p] = key :> dv @@ @]
    /\ \/ /\ key \notin DOMAIN askedFetch[p]
          /\ mgmt' = chans
          /\ UNCHANGED <<askedFetch, down>>
       \/ /\ key \in DOMAIN askedFetch[p]
          /\ FetchDv(p, dv, askedFetch[p][key], chans)
          /\ askedFetch' = [askedFetch EXCEPT ![p] = Restrict(@, DOMAIN @ \ {key})]

HandleRegister(c, p) ==
    /\ Handles(c, p, "REGISTER")
    /\ \E m \in {Head(mgmt[c][p])} :
        /\ RegisterFuture(p, m.key, m.dv, Received(c, p))
        /\ UNCHANGED <<gathering, up, store, program>>

(***************************************************************************)
(* handlePrefetchMessage: every process of the actor prepares the part the *)
(* division of the BYTES gives it.  The head answers the program, forwards *)
(* the request and waits in the gather; a slave gives its key and goes on. *)
(***************************************************************************)
\* Mutant: elements are taken for bytes.
PreparedInElements(p, m) ==
    PreparePartVector(store[p], m.res, PartSize(m.size \div ElemSize, PidIn[p] - 1, Len(GroupOf[p])))

Prepared(p, m) ==
    PreparePartVector(store[p], m.res, PartSize(m.size, PidIn[p] - 1, Len(GroupOf[p])))

PrefetchAtHead(c, p) ==
    /\ Handles(c, p, "PREFETCH")
    /\ \E m \in {Head(mgmt[c][p])} :
        /\ IsHead(p)
        /\ CanStore(store[p], m.res)
        /\ asking' = None
        /\ mgmt' = SendAll(Received(c, p), p, ToSlaves(p, m))
        /\ store' = [store EXCEPT ![p] = Prepared(p, m)]
        /\ gathering' = [gathering EXCEPT ![p] = <<m>>]
        /\ UNCHANGED <<futures, askedFetch, comm, vectors, job, stored, aborted>>

PrefetchAtSlave(c, p) ==
    /\ Handles(c, p, "PREFETCH")
    /\ \E m \in {Head(mgmt[c][p])} :
        /\ ~ IsHead(p)
        /\ CanStore(store[p], m.res)
        /\ mgmt' = Received(c, p)
        /\ store' = [store EXCEPT ![p] = Prepared(p, m)]
        /\ up' = [up EXCEPT ![p] = Append(@, m.res)]
        /\ UNCHANGED <<futures, askedFetch, gathering, down, program>>

(***************************************************************************)
(* gatherKeys returns at the head, which asks the owner of the future for  *)
(* the bytes and registers the descriptor of the parts.                    *)
(***************************************************************************)
EndGather(p) ==
    /\ ~ aborted
    /\ gathering[p] # << >>
    /\ \A i \in DOMAIN Slaves(p) : up[Slaves(p)[i]] # << >>
    /\ \E m \in {Head(gathering[p])},
          keys \in {[i \in DOMAIN GroupOf[p] |-> IF i = 1 THEN Head(gathering[p]).res ELSE Head(up[GroupOf[p][i]])]} :
       \E dv \in {BlockParts(m.size, 1, GroupOf[p], keys)},
          chans \in {[mgmt EXCEPT ![p][m.pid] = Append(@, FetchMsg(m.req, GroupOf[p], keys, m.size))]} :
        RegisterFuture(p, m.res, dv, chans)
    /\ up' = [q \in Ranks |-> IF q # p /\ GroupOf[q] = GroupOf[p] THEN Tail(up[q]) ELSE up[q]]
    /\ gathering' = [gathering EXCEPT ![p] = << >>]
    /\ UNCHANGED <<store, program>>

(***************************************************************************)
(* handleFetchMessage.                                                     *)
(***************************************************************************)
FetchNow(c, p) ==
    /\ Handles(c, p, "FETCH")
    /\ \E m \in {Head(mgmt[c][p])} :
        /\ IsHead(p) /\ m.req \in DOMAIN futures[p]
        /\ FetchDv(p, futures[p][m.req], m, Received(c, p))
        /\ UNCHANGED <<futures, askedFetch, gathering, up, store, program>>

\* Mutant: the fetch asked for early is lost.
FetchLost(c, p) ==
    /\ Handles(c, p, "FETCH")
    /\ IsHead(p) /\ Head(mgmt[c][p]).req \notin DOMAIN futures[p]
    /\ mgmt' = Received(c, p)
    /\ UNCHANGED <<futures, askedFetch, gathering, comm, store, program>>

FetchLater(c, p) ==
    /\ Handles(c, p, "FETCH")
    /\ \E m \in {Head(mgmt[c][p])} :
        /\ IsHead(p) /\ m.req \notin DOMAIN futures[p]
        /\ m.req \notin DOMAIN askedFetch[p]
        /\ mgmt' = Received(c, p)
        /\ askedFetch' = [askedFetch EXCEPT ![p] = m.req :> m @@ @]
        /\ UNCHANGED <<futures, gathering, comm, store, program>>

FetchAtSlave(c, p) ==
    /\ Handles(c, p, "FETCH")
    /\ \E m \in {Head(mgmt[c][p])} :
        /\ ~ IsHead(p) /\ down[p] # << >>
        /\ PartsThere(p, Head(down[p]), m)
        /\ down' = [down EXCEPT ![p] = Tail(@)]
        /\ SendPushes(p, Head(down[p]), m, Received(c, p), << >>)
        /\ UNCHANGED <<futures, askedFetch, gathering, up, store, program>>

HandleStorePart(c, p) ==
    /\ Handles(c, p, "STOREPART")
    /\ \E m \in {Head(mgmt[c][p])} :
        /\ CanAddData(store[p], m.resid, m.data, m.offset)
        /\ mgmt' = Received(c, p)
        /\ store' = [store EXCEPT ![p] = AddData(@, m.resid, m.data, m.offset)]
        /\ UNCHANGED <<futures, askedFetch, gathering, comm, program>>

(***************************************************************************)
(* The assertions of fetchDv and handleFetchMessage: process p is to push  *)
(* bytes of a part that is not in its store, or is asked a second time for *)
(* a future that is not there yet.                                         *)
(***************************************************************************)
\* The descriptors and requests with which p would run fetchDv next.
Fetches(p) ==
    LET received(type) == {Head(mgmt[c][p]) : c \in {d \in Procs : Handles(d, p, type)}}
    IN  {[dv |-> futures[p][m.req], msg |-> m] :
            m \in {x \in received("FETCH") : IsHead(p) /\ x.req \in DOMAIN futures[p]}}
        \cup {[dv |-> Head(down[p]), msg |-> m] : m \in {x \in received("FETCH") : ~ IsHead(p) /\ down[p] # << >>}}
        \cup {[dv |-> m.dv, msg |-> askedFetch[p][m.key]] :
            m \in {x \in received("REGISTER") : x.key \in DOMAIN askedFetch[p]}}

AskedTwice(c, p) ==
    /\ Handles(c, p, "FETCH") /\ IsHead(p)
    /\ Head(mgmt[c][p]).req \notin DOMAIN futures[p] /\ Head(mgmt[c][p]).req \in DOMAIN askedFetch[p]

AssertionFails(p) ==
    /\ \/ \E f \in Fetches(p) : ~ PartsThere(p, f.dv, f.msg)
       \/ \E c \in Procs : AskedTwice(c, p)
    /\ aborted' = TRUE
    /\ UNCHANGED <<mgmt, futures, askedFetch, gathering, comm, store, vectors, asking, job, stored>>

-----------------------------------------------------------------------------
ServerStep(p) ==
    \/ \E c \in Procs :
        \/ HandleStore(c, p) \/ HandleRegister(c, p) \/ PrefetchAtHead(c, p) \/ PrefetchAtSlave(c, p)
        \/ FetchNow(c, p) \/ FetchLater(c, p) \/ FetchAtSlave(c, p) \/ HandleStorePart(c, p)
    \/ EndGather(p)
    \/ AssertionFails(p)

WorkerStep(g) == EndProduce(g) \/ \E s \in DOMAIN g : RegisterPart(g, s)

Next ==
    \/ \E p \in Ranks : ServerStep(p)
    \/ \E g \in Groups : WorkerStep(g)
    \/ \E v \in Vectors, g \in Groups :
        \/ \E n \in Elems : CallProduce(g, v, n)
        \/ \E u \in Vectors : AskPrefetch(g, u, v)

Spec == Init /\ [][Next]_vars

(***************************************************************************)
(* Management threads handle what they receive, workers end their calls.   *)
(***************************************************************************)
Fairness ==
    /\ \A p \in Ranks : WF_vars(ServerStep(p))
    /\ \A g \in Groups : WF_vars(WorkerStep(g))

FairSpec == Spec /\ Fairness

-----------------------------------------------------------------------------
\* The vector that was produced, of which v is a prefetch, a prefetch of a prefetch...
Origin(v) ==
    LET of[w \in Vectors] == IF source[w] = None THEN w ELSE of[source[w]]
    IN  of[v]

Parts(v) ==
    IF source[v] = None THEN ProducedParts(owner[v], v)
    ELSE BlockParts(elems[v] * ElemSize, 1, owner[v], Keys(owner[v], v))

Ranges(v) == [s \in DOMAIN owner[v] |-> [offset |-> Parts(v)[s].offset, size |-> Parts(v)[s].size]]

\* The vector v was brought from, and those that one was brought from, are divided as v is.
DividedAlike(v) ==
    LET alike[w \in Vectors] == source[w] = None \/ (Ranges(w) = Ranges(source[w]) /\ alike[source[w]])
    IN  alike[v]

Complete(v) ==
    \A s \in DOMAIN owner[v] :
        Holds(store[owner[v][s]], v) /\ store[owner[v][s]][v].remaining = 0

HoldsTheVector(v) ==
    \A s \in DOMAIN owner[v] :
        LET part == Parts(v)[s]
            st == store[part.pid]
        IN  Holds(st, v) /\ st[v].remaining = 0 =>
                st[v].data = [i \in 1..part.size |-> <<Origin(v), part.offset + i - 1>>]

(***************************************************************************)
(* A prefetched part with no byte missing holds the bytes of the vector    *)
(* that its descriptor says it holds.                                      *)
(***************************************************************************)
PrefetchedIsTheVector ==
    \A v \in Vectors : source[v] # None => HoldsTheVector(v)

(***************************************************************************)
(* It does when the division of the bytes, by which a prefetched vector is *)
(* kept, gives the processes the ranges that the division of the elements  *)
(* gave to those of the producer.                                          *)
(***************************************************************************)
PrefetchedAlikeIsTheVector ==
    \A v \in Vectors : source[v] # None /\ DividedAlike(v) => HoldsTheVector(v)

(***************************************************************************)
(* The assertions of DataStore::addData: bytes arrive for a part that is   *)
(* prepared, has room for them and misses as many.                         *)
(***************************************************************************)
PartsArePrepared ==
    \A c \in Procs, p \in Ranks : mgmt[c][p] # << >> =>
        \A m \in {Head(mgmt[c][p])} : m.type = "STOREPART" => CanAddData(store[p], m.resid, m.data, m.offset)

(***************************************************************************)
(* fetchDv finds the data it pushes ("Assume data is already there") but   *)
(* in two cases: a slave has not handled its own STORE of it yet, which is *)
(* on another channel than the request, or the vector is itself a prefetch *)
(* whose bytes are still missing.  Both happen, and the assertion fails.   *)
(* (Nothing is released in this module.)                                   *)
(***************************************************************************)
DataIsThere ==
    \A p \in Ranks : \A f \in Fetches(p) : \A x \in Pushed(p, f.dv, f.msg) :
        LET key == f.dv[x[2]].resid
        IN  \/ Available(store[p], key)
            \/ /\ ~ IsHead(p)
               /\ \E i \in DOMAIN mgmt[p][p] : mgmt[p][p][i].type = "STORE" /\ mgmt[p][p][i].resid = key
            \/ source[key] # None /\ Holds(store[p], key)

(***************************************************************************)
(* A vector whose prefetch was asked for is brought, completely, unless an *)
(* assertion fails.                                                        *)
(***************************************************************************)
PrefetchCompletes ==
    \A v \in Vectors : source[v] # None ~> Complete(v) \/ aborted
=============================================================================
