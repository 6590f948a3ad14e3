---------------------------- MODULE ResultParts ----------------------------
(***************************************************************************)
(* Distributed vectors: their parts are kept by the management threads,    *)
(* under keys; a descriptor (vector_distribution) says which process holds *)
(* which bytes under which key, and readers ask for the pieces they want.  *)
(*                                                                         *)
(* The program distributes a vector (block_distribute), makes actors copy  *)
(* vectors (the fetch_dv of the relayvector example: every process reads   *)
(* its range, stores it as its part of a new vector, and the head gathers  *)
(* the descriptor), reads vectors itself and releases them.  A reader asks *)
(* the holders of the pieces; a management thread answers at once or, when *)
(* the part is not there yet, once it is stored.  A worker reads the parts *)
(* of its own process in shared memory, under the mutex and the condition  *)
(* variable of the store.                                                  *)
(*                                                                         *)
(* Byte u of a vector that the program distributed as vector v is <<v, u>>.*)
(***************************************************************************)
EXTENDS Distribution, DataStore

CONSTANTS
    Client,         \* rank 0, which runs the program
    Ranks,          \* the processes with a management thread
    Groups,         \* the processes of each actor that lives at some time, head first
    N,              \* bytes of a vector the program distributes
    MaxVectors,     \* bound: vectors made
    PartsPerProc,   \* parts a process registers for a vector it makes
    LastFirst,      \* whether a process stores its parts in the reverse of the order it registers them
    Misdeclared     \* the bytes a process may declare of its last part beyond those it stores

ASSUME ClientAssumption == Client \notin Ranks /\ Ranks \subseteq Nat
ASSUME GroupsAssumption ==
    \A g \in Groups : g \in Seq(Ranks) /\ g # << >> /\ \A i, j \in DOMAIN g : g[i] = g[j] => i = j
ASSUME BoundsAssumption == N \in Nat \ {0} /\ MaxVectors \in Nat /\ PartsPerProc \in 1..2
ASSUME ProgramAssumption == LastFirst \in BOOLEAN /\ Misdeclared \subseteq Nat

Procs == Ranks \cup {Client}
Vectors == 1..MaxVectors
None == 0
Junk == <<"junk">>     \* a byte read past the end of a part

VARIABLES
    mgmt,       \* mgmt[c][p]: messages of tag 0 from process c to process p
    reply,      \* reply[h]: descriptors on their way from head h to the program
    answer,     \* answer[p][r]: data of tag 1 from the management thread of p to the reader of r
    store,      \* ActorServer::_dataStore
    pending,    \* ActorServer::_pendingResultRequests, by key
    checking,   \* the keys stored and not yet looked up in pending (the thread is between the two)
    wedged,     \* processes whose management thread returned with the store locked
    nextKey,    \* FutureKeyManager::_next
    localKey,   \* ActorServer::_next_result_store_local_key
    dvs,        \* the descriptors of the vectors, empty until they are made
    origin,     \* origin[v]: the distributed vector whose bytes v holds
    source,     \* source[v]: the vector that v is a copy of
    job,        \* job[g]: the vector actor g is making, None when it makes none
    made,       \* made[r]: the parts process r registered for that vector, empty before
    reader,     \* reader[r]: the dv_get_part of the worker of r, or of the program
    seen,       \* the vectors that were read from end to end, and by whom
    released    \* the vectors that were released

servers == <<store, pending, checking, wedged>>
program == <<reply, localKey, dvs, origin, source, job, seen, released>>
vars == <<mgmt, reply, answer, store, pending, checking, wedged, nextKey, localKey, dvs, origin,
          source, job, made, reader, seen, released>>

Idle == [pc |-> "idle", vec |-> None, first |-> 0, size |-> 0, local |-> << >>, asked |-> [p \in Ranks |-> << >>],
         buf |-> << >>]

Init ==
    /\ mgmt = [c \in Procs |-> [p \in Ranks |-> << >>]]
    /\ reply = [h \in Ranks |-> << >>]
    /\ answer = [p \in Ranks |-> [r \in Procs |-> << >>]]
    /\ store = [p \in Ranks |-> EmptyStore]
    /\ pending = [p \in Ranks |-> << >>]
    /\ checking = [p \in Ranks |-> {}]
    /\ wedged = {}
    /\ nextKey = [p \in Ranks |-> 0]
    /\ localKey = [p \in Ranks |-> -1]
    /\ dvs = [v \in Vectors |-> << >>]
    /\ origin = [v \in Vectors |-> None]
    /\ source = [v \in Vectors |-> None]
    /\ job = [g \in Groups |-> None]
    /\ made = [r \in Ranks |-> << >>]
    /\ reader = [r \in Procs |-> Idle]
    /\ seen = {}
    /\ released = {}

(***************************************************************************)
(* Actors that share a process live one after the other, since a process   *)
(* carries one (ActorServer::_actorWorkerProxy).  An actor that is         *)
(* destroyed ends its calls first; the vectors it made remain.             *)
(***************************************************************************)
Share(g, h) == \E i \in DOMAIN g, j \in DOMAIN h : g[i] = h[j]
CanLive(g) == \A h \in Groups \ {g} : Share(g, h) => job[h] = None

Unused(v) == origin[v] = None /\ \A u \in 1..(v - 1) : origin[u] # None

StoreMsg(key, data) == [type |-> "STORE", resid |-> key, data |-> data]
GetMsg(r, pieces) == [type |-> "GET", src |-> r, parts |-> pieces]
DistributeMsg(g) == [type |-> "DISTRIBUTE", group |-> g]
ReleaseMsg(key) == [type |-> "RELEASE", resid |-> key]

-----------------------------------------------------------------------------
(***************************************************************************)
(* block_distribute: the head of the actor is asked for a descriptor, and  *)
(* the program sends every part to its holder.                             *)
(***************************************************************************)
AskDistribute(g, v) ==
    /\ reader[Client].pc = "idle"
    /\ CanLive(g)
    /\ Unused(v)
    /\ mgmt' = [mgmt EXCEPT ![Client][g[1]] = Append(@, DistributeMsg(g))]
    /\ origin' = [origin EXCEPT ![v] = v]
    /\ reader' = [reader EXCEPT ![Client] = [Idle EXCEPT !.pc = "distributing", !.vec = v]]
    /\ UNCHANGED <<reply, answer, servers, nextKey, localKey, dvs, source, job, made, seen, released>>

Bytes(v, part) == [i \in 1..part.size |-> <<v, part.offset + i - 1>>]

\* The messages of a sequence of [to, msg] on their channels from process c.
SendAll(c, mail) ==
    [mgmt EXCEPT ![c] = [p \in Ranks |->
        LET mine == Chosen(mail, {i \in DOMAIN mail : mail[i].to = p})
        IN  @[p] \o [i \in 1..Len(mine) |-> mine[i].msg]]]

StoreParts(h) ==
    LET v == reader[Client].vec
        dv == Head(reply[h])
    IN  /\ reader[Client].pc = "distributing"
        /\ reply[h] # << >>
        /\ reply' = [reply EXCEPT ![h] = Tail(@)]
        /\ dvs' = [dvs EXCEPT ![v] = dv]
        /\ mgmt' = SendAll(Client, [i \in 1..Len(dv) |->
                        [to |-> dv[i].pid, msg |-> StoreMsg(dv[i].resid, Bytes(v, dv[i]))]])
        /\ reader' = [reader EXCEPT ![Client] = Idle]
        /\ UNCHANGED <<answer, servers, nextKey, localKey, origin, source, job, made, seen, released>>

(***************************************************************************)
(* The descriptor of v can be had.  A head registers the one it made by a  *)
(* message to its own management thread (registerFutureData), behind the   *)
(* STOREs of its own parts on the same channel and tag, and the program    *)
(* and other actors get it from there (getFutureData): not before those    *)
(* STOREs were handled.  Both messages change nothing else and are left    *)
(* out.                                                                    *)
(***************************************************************************)
HasDescriptor(v) ==
    /\ dvs[v] # << >>
    /\ LET h == dvs[v][1].pid
           own == {dvs[v][i].resid : i \in {j \in DOMAIN dvs[v] : dvs[v][j].pid = h}}
       IN  /\ own \cap checking[h] = {}
           /\ \A k \in DOMAIN mgmt[h][h] : ~ (mgmt[h][h][k].type = "STORE" /\ mgmt[h][h][k].resid \in own)

(***************************************************************************)
(* dv_release, for a vector that was read and that no call still needs.    *)
(***************************************************************************)
Needed(v) ==
    \/ \E w \in Vectors : source[w] = v /\ ~ HasDescriptor(w)
    \/ \E r \in Procs : reader[r].vec = v

ReleaseVector(v) ==
    /\ reader[Client].pc = "idle"
    /\ v \notin released /\ \E r \in Procs : <<r, v>> \in seen
    /\ ~ Needed(v)
    /\ mgmt' = SendAll(Client, [i \in 1..Len(dvs[v]) |->
                    [to |-> dvs[v][i].pid, msg |-> ReleaseMsg(dvs[v][i].resid)]])
    /\ released' = released \cup {v}
    /\ UNCHANGED <<reply, answer, servers, nextKey, localKey, dvs, origin, source, job, made, reader, seen>>

-----------------------------------------------------------------------------
(***************************************************************************)
(* dv_get_part of the bytes offset..offset+size-1: the pieces this process *)
(* holds are read in shared memory, in the order of the parts; then one    *)
(* message per holder asks for the others, and a receive is posted for     *)
(* each, in the order of the parts.                                        *)
(***************************************************************************)
Reading(r, v, offset, size) ==
    LET held(p) == {i \in Met(dvs[v], offset, size) : dvs[v][i].pid = p}
        pieces(p) == PiecesAt(dvs[v], held(p), offset, size)
    IN  [pc |-> "local", vec |-> v, first |-> offset, size |-> size,
         local |-> pieces(r),
         asked |-> [p \in Ranks |-> IF p = r THEN << >> ELSE pieces(p)],
         buf |-> [u \in 0..(size - 1) |-> Zero]]

Filled(buf, dst, data) ==
    [u \in DOMAIN buf |-> IF u - dst + 1 \in DOMAIN data THEN data[u - dst + 1] ELSE buf[u]]

(***************************************************************************)
(* The bytes a piece names, read without a look at the size of the part.   *)
(***************************************************************************)
\* Mutant: the offset in the part is forgotten.
ReadFromStart(data, x) == [i \in 1..x.size |-> IF i \in DOMAIN data THEN data[i] ELSE Junk]

ReadFrom(data, x) ==
    [i \in 1..x.size |-> IF x.offset + i \in DOMAIN data THEN data[x.offset + i] ELSE Junk]

OutOfBounds(st, x) == x.offset + x.size > Len(st[x.resid].data)

(***************************************************************************)
(* readStoredResult: with the mutex, the worker takes the piece or waits   *)
(* on the condition variable and looks again.  A piece out of bounds is    *)
(* given up and the buffer keeps what it had.                              *)
(***************************************************************************)
ReadLocal(r) ==
    /\ reader[r].pc = "local" /\ reader[r].local # << >>
    /\ r \notin wedged
    /\ LET x == Head(reader[r].local)
       IN  IF ~ Available(store[r], x.resid) THEN reader' = [reader EXCEPT ![r].pc = "waiting"]
           ELSE reader' = [reader EXCEPT ![r].local = Tail(@),
                                         ![r].buf = IF OutOfBounds(store[r], x) THEN @
                                                    ELSE Filled(@, x.dst, ReadFrom(store[r][x.resid].data, x))]
    /\ UNCHANGED <<mgmt, answer, servers, nextKey, made, program>>

SpuriousWakeup(r) ==
    /\ reader[r].pc = "waiting"
    /\ reader' = [reader EXCEPT ![r].pc = "local"]
    /\ UNCHANGED <<mgmt, answer, servers, nextKey, made, program>>

AskPieces(r) ==
    /\ reader[r].pc = "local" /\ reader[r].local = << >>
    /\ mgmt' = [mgmt EXCEPT ![r] = [p \in Ranks |->
                    IF reader[r].asked[p] = << >> THEN @[p]
                    ELSE Append(@[p], GetMsg(r, reader[r].asked[p]))]]
    /\ reader' = [reader EXCEPT ![r].pc = "receiving"]
    /\ UNCHANGED <<answer, servers, nextKey, made, program>>

(***************************************************************************)
(* Messages of one sender and tag match the receives in the order both     *)
(* were made.                                                              *)
(***************************************************************************)
ReceivePiece(r, p) ==
    /\ reader[r].pc = "receiving" /\ reader[r].asked[p] # << >>
    /\ answer[p][r] # << >>
    /\ reader' = [reader EXCEPT ![r].asked[p] = Tail(@),
                                ![r].buf = Filled(@, Head(reader[r].asked[p]).dst, Head(answer[p][r]))]
    /\ answer' = [answer EXCEPT ![p][r] = Tail(@)]
    /\ UNCHANGED <<mgmt, servers, nextKey, made, program>>

GotAll(r) == reader[r].pc = "receiving" /\ \A p \in Ranks : reader[r].asked[p] = << >>

-----------------------------------------------------------------------------
(***************************************************************************)
(* The program reads a vector from end to end (once: a bound).             *)
(***************************************************************************)
ProgramGet(v) ==
    /\ reader[Client].pc = "idle"
    /\ HasDescriptor(v) /\ v \notin released
    /\ <<Client, v>> \notin seen
    /\ reader' = [reader EXCEPT ![Client] = Reading(Client, v, 0, VecSize(dvs[v]))]
    /\ UNCHANGED <<mgmt, answer, servers, nextKey, made, program>>

ProgramGot ==
    /\ GotAll(Client)
    /\ seen' = seen \cup {<<Client, reader[Client].vec>>}
    /\ reader' = [reader EXCEPT ![Client] = Idle]
    /\ UNCHANGED <<mgmt, answer, servers, nextKey, made, reply, localKey, dvs, origin, source, job, released>>

(***************************************************************************)
(* The program calls fetch_dv (a descriptor) or fetch_df (a future of one, *)
(* which the actor gets first) on a vector it did not release.             *)
(***************************************************************************)
CallFetch(g, v, w) ==
    /\ reader[Client].pc = "idle"
    /\ origin[v] # None /\ v \notin released
    /\ Unused(w)
    /\ CanLive(g)
    /\ job[g] = None
    /\ job' = [job EXCEPT ![g] = w]
    /\ origin' = [origin EXCEPT ![w] = origin[v]]
    /\ source' = [source EXCEPT ![w] = v]
    /\ UNCHANGED <<mgmt, reply, answer, servers, nextKey, localKey, dvs, made, reader, seen, released>>

(***************************************************************************)
(* bsp_fetch_dv on process s (from 1) of actor g: its range of the vector, *)
(* once the descriptor is there and broadcast.  The buffer is as long as   *)
(* the range; the relay makes it r_v_size / nprocs long, which is too      *)
(* short for the first processes when the division leaves a remainder.     *)
(***************************************************************************)
\* What broadcast_dv gives every process of g, from its head.
Descriptor(g) == dvs[source[job[g]]]

StartFetch(g, s) ==
    /\ job[g] # None
    /\ HasDescriptor(source[job[g]])
    /\ made[g[s]] = << >> /\ reader[g[s]].pc = "idle"
    /\ \E size \in {VecSize(Descriptor(g))} :
       \E first \in {Beg(size, s - 1, Len(g))}, end \in {End(size, s - 1, Len(g))} :
          reader' = [reader EXCEPT ![g[s]] = Reading(g[s], source[job[g]], first, end - first)]
    /\ UNCHANGED <<mgmt, answer, servers, nextKey, made, program>>

(***************************************************************************)
(* The bytes process r read, divided into the parts it stores; the i-th of *)
(* them as it is registered, under the key it is stored with.  More bytes  *)
(* than there are may be declared of the last part of the vector.          *)
(***************************************************************************)
PartBytes(r, i) ==
    [k \in 1..PartSize(reader[r].size, i - 1, PartsPerProc) |->
        reader[r].buf[Beg(reader[r].size, i - 1, PartsPerProc) + k - 1]]

StoredAs(i) == IF LastFirst THEN PartsPerProc - i ELSE i - 1

Registered(r, extra) ==
    [i \in 1..PartsPerProc |->
        [pid |-> r, resid |-> nextKey[r] + StoredAs(i),
         size |-> PartSize(reader[r].size, i - 1, PartsPerProc) + (IF i = PartsPerProc THEN extra ELSE 0),
         offset |-> reader[r].first + Beg(reader[r].size, i - 1, PartsPerProc)]]

(***************************************************************************)
(* store_result takes a key and sends the part to this process's own       *)
(* management thread; register_result_part notes it in the descriptor.     *)
(***************************************************************************)
StoreAndRegister(g, r, extra) ==
    /\ job[g] # None
    /\ GotAll(r)
    /\ extra = 0 \/ r = g[Len(g)]
    /\ nextKey' = [nextKey EXCEPT ![r] = @ + PartsPerProc]
    /\ mgmt' = [mgmt EXCEPT ![r][r] = @ \o
                    [k \in 1..PartsPerProc |-> StoreMsg(nextKey[r] + k - 1, PartBytes(r, StoredAs(k) + 1))]]
    /\ made' = [made EXCEPT ![r] = Registered(r, extra)]
    /\ reader' = [reader EXCEPT ![r] = Idle]
    /\ UNCHANGED <<answer, servers, program>>

(***************************************************************************)
(* gather_distr_parts at the head, after the last barrier.                 *)
(***************************************************************************)
EndFetch(g) ==
    /\ job[g] # None
    /\ \A s \in DOMAIN g : made[g[s]] # << >>
    /\ dvs' = [dvs EXCEPT ![job[g]] = Gathered([s \in 1..Len(g) |-> made[g[s]]])]
    /\ seen' = seen \cup {<<g[1], source[job[g]]>>}
    /\ made' = [r \in Ranks |-> IF \E s \in DOMAIN g : g[s] = r THEN << >> ELSE made[r]]
    /\ job' = [job EXCEPT ![g] = None]
    /\ UNCHANGED <<mgmt, answer, servers, nextKey, reader, reply, localKey, origin, source, released>>

-----------------------------------------------------------------------------
(***************************************************************************)
(* The management thread of p.  It is idle when no handler is between two  *)
(* steps; a handler that needs the store waits for its mutex, for ever if  *)
(* the thread itself left it locked.                                       *)
(***************************************************************************)
Handles(c, p, type) ==
    /\ checking[p] = {}
    /\ mgmt[c][p] # << >>
    /\ Head(mgmt[c][p]).type = type

Received(c, p) == [mgmt EXCEPT ![c][p] = Tail(@)]

(***************************************************************************)
(* handleDistributeVectorMessage: keys are counted down by the head, apart *)
(* from the keys FutureKeyManager counts up.                               *)
(***************************************************************************)
\* Mutant: the keys are counted up from zero.
KeysCountedUp(p, n) == [i \in 1..n |-> i - localKey[p] - 2]

LocalKeys(p, n) == [i \in 1..n |-> localKey[p] - i + 1]

HandleDistribute(c, p) ==
    LET g == Head(mgmt[c][p]).group
    IN  /\ Handles(c, p, "DISTRIBUTE")
        /\ mgmt' = Received(c, p)
        /\ reply' = [reply EXCEPT ![p] = Append(@, BlockParts(N, 1, g, LocalKeys(p, Len(g))))]
        /\ localKey' = [localKey EXCEPT ![p] = @ - Len(g)]
        /\ UNCHANGED <<answer, servers, nextKey, dvs, origin, source, job, made, reader, seen, released>>

(***************************************************************************)
(* handleStoreResultMessage: the part is stored and the workers that wait  *)
(* for one are woken; then, with the mutex released and taken again, the   *)
(* requests that waited for the part are served.                           *)
(***************************************************************************)
\* Mutant: the condition variable is not signalled.
NotWoken(p) == reader

Woken(p) ==
    [reader EXCEPT ![p].pc = IF @ = "waiting" THEN "local" ELSE @]

HandleStore(c, p) ==
    LET m == Head(mgmt[c][p])
    IN  /\ Handles(c, p, "STORE")
        /\ p \notin wedged
        /\ CanStore(store[p], m.resid)
        /\ mgmt' = Received(c, p)
        /\ store' = [store EXCEPT ![p] = StorePartMessage(@, m.resid, m.data)]
        /\ reader' = Woken(p)
        /\ checking' = [checking EXCEPT ![p] = {m.resid}]
        /\ UNCHANGED <<answer, pending, wedged, nextKey, made, program>>

PendingFor(p, key) == IF key \in DOMAIN pending[p] THEN pending[p][key] ELSE << >>

\* Mutant: all the waiting readers' data is sent to the first of them.
SentToFirst(p, r, items) ==
    IF items # << >> /\ items[1].to = r THEN [i \in 1..Len(items) |-> items[i].data] ELSE << >>

SentTo(p, r, items) ==
    LET mine == Chosen(items, {i \in DOMAIN items : items[i].to = r})
    IN  [i \in 1..Len(mine) |-> mine[i].data]

(***************************************************************************)
(* checkDvPartRequired.  Neither the bounds are checked nor the requests   *)
(* erased.                                                                 *)
(***************************************************************************)
CheckDvPartRequired(p) ==
    \E key \in checking[p] :
        LET waiting == PendingFor(p, key)
            data == store[p][key].data
            items == [i \in 1..Len(waiting) |-> [to |-> waiting[i].to, data |-> ReadFrom(data, waiting[i])]]
        IN  /\ answer' = [answer EXCEPT ![p] = [r \in Procs |-> @[r] \o SentTo(p, r, items)]]
            /\ checking' = [checking EXCEPT ![p] = {}]
            /\ UNCHANGED <<mgmt, store, pending, wedged, nextKey, made, reader, program>>

(***************************************************************************)
(* handleGetResultPartsMessage: pieces of parts that are there are sent,   *)
(* the others are listed for later; the first one out of bounds ends the   *)
(* handler with the mutex locked.                                          *)
(***************************************************************************)
HandleGet(c, p) ==
    LET m == Head(mgmt[c][p])
        here(i) == Available(store[p], m.parts[i].resid)
        bad == {i \in DOMAIN m.parts : here(i) /\ OutOfBounds(store[p], m.parts[i])}
        handled == {i \in DOMAIN m.parts : \A j \in bad : i < j}
        sent == Chosen(m.parts, {i \in handled : here(i)})
        absent == {i \in handled : ~ here(i)}
        listed(key) == Chosen(m.parts, {i \in absent : m.parts[i].resid = key})
        waiting(key) == [i \in 1..Len(listed(key)) |->
                            [offset |-> listed(key)[i].offset, size |-> listed(key)[i].size, to |-> m.src]]
    IN  /\ Handles(c, p, "GET")
        /\ p \notin wedged
        /\ mgmt' = Received(c, p)
        /\ answer' = [answer EXCEPT ![p][m.src] =
                        @ \o [i \in 1..Len(sent) |-> ReadFrom(store[p][sent[i].resid].data, sent[i])]]
        /\ pending' = [pending EXCEPT ![p] =
                        [key \in DOMAIN @ \cup {m.parts[i].resid : i \in absent} |->
                            PendingFor(p, key) \o waiting(key)]]
        /\ wedged' = IF bad = {} THEN wedged ELSE wedged \cup {p}
        /\ UNCHANGED <<store, checking, nextKey, made, reader, program>>

(***************************************************************************)
(* handleReleaseResultPartMessage.                                         *)
(***************************************************************************)
HandleRelease(c, p) ==
    LET m == Head(mgmt[c][p])
    IN  /\ Handles(c, p, "RELEASE")
        /\ p \notin wedged
        /\ CanRemove(store[p], m.resid)
        /\ mgmt' = Received(c, p)
        /\ store' = [store EXCEPT ![p] = RemovePart(@, m.resid)]
        /\ UNCHANGED <<answer, pending, checking, wedged, nextKey, made, reader, program>>

-----------------------------------------------------------------------------
ServerStep(p) ==
    \/ \E c \in Procs : HandleDistribute(c, p) \/ HandleStore(c, p) \/ HandleGet(c, p) \/ HandleRelease(c, p)
    \/ CheckDvPartRequired(p)

ReaderStep(r) ==
    \/ AskPieces(r)
    \/ \E p \in Ranks : ReceivePiece(r, p)

WorkerStep(g, s) ==
    \/ StartFetch(g, s)
    \/ ReadLocal(g[s])
    \/ ReaderStep(g[s])
    \/ \E extra \in Misdeclared : StoreAndRegister(g, g[s], extra)

ActorStep(g) ==
    \/ \E s \in DOMAIN g : WorkerStep(g, s)
    \/ EndFetch(g)

ProgramStep ==
    \/ \E h \in Ranks : StoreParts(h)
    \/ ReaderStep(Client)
    \/ ProgramGot

ProgramChoice ==
    \/ \E v \in Vectors : ReleaseVector(v) \/ ProgramGet(v)
    \/ \E v \in Vectors, g \in Groups : AskDistribute(g, v) \/ \E w \in Vectors : CallFetch(g, v, w)

Next ==
    \/ \E p \in Ranks : ServerStep(p) \/ SpuriousWakeup(p)
    \/ \E g \in Groups : ActorStep(g)
    \/ ProgramStep
    \/ ProgramChoice

Spec == Init /\ [][Next]_vars

(***************************************************************************)
(* Every thread runs: a management thread with a message handles it, a     *)
(* worker or the program goes on with the read it is at.  What the program *)
(* starts is its own choice.                                               *)
(***************************************************************************)
Fairness ==
    /\ \A p \in Ranks : WF_vars(ServerStep(p))
    /\ \A g \in Groups : (\A s \in DOMAIN g : WF_vars(WorkerStep(g, s))) /\ WF_vars(EndFetch(g))
    /\ WF_vars(ProgramStep)

FairSpec == Spec /\ Fairness

-----------------------------------------------------------------------------
(***************************************************************************)
(* What a dv_get_part has in its buffer when it returns is the range of    *)
(* the vector it asked for, whoever stored the parts and in whatever order *)
(* they and the questions for them arrived (of a vector that is declared   *)
(* with the size of its parts).                                            *)
(***************************************************************************)
ReadsAreRight ==
    \A r \in Procs : GotAll(r) /\ VecSize(dvs[reader[r].vec]) = N =>
        \A u \in DOMAIN reader[r].buf :
            reader[r].buf[u] = <<origin[reader[r].vec], reader[r].first + u>>

(***************************************************************************)
(* The assertion of DataStore::storePartMessage: a part is stored under a  *)
(* key its process does not hold.                                          *)
(***************************************************************************)
KeysAreFree ==
    \A c \in Procs, p \in Ranks : mgmt[c][p] # << >> /\ Head(mgmt[c][p]).type = "STORE" =>
        CanStore(store[p], Head(mgmt[c][p]).resid)

(***************************************************************************)
(* The assertion of DataStore::removePart: a part that is released is      *)
(* there.  No reader asks for a part without bytes, so that the program    *)
(* can release such a part before the process has stored it.               *)
(***************************************************************************)
WithoutBytes(p, key) ==
    \E v \in Vectors : \E i \in DOMAIN dvs[v] :
        dvs[v][i].pid = p /\ dvs[v][i].resid = key /\ dvs[v][i].size = 0

ReleasedAreThere ==
    \A c \in Procs, p \in Ranks : mgmt[c][p] # << >> /\ Head(mgmt[c][p]).type = "RELEASE" =>
        \/ CanRemove(store[p], Head(mgmt[c][p]).resid)
        \/ WithoutBytes(p, Head(mgmt[c][p]).resid)

(***************************************************************************)
(* Data sent to a reader is what it waits for: there is never more on its  *)
(* way than it has receives for.  handleGetResultPartsMessage says that it *)
(* keeps a request for "when it is" available; checkDvPartRequired serves  *)
(* it and leaves it in the table.  As long as the actors of a process have *)
(* one head, or share none, its key does not come again (theorem           *)
(* NothingUnexpected).  Under another head it does, once the part is       *)
(* released, and the request is served again.                              *)
(***************************************************************************)
NoUnexpectedData ==
    \A p \in Ranks, r \in Procs : Len(answer[p][r]) <= Len(reader[r].asked[p])

(***************************************************************************)
(* A read returns, unless a management thread has left its store locked    *)
(* after a request out of bounds.                                          *)
(***************************************************************************)
ReadsReturn ==
    \A r \in Procs : reader[r].pc # "idle" ~> reader[r].pc = "idle" \/ wedged # {}
=============================================================================
