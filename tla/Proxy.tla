------------------------------- MODULE Proxy -------------------------------
(***************************************************************************)
(* The concurrent caching proxy (proxy.c, webcache.c): the accept loop of  *)
(* the main thread, the worker threads that run doit for one connection    *)
(* after another, and the list of cached objects they share.               *)
(*                                                                         *)
(* The descriptor buffer is the abstract BoundedFifo (SBuf shows that      *)
(* sbuf.c implements it) and the cache's locking is the abstract           *)
(* ReadersWriter (CacheLock shows that the semaphores implement it).  The  *)
(* cache list is the sequence of its nodes from head to tail: a change of  *)
(* its links is one step, inside a critical section.  remain_cache_size is *)
(* read outside them, and each of its changes is a step.  A step starts    *)
(* where the code blocks, or touches state that other threads can change.  *)
(***************************************************************************)
EXTENDS Integers, FiniteSets, Sequences, SequencesExt

CONSTANTS
    Main,           \* the main thread
    Workers,        \* the worker threads
    Fds,            \* connected descriptors accept may return
    SbufSize,       \* SBUFSIZE
    Files,          \* what parse_uri makes of the URIs
    Lens,           \* the values content_len may hold
    Nodes,          \* the addresses malloc may return for a cache node
    NoNode,         \* NULL
    MaxObject,      \* MAX_OBJECT_SIZE
    MaxCache,       \* MAX_CACHE_SIZE
    SizeMod,        \* 2 to the number of bits of size_t
    None            \* no descriptor, no file

(* The largest object fits in the empty cache (util.h:3-4); otherwise the    *)
(* loop that makes room would reach the head of the list.                  *)
ASSUME ConstAssumption ==
    /\ Lens \subseteq Nat /\ SbufSize \in Nat
    /\ MaxCache \in Nat /\ MaxObject \in 0 .. MaxCache
    /\ SizeMod \in Nat /\ SizeMod > MaxCache
    /\ Main \notin Workers /\ None \notin Fds \cup Files /\ NoNode \notin Nodes

VARIABLES
    queue, offered, taken,  \* the descriptor buffer, as in BoundedFifo
    reading, writing,       \* the cache's lock, as in ReadersWriter
    list,           \* g_wc_container: the nodes between head and tail
    remain,         \* g_wc_container.remain_cache_size
    live,           \* the nodes malloc has returned and nobody has freed
    node,           \* node[n]: the filename and content_len of n
    pc,             \* pc[w]: the next step of worker w
    file,           \* file[w]: the requested filename, in doit
    ptr,            \* ptr[w]: the local variable node, in doit or do_client
    len,            \* len[w]: content_len, in do_client
    reply,          \* reply[w]: the file whose content w wrote to its client
    fault,          \* the first use of memory that is undefined behaviour
    evicted,        \* history: some node has been freed
    raced           \* history: two workers have taken the same room

fifo == <<queue, offered, taken>>
lock == <<reading, writing>>
cache == <<list, remain, live, node, evicted, raced>>
local == <<file, ptr, len, reply>>
vars == <<fifo, lock, cache, local, pc, fault>>

Fifo == INSTANCE BoundedFifo
            WITH Producers <- {Main}, Consumers <- Workers, Items <- Fds,
                 N <- SbufSize, NoItem <- None
RW == INSTANCE ReadersWriter WITH Threads <- Workers

PC == {"idle", "request", "find1", "search1", "serve", "serveBody",
       "response", "find2", "search2", "move", "moving", "moved", "alloc",
       "body", "room", "evict", "evicting", "add", "adding", "write",
       "writeBody", "bypass", "close"}

Init ==
    /\ Fifo!FifoInit /\ RW!RWInit
    /\ list = << >> /\ remain = MaxCache
    /\ live = {} /\ evicted = FALSE /\ raced = FALSE
    /\ node = [n \in Nodes |-> [file |-> None, len |-> 0]]
    /\ pc = [w \in Workers |-> "idle"]
    /\ file = [w \in Workers |-> None]
    /\ ptr = [w \in Workers |-> NoNode]
    /\ len = [w \in Workers |-> 0]
    /\ reply = [w \in Workers |-> None]
    /\ fault = "none"

(* Worker w goes on from one label to the next, in a program that has not  *)
(* yet done anything undefined.                                            *)
Step(w, from, to) ==
    /\ fault = "none"
    /\ pc[w] = from
    /\ pc' = [pc EXCEPT ![w] = to]

-----------------------------------------------------------------------------
(* main: Accept returns a descriptor that is not open...  In the mutant    *)
(* main closes its descriptor after queueing it.                           *)
OpenFdsMainCloses == {offered[Main]} \cup Range(queue)
OpenFds == {offered[Main]} \cup Range(queue) \cup {taken[w] : w \in Workers}

Accept(fd) ==
    /\ fault = "none"
    /\ fd \notin OpenFds
    /\ Fifo!Offer(Main, fd)
    /\ UNCHANGED <<lock, cache, local, pc, fault>>

(* ... and sbuf_insert queues it, when there is room.                      *)
Enqueue ==
    /\ fault = "none"
    /\ Fifo!Put(Main)
    /\ UNCHANGED <<lock, cache, local, pc, fault>>

(* worker_thread: sbuf_remove.                                             *)
Dequeue(w) ==
    /\ Step(w, "idle", "request")
    /\ Fifo!Take(w)
    /\ UNCHANGED <<lock, cache, local, fault>>

(* doit: the request has arrived: an empty one, one that is not a GET (501 *)
(* is answered), or a GET of some file.                                    *)
RefuseRequest(w) ==
    /\ Step(w, "request", "close")
    /\ UNCHANGED <<fifo, lock, cache, local, fault>>

ReadRequest(w, f) ==
    /\ Step(w, "request", "find1")
    /\ file' = [file EXCEPT ![w] = f]
    /\ UNCHANGED <<fifo, lock, cache, ptr, len, reply, fault>>

-----------------------------------------------------------------------------
(* find_cache_node enters the readers' lock...                             *)
EnterFind(w) ==
    /\ \/ Step(w, "find1", "search1")
       \/ Step(w, "find2", "search2")
    /\ RW!StartRead(w)
    /\ UNCHANGED <<fifo, cache, local, fault>>

(* ... and leaves it with the first node of that name; a mutant that       *)
(* compares nothing.                                                       *)
LookupAny(f) == IF list = << >> THEN NoNode ELSE list[1]

Lookup(f) ==
    LET hits == {i \in DOMAIN list : node[list[i]].file = f}
    IN IF hits = {} THEN NoNode ELSE list[Min(hits)]

(* if (node) in doit, and in do_client.                                    *)
LeaveFind(w) ==
    LET n == Lookup(file[w]) IN
    /\ \/ Step(w, "search1", IF n # NoNode THEN "serve" ELSE "response")
       \/ Step(w, "search2", IF n # NoNode THEN "move" ELSE "alloc")
    /\ ptr' = [ptr EXCEPT ![w] = n]
    /\ RW!EndRead(w)
    /\ UNCHANGED <<fifo, cache, file, len, reply, fault>>

(* Writing a node to the client reads its header, and then its body: the   *)
(* two Rio_writen of do_server on a hit, and those of do_client.  Each     *)
(* waits until the client takes what it sends; the lock is not held.  A    *)
(* node stands for the strings it points to, which are freed with it.      *)
SendNode(w) ==
    \/ /\ ptr[w] \notin live
       /\ fault' = "freed node read"
       /\ UNCHANGED reply
    \/ /\ ptr[w] \in live
       /\ reply' = [reply EXCEPT ![w] = node[ptr[w]].file]
       /\ UNCHANGED fault

WriteHeader(w) ==
    /\ Step(w, "serve", "serveBody") \/ Step(w, "write", "writeBody")
    /\ SendNode(w)
    /\ UNCHANGED <<fifo, lock, cache, file, ptr, len>>

(* do_client writes content_len bytes, even of a node that another worker  *)
(* cached with a shorter body.                                             *)
Overread(w) ==
    pc[w] = "writeBody" /\ ptr[w] \in live /\ len[w] > node[ptr[w]].len

WriteBody(w) ==
    /\ Step(w, "serveBody", "close") \/ Step(w, "writeBody", "close")
    /\ \/ ~Overread(w) /\ SendNode(w)
       \/ Overread(w) /\ fault' = "body overread" /\ UNCHANGED reply
    /\ UNCHANGED <<fifo, lock, cache, file, ptr, len>>

-----------------------------------------------------------------------------
(* do_client: the origin has answered with its header.  content_len is     *)
(* what it announces, or, with no Content-length line, an uninitialised    *)
(* local.  The objects that are too large are not cached.                  *)
ReadOk(w) ==
    /\ \E l \in Lens :
        /\ len' = [len EXCEPT ![w] = l]
        /\ Step(w, "response", IF l <= MaxObject THEN "find2" ELSE "bypass")
    /\ UNCHANGED <<fifo, lock, cache, file, ptr, reply, fault>>

(* Any answer but 200: its header is passed on, and nothing cached.        *)
ReadError(w) ==
    /\ Step(w, "response", "close")
    /\ UNCHANGED <<fifo, lock, cache, local, fault>>

(* The body of an object that is too large is read and passed on.          *)
Bypass(w) ==
    /\ Step(w, "bypass", "close")
    /\ reply' = [reply EXCEPT ![w] = file[w]]
    /\ UNCHANGED <<fifo, lock, cache, file, ptr, len, fault>>

(* A new node is allocated and filled...                                   *)
Allocate(w) ==
    /\ Step(w, "alloc", "body")
    /\ \E n \in Nodes \ live :
        /\ live' = live \cup {n}
        /\ node' = [node EXCEPT ![n] = [file |-> file[w], len |-> len[w]]]
        /\ ptr' = [ptr EXCEPT ![w] = n]
    /\ UNCHANGED <<fifo, lock, list, remain, evicted, raced, file, len, reply,
                   fault>>

(* ... or there is no memory left: the wrapper reports it and returns NULL *)
(* (csapp.c:32-36), which do_client fills.                                 *)
AllocateNone(w) ==
    /\ Nodes \subseteq live
    /\ fault = "none" /\ pc[w] = "alloc"
    /\ fault' = "out of memory"
    /\ UNCHANGED <<fifo, lock, cache, local, pc>>

(* ... and the body read into it, from the origin.                         *)
ReadBody(w) ==
    /\ Step(w, "body", "room")
    /\ UNCHANGED <<fifo, lock, cache, local, fault>>

-----------------------------------------------------------------------------
(* Every function that edits the list ends with V(&w); a mutant forgets.   *)
KeepW(w) == UNCHANGED lock
ReleaseW(w) == RW!EndWrite(w)

(* move_node_to_first takes w...                                           *)
EnterMove(w) ==
    /\ Step(w, "move", "moving")
    /\ RW!StartWrite(w)
    /\ UNCHANGED <<fifo, cache, local, fault>>

(* ... and remove_node unlinks the node and gives what it was charged back *)
(* to the budget, if it is still in the list; a mutant unlinks the first.  *)
PositionFirst(n) == 1
Position(n) == CHOOSE i \in DOMAIN list : list[i] = n

Unlink(w) ==
    /\ ptr[w] \in Range(list)
    /\ Step(w, "moving", "moved")
    /\ list' = RemoveAt(list, Position(ptr[w]))
    /\ remain' = (remain + node[ptr[w]].len) % SizeMod
    /\ UNCHANGED <<fifo, lock, live, node, evicted, raced, local, fault>>

(* Otherwise it returns NULL, and nothing is moved.                        *)
MoveNothing(w) ==
    /\ ptr[w] \notin Range(list)
    /\ Step(w, "moving", "write")
    /\ ReleaseW(w)
    /\ UNCHANGED <<fifo, cache, local, fault>>

(* add_first links a node before all others and charges its length to      *)
(* remain_cache_size, which is unsigned; the mutants treat it as signed,   *)
(* and forget it.                                                          *)
ChargedSigned(n) == remain - node[n].len
ChargedForgotten(n) == remain
Charged(n) == (remain - node[n].len) % SizeMod

Relink(w) ==
    /\ Step(w, "moved", "write")
    /\ list' = <<ptr[w]>> \o list
    /\ remain' = Charged(ptr[w])
    /\ ReleaseW(w)
    /\ UNCHANGED <<fifo, live, node, evicted, raced, local, fault>>

(* while (remain_cache_size < content_len), without the lock: the room a   *)
(* worker finds may be room that another has found and not charged yet, or *)
(* that a node leaves only while it is moved.                              *)
Unsettled(v) == pc[v] \in {"add", "adding", "moved"}

CheckRoom(w) ==
    /\ Step(w, "room", IF remain < len[w] THEN "evict" ELSE "add")
    /\ raced' = (raced \/ (remain >= len[w] /\ \E v \in Workers \ {w} : Unsettled(v)))
    /\ UNCHANGED <<fifo, lock, list, remain, live, node, evicted, local, fault>>

EnterEvict(w) ==
    /\ Step(w, "evict", "evicting")
    /\ RW!StartWrite(w)
    /\ UNCHANGED <<fifo, cache, local, fault>>

(* remove_last_ts unlinks and frees the node before tail.  With an empty   *)
(* list that is head, whose prev is NULL.                                  *)
LeaveEvict(w) ==
    /\ list # << >>
    /\ Step(w, "evicting", "room")
    /\ list' = Front(list)
    /\ live' = live \ {Last(list)}
    /\ node' = [node EXCEPT ![Last(list)] = [file |-> None, len |-> 0]]
    /\ evicted' = TRUE
    /\ ReleaseW(w)
    /\ UNCHANGED <<fifo, remain, raced, local, fault>>

EvictFromEmpty(w) ==
    /\ list = << >>
    /\ fault = "none" /\ pc[w] = "evicting"
    /\ fault' = "null dereferenced"
    /\ UNCHANGED <<fifo, lock, cache, local, pc>>

EnterAdd(w) ==
    /\ Step(w, "add", "adding")
    /\ RW!StartWrite(w)
    /\ UNCHANGED <<fifo, cache, local, fault>>

LeaveAdd(w) ==
    /\ Step(w, "adding", "write")
    /\ list' = <<ptr[w]>> \o list
    /\ remain' = Charged(ptr[w])
    /\ ReleaseW(w)
    /\ UNCHANGED <<fifo, live, node, evicted, raced, local, fault>>

(* worker_thread: Close(connfd).                                           *)
Close(w) ==
    /\ Step(w, "close", "idle")
    /\ Fifo!Finish(w)
    /\ file' = [file EXCEPT ![w] = None]
    /\ ptr' = [ptr EXCEPT ![w] = NoNode]
    /\ len' = [len EXCEPT ![w] = 0]
    /\ reply' = [reply EXCEPT ![w] = None]
    /\ UNCHANGED <<lock, cache, fault>>

-----------------------------------------------------------------------------
(* The steps that wait for a peer: a client's request, an origin's header  *)
(* and body, and the client again, which takes the reply.                  *)
Peer(w) ==
    \/ RefuseRequest(w) \/ ReadOk(w) \/ ReadError(w)
    \/ Bypass(w) \/ ReadBody(w)
    \/ WriteHeader(w) \/ WriteBody(w)
    \/ \E f \in Files : ReadRequest(w, f)

(* The steps that wait for nobody, or for another thread.                  *)
Work(w) ==
    \/ Dequeue(w) \/ EnterFind(w) \/ LeaveFind(w)
    \/ Allocate(w) \/ AllocateNone(w)
    \/ EnterMove(w) \/ Unlink(w) \/ MoveNothing(w) \/ Relink(w)
    \/ CheckRoom(w) \/ EnterEvict(w) \/ LeaveEvict(w) \/ EvictFromEmpty(w)
    \/ EnterAdd(w) \/ LeaveAdd(w) \/ Close(w)

(* Nothing after the first undefined behaviour is defined.                 *)
Stopped == fault # "none" /\ UNCHANGED vars

Next ==
    \/ \E fd \in Fds : Accept(fd)
    \/ Enqueue
    \/ \E w \in Workers : Work(w) \/ Peer(w)
    \/ Stopped

Spec == Init /\ [][Next]_vars

(* Threads are scheduled; peers owe the proxy nothing.                     *)
Fairness ==
    /\ WF_vars(Enqueue)
    /\ \A w \in Workers : WF_vars(Work(w))

LiveSpec == Spec /\ Fairness

-----------------------------------------------------------------------------
TypeOK ==
    /\ queue \in Seq(Fds) /\ Len(queue) <= SbufSize
    /\ offered \in [{Main} -> Fds \cup {None}]
    /\ taken \in [Workers -> Fds \cup {None}]
    /\ reading \subseteq Workers /\ writing \subseteq Workers
    /\ list \in Seq(Nodes)
    /\ remain \in 0 .. SizeMod - 1
    /\ live \subseteq Nodes
    /\ node \in [Nodes -> [file : Files \cup {None}, len : Lens \cup {0}]]
    /\ pc \in [Workers -> PC]
    /\ file \in [Workers -> Files \cup {None}]
    /\ ptr \in [Workers -> Nodes \cup {NoNode}]
    /\ len \in [Workers -> Lens \cup {0}]
    /\ reply \in [Workers -> Files \cup {None}]
    /\ fault \in {"none", "freed node read", "body overread",
                  "null dereferenced", "out of memory"}
    /\ evicted \in BOOLEAN /\ raced \in BOOLEAN

(* A node a worker has filled and not linked yet belongs to it alone, and  *)
(* so does a node on its way to the front.                                 *)
Private(w) == pc[w] \in {"body", "room", "evict", "evicting", "add", "adding"}
Unlinked(w) == Private(w) \/ pc[w] = "moved"

(* The cache list: no node is in it twice, each is allocated and filled,   *)
(* and none is still, or again, some worker's own.                         *)
ListInv ==
    /\ IsInjective(list)
    /\ \A n \in Range(list) : n \in live /\ node[n].file # None
    /\ \A w \in Workers : Unlinked(w) =>
        /\ ptr[w] \in live \ Range(list)
        /\ \A v \in Workers \ {w} : Unlinked(v) => ptr[v] # ptr[w]

(* What the nodes in the list are charged.                                 *)
Total(s) ==
    LET sum[i \in 0 .. Len(s)] == IF i = 0 THEN 0 ELSE sum[i - 1] + s[i]
    IN sum[Len(s)]
Charge == Total([i \in DOMAIN list |-> node[list[i]].len])

(* remain_cache_size and the list agree.                                   *)
BudgetExact == remain = (MaxCache - Charge) % SizeMod

(* "the total cache size is limited" (9_ProxyLab/README.md:29).            *)
CacheLimited == Charge <= MaxCache

(* Until two workers take the same room, what is in the cache and what is  *)
(* left of it are MAX_CACHE_SIZE together, or less once nodes have been    *)
(* evicted: no modulus, so the cache is limited, and the budget has not    *)
(* wrapped.                                                                *)
BudgetUntilRace ==
    ~raced => /\ remain + Charge <= MaxCache
              /\ ~evicted => remain + Charge = MaxCache

(* For as long as nothing has been evicted a client gets the object it     *)
(* asked for, and no node vanishes under a worker, whatever the races of   *)
(* lookups and insertions of the same file.                                *)
ServedUntilEviction ==
    ~evicted =>
        /\ fault \in {"none", "body overread", "out of memory"}
        /\ \A w \in Workers : reply[w] \in {None, file[w]}

(* An accepted connection is in exactly one place: being queued, in the    *)
(* queue, or with one worker, which closes it once.                        *)
OneOwner ==
    /\ IsInjective(queue)
    /\ \A w \in Workers :
        /\ (taken[w] = None) <=> (pc[w] = "idle")
        /\ taken[w] # None =>
            /\ taken[w] \notin Range(queue) \cup {offered[Main]}
            /\ \A v \in Workers \ {w} : taken[v] # taken[w]
    /\ offered[Main] # None => offered[Main] \notin Range(queue)

(* Only a peer can hold a worker up, or the lock: past its peers, a worker *)
(* goes on to its next wait for one and to the end of doit, unless the     *)
(* program faults.  The semaphores owe nobody anything: lookups of other   *)
(* workers that keep coming for ever may starve it of w or of mutex.       *)
AtPeer == {"idle", "request", "response", "body", "bypass",
           "serve", "serveBody", "write", "writeBody"}

OthersKeepComing(w) == []<><<\E v \in Workers \ {w} : EnterFind(v)>>_vars

HeldUpOnlyByPeers ==
    \A w \in Workers :
        \/ pc[w] \notin AtPeer ~> (pc[w] \in AtPeer \/ fault # "none")
        \/ OthersKeepComing(w)

(* Whoever reads a node without the lock finds it still allocated: "If     *)
(* cache hit, ... we should get both header ... and body in the cache      *)
(* node" (9_ProxyLab/README.md:28).                                        *)
NoStaleNode == fault # "freed node read"
=============================================================================
