# Verification of the CSAPP lab solutions

TLA+ models, TLC runs and TLAPS proofs for the programs in `src/Labs` of the
CSAPP course repository. Paths below are relative to `src/Labs` (the proxy is
`9_ProxyLab/proxylab-handout`, the shell `7_ShellLab/shlab-handout`, the
allocator `8_MallocLab/malloclab-handout`, the cache simulator
`5_CacheLab/cachelab-handout`, the puzzles `1_DataLab/datalab-handout`).
`PROJECT.json` maps every definition to its lines, and lists the hazards, the
runs, the mutants and the theorems.

## 1. Inventory

The repository holds independent programs. Two of them are concurrent, and come
first.

| component | state | operations | correct when |
|---|---|---|---|
| descriptor buffer, `sbuf.c` | `buf`, `front`, `rear`, semaphores `mutex`, `slots`, `items` | `sbuf_init`, `sbuf_insert`, `sbuf_remove` (`sbuf_deinit` is unreachable) | it is a bounded FIFO queue; its callers do not block for ever |
| cache locking, `webcache.c` | semaphores `mutex`, `w`, the int `readcnt` | entry and exit of `find_cache_node`; `P(&w)`/`V(&w)` of the three editors | many readers or one editor; calls return |
| cache list, `webcache.c` | nodes between `head` and `tail`, `remain_cache_size` | `find_cache_node`, `move_node_to_first`, `remove_last_ts`, `add_first_ts` | nodes linked once and allocated; the budget matches the nodes; a node lives while it is used |
| proxy threads, `proxy.c` | the main thread and 4 workers; per worker the request, `node`, `content_len` | `main`, `worker_thread`, `doit`, `do_client`, `do_server`, `parse_uri`, header loops | each connection has one owner and is closed once; a client gets the object it asked for; only peers hold a worker up |
| buffered I/O and sockets, `csapp.c` | a `rio_t` buffer per descriptor | `rio_writen`, `rio_read`, `rio_readlineb`, `rio_readnb`, `open_clientfd`, `open_listenfd` (`rio_readn` is not called) | no byte lost, duplicated or reordered at short counts; an end of stream or an error ends the call |
| tiny server, `tiny/` | none between requests | `doit`, `read_requesthdrs`, `serve_static`, `serve_dynamic` with its CGI child, `clienterror` | the whole of the right reply, then the end of the stream; one client does not harm the next |
| job list, `tsh.c` | `jobs[16]`, `nextjid` | `clearjob` ... `getjobjid` | at most one entry per child; ids name jobs |
| shell, `tsh.c` | the job list, the signal mask, the loop's and the handlers' locals | the read/eval loop, `fg`, `bg`, `quit`, `waitfg`; handlers of SIGCHLD, SIGINT, SIGTSTP | the list agrees with the processes; at most one foreground job; `waitfg` returns; every zombie is reaped |
| allocator, `mm.c`, on `memlib.c` | the heap's words, boundary tags, segregated free lists | `mm_init`, `mm_malloc`, `mm_free`, `mm_realloc` and their helpers; `mem_sbrk` | payloads aligned, disjoint, inside the heap; tags and lists agree |
| cache simulator, `csim.c` | per set a linked list of lines with valid and tag; three counters | `IsCacheHit`, `UpdateCacheBlock`, the trace loop | it is an LRU set-associative cache |
| transpose, `trans.c`, run by `test-trans.c` and `tracegen.c` | two matrices, the loop variables | three nests of loops, `trans`; validation, simulation of the trace | B is the transpose of A, with few enough misses |
| puzzles, `bits.c`, tested by `btest.c` | none; the harness has loop variables, a jump buffer and an alarm | pure functions on words; `gen_vals`, the loops over arguments, the time-out | each equals its reference in `tests.c`; the harness tests what it says |
| drivers, test programs, bomb, attack lab, archives, slides | | | not modelled: I/O, timing, generated or binary-only code |

**How they interact.** The proxy's main thread passes connected descriptors to
the workers through the buffer; the workers share the cache list under its two
semaphores, but keep pointers into it after they release them. In the shell the
kernel interrupts the loop with handlers, which interrupt each other, and all
of them share the job list; what protects it is the signal mask, where the code
uses it. The proxy and Tiny talk over sockets, which deliver in pieces and end
early; Tiny forks a program that writes to the same connection. `test-trans` runs
`csim` on the trace of `trans`, `btest` runs `bits`; otherwise the labs do not
call each other.

**What is hard.** Interleaved threads at the semaphores and at the plain ints
they guard; state used after its lock is gone (nodes, and in the shell slots of
the job list); a budget that is tested and charged at two moments; signals that
are not queued, arrive between a test and a wait, or interrupt another handler;
limits (a full buffer, a full cache, a full job list); counters that wrap; peers
that never answer, and peers that leave in the middle of a message; loops that end
only at a line that may never come; an alarm that outlives what it was set for.

## 2. Modules

| module | what it is |
|---|---|
| `BoundedFifo` | abstract: what `sbuf.c` promises. `Put` and `Take` are single instants |
| `SBuf` | `sbuf.c`, one action per `P`, `V`, load and store |
| `ReadersWriter` | abstract: what the cache's semaphores are for |
| `CacheLock` | the locking of `webcache.c`, one action per `P`, `V`, load, store and test of `readcnt` |
| `Proxy` | main, the workers and the cache list, over `BoundedFifo` and `ReadersWriter` |
| `Jobs` | the job list of the shell: operators on the array and `nextjid` |
| `Shell` | the loop, the handlers, the children and the kernel's signals |
| `Parseline` | `parseline` of `tsh.c`, one round of its loop a step |
| `Allocator` | abstract: what an allocator promises, as `mdriver.c` tests it |
| `Malloc` | `mm.c` on `memlib.c`, to the word, with the driver as its client |
| `Rio` | the robust I/O functions of `csapp.c` over the kernel's stream sockets |
| `Web` | the proxy, Tiny, the CGI program and their clients, over `Rio` |
| `LRU` | abstract: a cache that evicts the least recently used block, defined from the history of accesses |
| `CacheSim` | the data structure of `csim.c` and its lookup, as operators |
| `Csim` | `csim.c`: options and the loop over a trace |
| `Trans` | `trans.c` by single loads and stores, as `test-trans` validates and scores it |
| `Words` | 32-bit words as sets of the positions of their ones |
| `Bits` | `bits.c` and the references of `tests.c`, as operators |
| `Btest` | `btest.c`: values, loops, score, alarm |
| `Counting` | lemmas on how many threads stand at a set of labels, and the least-number principle for the searches and the inductions |
| `SBuf_proofs`, `CacheLock_proofs`, `Proxy_proofs`, `Shell_proofs` | theorems about `SBuf`, `CacheLock`, `Proxy` and `Shell` with its `Jobs` |
| `Malloc_proofs` | the functions of `mm.c`, the calls of the client, and the theorems about `Malloc` |
| `Web_proofs` | theorems about `Web` with its `Rio` |
| `CacheLab_proofs` | theorems about `Csim` and `Trans` |
| `MCSBuf`, `MCProxy`, `MCShell`, `MCMalloc`, `MCWeb`, `MCLabs` | instances for TLC |

**Refinement and composition.** `SBuf` implements `BoundedFifo` (`queue` is the
window of the array between `front` and `rear`; an item is on offer until its
store; a consumer owns an item from its fetch until it is done with it).
`CacheLock` implements `ReadersWriter` (`reading` and `writing` are the threads
at the traversal and at the edit). Both are checked by TLC and proved.
`Malloc` implements `Allocator` (the contents of a block are the words of the
heap at its payload), and `Csim` implements `LRU` (the blocks in a set, most
recent last): both checked by TLC and proved as well. `Web` extends `Rio`; `Trans` uses the operators
of `CacheSim`. `Proxy`
instantiates the two abstract modules and uses their actions, conjoined with
its own changes: the interleavings it explores are those of whole critical
sections, which the two refinements justify for what is only touched inside
them, the list and the nodes linked in it. `remain_cache_size` is not: `proxy.c:159`
reads it without a lock. So each of its changes is a step of its own, also the
two inside one `move_node_to_first` (`Unlink`, `Relink`), between which the test
can see the room that a moved node leaves for a moment.

### SBuf

`pc[t]` says which line thread t executes next; `idx[t]` is the register of
`++sp->rear` or `++sp->front`; `item[t]` the argument or the local. `Offer` is
a call of `sbuf_insert`; `ReserveSlot`, `LockBuffer`, `LoadRear`, `Store`,
`UnlockBuffer`, `PostItem` are its five lines, with line 28 in two steps.
`ClaimItem` ... `PostSlot` are those of `sbuf_remove`. The counters are C ints:
`CInc` wraps at `IntMax` and `CRem` keeps the sign of the dividend, so `buf` has
cells below 0 too, which the code would reach after 2^31 calls.

### CacheLock

Both ways through the semaphores are one cycle of `pc[t]` each: a lookup
(31-50 of `webcache.c`) and an edit (86-93, and the same lines in the other two
editors). `readcnt` is loaded and stored in separate steps and tested in a
third.

### Proxy

The cache list is the sequence `list` of node addresses from head to tail;
`live` are the addresses malloc has handed out; `node` their content, which
is cleared when it is freed. A worker's `pc` names the points where it
waits or where others can get between two of its accesses: after the request,
on each side of each lock, at the unlocked test of the budget, and at each
`Rio_readnb` and `Rio_writen`, which may wait for a peer: a new node is allocated
(`Allocate`) before its body is read (`ReadBody`), and a node's header and body are
written, and read, in two steps (`WriteHeader`, `WriteBody`). The first use of a
freed node, a read beyond a body, an allocation that fails (the wrapper returns
NULL) and the NULL dereference of an eviction from the empty list are recorded in
`fault`, and the program's behaviour ends there. Two variables are history:
`evicted`, and `raced`, which becomes true when a worker finds room
that another has found and not charged yet, or that a moved node will take back. A length is a small number; it is whatever the
origin announced or, with no `Content-length`, what the uninitialised variable
held. The budget is unsigned and wraps at `SizeMod`.

Abstracted: request and response texts (only the filename, the status and the
length matter), the host (the cache does not look at it), short counts, and a
peer that closes in the middle of a header: those are in `Web`.

### Rio and Web

A stream is a sequence of tokens: a piece of text, or `NL`. `conn[i]` has, per
side, what is on its way to it and whether it is open. `call[p]` is the one call
of `rio_readlineb`, `rio_readnb` or `rio_writen` that process p is in; `rio[p]` its
`rio_t`. `Refill` is the `read` of `rio_read` (809-820), `Copy` what the loops
above it take from the buffer, which nobody else sees; `ReadEnd` a `read` that
returns 0 or -1; `Write` and `WriteFails` one `write`. The kernel (`AfterClose`,
`Fresh`, `Broken`) is external: a close with unread data resets the connection and
may lose what was on its way; a write to a closed peer is lost, and the next one
fails.

In `Web`, `pc[p]` says which call of the code p made last, and an action is the
code from its return to the next call: `Doit`, `ReadRequestHdrs`, `Find`,
`Connect`, `SentUpstream`, `ReplyLine`, `ReplyBody` and `CloseConnection` are
`doit` and `do_client` of `proxy.c` in order, `TinyDoit` ... `TinyDone` those of
`tiny.c`, `Adder` the CGI program. Both loops over headers stop only at a blank
line (`proxy.c:133`, `250`; `tiny.c:108`): when the stream ends first, the proxy
appends the last line again and again, which for an empty line never ends
(`"endless"`) and for any other runs over the array, after which the process is
taken to be dead (`Dies`); Tiny prints for ever. When not even the first header
was read, the array holds anything, a blank line of an earlier request included.
The proxy blocks SIGPIPE and its copy of `unix_error` returns; Tiny's exits.

`parse_uri` finds no slash in some URIs and goes on with NULL (`proxy.c:301`,
`NoSlash`); an empty file cannot be mapped (`tiny.c:170`, `TinyOpen`). Both end the
server. `read_requesthdrs` appends nothing for the three headers that the proxy
writes itself (`Kept`), so that when the stream ends behind one of them the loop
goes on for ever without touching the array.

Abstracted: the wording of lines, and with it the number of writes. Where Tiny
writes several times in a row, a write to a client that has left may be the one
that fails, so the model keeps two: the header and the text of `clienterror` (its
seven `Rio_writen`), the two lines of `serve_dynamic`; in `serve_static` the four
header lines are one write, and the body the second. In the proxy, which ignores
a failed write, a run of writes is one. Also abstracted are the cache's budget and
locks (`Proxy`), the buffer of descriptors (`SBuf`, here the backlog), lines as long
as `MAXLINE`, the names of hosts and ports, and the loops over addresses, of which
`Connected` keeps the result. A query without `&` is not asked.

### The cache lab: CacheSim, Csim, Trans

A set is the sequence of its lines from head to tail: `UpdateCacheBlock` moves the
line it used to the tail, so that the head is the least recently used. The tag is
cut to an `unsigned int` (190), of which `TagMod` has the range; a geometry is the
number of sets, of lines and the size of a block that the options give (81-99). `Csim` runs any trace
of at most `MaxLines` lines; `LRU` says what the counters must be, from the
history of accesses alone.

`Trans` runs the program as `test-trans` does: for each registered function the
nest is executed, validated, and its trace simulated. A step is one iteration of
the loop above the innermost, a sequence of loads, and of stores of values loaded
before. Accesses are to cells of the two static arrays, so that an index beyond a
row falls where it does in C: with `-M 32 -N 16` the nest for `M == 32`, which
does not look at N (31), writes beyond the matrix, and `validate` rejects it. The
trace begins with what `eval_perf` and the calls themselves load; with these, the
model has the counters that `5_CacheLab/README.md` reports. `csim-ref`, a binary,
is taken to count as `csim.c` does.

### The data lab: Words, Bits, Btest

A word is the set of the positions of its ones, so that the operators of C are set
operations, and arithmetic is carries. `Bits` gives each puzzle as the code
computes it, and next to it the reference of `tests.c`; floats are `Exponent` and
`Fraction`. `Btest` runs `gen_vals` (the ranges of `decl.c`, and for floats the
list at 141-190, with some random words), the nest over the arguments, or the
arguments given with `-1`, `-2`, `-3`. The alarm of a function that ended in time
stays set (357): stage `"undefined"` is its arrival before the next `sigsetjmp`.

### Jobs and Shell

`Jobs` gives each helper of `tsh.c` as an operator: a lookup returns the first
slot, or 0 for NULL. In `Shell`, what the code does with all signals blocked is
one step, and every other access to the list is a step of its own. `mask` is
the process's mask, `frames` the stack of running handlers, with the mask that
each will restore; `Deliver` pushes a handler for a pending signal that is not
blocked, and ends a sleeping `sigsuspend`. `proc`, `news` and `pending` are the
kernel's: a child that ends or stops is news for `waitpid` and raises SIGCHLD,
which is not queued. `kill` fails for a child that has not yet called `setpgid`
or has been reaped, and `Kill` then ends the shell (`life`), as a NULL
dereference does. `Hang` is the state a lost wakeup leaves.

Two history variables are not the code's: `meddled` becomes true when the
SIGCHLD handler changes the entry that `do_bgfg` is working on (363-394), and
`dropped` collects the children `addjob` had no slot for.

`Parseline` has the local array by its characters, the position `buf` and the
delimiter found from it, as positions in the array; a step cuts one argument and
looks for the next (294-308). What a user types is words with spaces around them.

Left out: SIGQUIT; a ctrl-c that the terminal also sends to a child that has
not left the shell's group; a signal that stays pending for a stopped process
(ends of children are possible at any time they run, which covers its effect).

### Malloc

The program is built with `-m32`: a header takes 8 bytes, both links of a free
block share the 8 bytes after it, and every size and address is a multiple of 8.
`mem[a]` is the a-th such word of the simulated heap; a block is named by the
address of its header, and sizes are counted in words, requests in bytes. `roots`
are the heads of the segregated lists. The helpers of `mm.c` are operators that
take a heap, `[mem, roots]`, and return one, in the order in which the code
writes; the three entry points are the actions (`mm_realloc` has one per case).
`Becomes` ends a call: words that are no longer a tag, a link or a client's data
turn into junk, which only reduces the number of states, since the code never
reads them. The client is that of `mdriver.c`: it fills each block it gets, and
goes on after a `NULL`.

Two things that the code does have no meaning, and the behaviour ends there
(`fault`): coalescing at the payload of a tail that `mm_realloc` cut off (526),
and writing to the `NULL` of a failed `mm_malloc` (569).

Left out: requests so large that `ALIGN` wraps (`SizesAssumption`; the driver's
heap has 20 MB), the tests against self-reference in
`insert_block_to_segrelist` (a block that is inserted is in no list), and the
printing. The code's own checkers (577-701) are operators that `WellFormed` and
`ListsExact` require to find nothing. `TailWords` stands for the 64 bytes above which a block is placed at
the tail.

## 3. Runs

| run | instance and bounds | shows |
|---|---|---|
| `sbuf` | 1 producer (as in `proxy.c`), 2 consumers, 2 slots, 5 inserts, `IntMax` 5 | the accounting of the semaphores, no lost increment, the refinement, and that calls and items get through |
| `proxy` | 2 workers, 2 descriptors, 2 files, 2 nodes, cache of 2, objects up to 2, lengths 1..3, `SizeMod` 8; no bound on connections | see below |
| `proxy_stale` | as `proxy`, 3 nodes | violation: a freed node is read |
| `proxy_budget` | as `proxy`, 3 nodes | violation: an eviction returns nothing to the budget |
| `proxy_limit` | as `proxy`, 3 nodes | violation: two workers fill the same room, and the cache outgrows its limit |
| `shell` | 3 children forked in the order of their pids, 2 slots, 1 `fg`/`bg`, 1 key | the list tracks the children, none is forgotten, no news is lost, every zombie is reaped, and the list is sound unless a handler hits `do_bgfg` |
| `shell_waitfg` | 2 children, 1 key | violation: `waitfg` sleeps with no foreground job |
| `shell_fg` | 2 children, 2 `fg`/`bg` | violation: two entries in state FG |
| `malloc` | 3 blocks of 0, 7, 24, 33 or 80 bytes, symmetric; a heap of 21 words, pages of 8, tail placement above 3 words | tags, footers and lists agree, nothing leaks, payloads stay, the heap grows only when it must, the refinement of `Allocator` |
| `malloc_shrink` | as `malloc` | violation: a shrunk block's tail is not coalesced |
| `web` | 2 workers, sockets of 5 tokens, buffers of 4; one client with each request to each server, whole or cut, waiting or not, with a file removed or Tiny killed; seven of these beside a client that asks the proxy for a page | see below |
| `labs` | every trace of 5 accesses in three geometries; the three graded shapes of the matrix and one that is not; every function of `btest` with all values it generates at a test range of 4, and with several thousand arguments by hand; every command line of up to three words out of seven; and the cache's lock with 3 threads, no other bound | `csim` is LRU; blocks stay transposed and score in full; which puzzles are wrong where; the arguments are those typed; the accounting of `mutex`, `w`, `readcnt`, the refinement, and calls that return unless calls keep coming |

**Why the bounds are enough for the hazards.** Two slots and five insertions
take the counters twice round the array, through the full and the empty buffer,
with both consumers inside at once. Three threads in the cache's lock give a
reader inside, one on its way in or out, and an editor waiting. In the proxy
two files fill the cache, a further miss evicts while the other worker
holds a node, both workers check the same room at once, or one checks while the
other moves a node, both cache the same file, and an address that was freed is
used again. With two nodes `malloc` can also fail; with three, in the violation
runs, both workers hold a new node beside a listed one. The shell's three
children overflow a list of two slots, and one key and one builtin meet each
other and SIGCHLD in every order.
The heap has room for two pages: three blocks of the five sizes (nothing, the
minimum, a front and a tail placement, more than a page) reach every case of
`coalesce`, an insertion at the head, in the middle and at the tail of a list,
every case of `mm_realloc`, and a full heap. Between calls there is no bound:
every sequence of them is covered.

The sockets of `web` hold less than the upstream request and the longest reply,
and the buffers less than a message, so that writes and refills are short; a cut
after 1, 2 or 4 tokens is one in the request line, before the first header, and
before the blank line. `Slow` names a worker whose data may also arrive token by
token. `Constraint` takes steps that nobody else sees first, in one order, and
lets the idle workers, which are alike, take connections in order.

**What `web` says.** `RepliesIntact`: whatever the sizes of reads and writes, a
client has the beginning of the right reply, and all of it when both servers live
and nothing was reset (a `POST` is answered before its headers are read, and the
close may then reset the answer). `CachedWhole`: a body is cached short, with
junk behind it, only if Tiny ended while it sent it; `Rio_readnb`'s result is
dropped (`proxy.c:157`). `EndedOnlyByPeers` is the list of those who can bring a
server down. The proxy ends, or one of its threads never does, after a request
that was cut short, one complete request whose URI has no slash, or Tiny's end.
Tiny ends, or never goes on, by a signal, a removed file, a direct client that
leaves early, the proxy's own end, or a request for an empty file.
With it the property says what cannot: a client of the proxy that does not wait
for its reply harms nobody, and one that leaves early harms Tiny only through the
proxy's own end.
`Answered`: with no fault, and no request of the two kinds that end a server, every
client that asks and waits gets to the end of its stream. A client that leaves is
not its subject: `EndedOnlyByPeers` says what that may cost the others.

**What `labs` says.** `LRUSpec`: hits, misses and evictions are
those of an LRU cache, and nothing is evicted while a line is free.
`BlocksLeftTransposed` and `ScoresInFull`: after every step the blocks that are
left are transposed and the others untouched, and the misses are within what
`test-trans` scores in full (the model has 1083 for 64 x 64). `OnlyKnownErrors`:
`btest` finds no error in anything it generates, and by hand only those below.
`ArgsAsTyped`: `parseline`, which ends each string in the array it goes on
searching, leaves the arguments that were typed, empty ones, quoted ones and
spaces at either end included. It does take a last word that only begins with
`&`, or is quoted, for the ampersand (`Misread`), and the quote that is never
closed is left out: the loop ends at once, and what was typed from there on is
dropped.

**What `proxy` says.** `ListInv` is unconditional. `BudgetUntilRace` says how far
the budget is right: until two workers take the same room, the nodes in the list
and `remain_cache_size` are together at most `MAX_CACHE_SIZE`, and exactly that
until the first eviction. There is no modulus in it, so the cache is limited and
the counter has not wrapped. The race itself breaks this (`proxy_limit`): the
cache outgrows its limit, and the counter wraps to a huge number, after which
nothing is evicted any more. `ServedUntilEviction`: neither the race nor
duplicates harm what is served; the first eviction does (`proxy_stale`), and gives
nothing back to the budget (`proxy_budget`).
`ServedUntilEviction` admits one fault beside a failed `malloc`, the read beyond the
body of a node that another worker cached with a shorter length (`proxy.c:167`).

**Fairness.** Threads are scheduled: weak fairness of each thread's steps.
In `web` it is
enough that somebody who can go on does (`WF_vars(Step)`); a thread that loops for
ever takes no step of the model, so it cannot stand in for the others. Nothing is
assumed of the semaphores: `CallsReturn` promises that a lookup or an edit
returns unless calls keep coming for ever (then a waiter may be passed over
again and again, and overlapping readers may keep `w`). Peers
owe the proxy nothing: no fairness on `Peer`, which has the reads from clients and
origins and every write to a client (`Rio_writen` waits for as long as the client does
not read), and `HeldUpOnlyByPeers` excludes the states that wait for one. Nor does
the lock owe a worker anything: when the lookups of other workers keep coming for
ever, they may keep `w`, or `mutex`, from it, and the property says so
(`OthersKeepComing`); TLC finds that behaviour when the disjunct is left out. The shell's loop, handlers and signal delivery are
weakly fair; the user and the children are not.

**Deadlock** is checked in every run but `web`, where the threads wait for
connections when all clients have ended (`Answered` is what excludes a deadlock
before), and `labs`, whose programs end (a deadlock of the cache's lock would
violate `CallsReturn`). `Quiet` (SBuf), `Stopped` (Proxy, Malloc),
`Ended` and `Hang` (Shell) are the states in which the program really stops or the
bounded run is over; the models name them so that any other state
without a successor is an error.

## 4. Findings

1. *Use after free in the cache* (`proxy_stale`). `find_cache_node` returns a
   node when its lock is released (`webcache.c:50`); `doit` reads it at
   `proxy.c:221`, `do_client` at 166 and 167, all without the lock
   (`move_node_to_first`, given such a node at 143, only compares the pointer, under
   `w`). An eviction by another worker in between frees it. `9_ProxyLab/README.md:28`
   says that on a hit the reply is the header and the body in the node.
2. *Evictions give nothing back* (`proxy_budget`). `remove_last_ts` frees the
   node but leaves `remain_cache_size` (84-94), unlike `remove_node` (76). Once
   full, the loop at `proxy.c:159` empties the list and then evicts the head,
   through its NULL `prev`. `9_ProxyLab/README.md:51` says the budget changes
   with the list.
3. *The cache outgrows its limit* (`proxy_limit`). Two workers find the same room
   at `proxy.c:159`, without the lock, and both fill it; the unsigned budget wraps.
   `9_ProxyLab/README.md:29` says the total size is limited.
4. *Lost wakeup in `waitfg`* (`shell_waitfg`, `tsh.c:409-411`). SIGCHLD is
   unblocked between the test and `sigsuspend`; comment at 402.
5. *Two foreground jobs* (`shell_fg`, `tsh.c:386-396`). `do_bgfg` works on a
   slot with signals unblocked; comment at 35.
6. *A shrunk block's tail is lost* (`malloc_shrink`, `mm.c:526`). `mm_realloc`
   frees the tail at its header but coalesces at its payload, so old data is
   taken for a header. `8_MallocLab/README.md:31` says every new free block is
   coalesced.

The run `labs` pins down three more faults by stating exactly where the puzzles
differ from their references (`Wrong` in `Bits`), all on arguments that `btest`
does not generate:

* `floatScale2` of the largest exponent below infinity with a fraction gives a NaN
  in place of infinity (`bits.c:331`; the value `btest.c:144` calls the largest
  norm has no fraction);
* `floatFloat2Int` of magnitudes between 2^31 and 2^32 with a fraction does not
  report overflow (`bits.c:364`);
* `floatPower2(-149)` is 0, not the smallest denormal (`bits.c:394`).

And `web` shows what follows from the loops over headers: a request or a reply
that ends before its blank line costs the proxy a thread or the process, and Tiny
its only thread. A request without a slash costs the process, and an empty file
Tiny. No text of the repository says otherwise.

## 5. Proofs

`SBuf_proofs`, for every set of threads, every capacity, and `NoWrap`
(`MaxInserts <= IntMax`: the counters do not reach INT_MAX):

* `Invariance`: `IInv` = types with plain naturals, the labels of each kind of
  thread, `Accounting`, a bound of `rear` by the insertions, and `Registers`
  (what a thread loaded is still current). `Accounting` alone is not inductive:
  the write-back `rear' = idx[p]` adds one only because no other thread is
  between load and store, which needs the mutex equation and the register.
* `AccountingHolds`, `NoLostIncrementHolds` follow from `IInv`; `TypeCorrect`
  gets the upper bounds of the semaphores from the three equations.
* `ImplementsFifo`: `IInv` is strengthened (`RInv`) with where the items are;
  then `Store` is `Put`, `Fetch` is `Take`, and the other steps stutter. That
  `Store` and `Fetch` act on one end of the window each is arithmetic on
  `(front + i) % N` for a window of at most N cells (`DistinctCells`).

`CacheLock_proofs`, for every finite set of threads:

* `Invariance`: `LockInv` with types and `Known` (what the holder of `mutex`
  knows of `readcnt`: the register is current, it is 1 at `P(&w)` and 0 at
  `V(&w)`). One lemma per action and side.
* `LockInvHolds`, and `ImplementsReadersWriter`: a reader that is inside is
  covered, so the readers hold `w`, so no editor does.

`TypeCorrect` gets the range of `readcnt` from `CountExact`.

The lemmas in `Counting` (one move changes a count by at most one, a count that
is 1 has one member) carry both modules.

`Proxy_proofs`, for every set of workers, descriptors, files and node addresses,
any capacity, and any sizes with `MaxObject <= MaxCache < SizeMod` (`util.h:3-4`):

* `Invariance`: `IInv` is the five properties below with what they rest on.
  `OneEditor`: who is in an edit holds `w`, so nothing else changes the budget between
  the two halves of a move. `Requested`: past the request a worker knows its file and has not replied.
  `FitsCache`: what a worker makes room for is at most `MAX_OBJECT_SIZE`; the
  length is read long before it is used. `Filled`: a node that is not linked yet
  holds the file of the worker that allocated it. `ExactUntilEviction`: until the
  first eviction the budget is right modulo `SizeMod`, also after a race. `RoomUntilRace`: until a race,
  whoever has found room has it alone, also when the moved node comes back; this is
  what `BudgetUntilRace` rests on. `FoundUntilEviction`: a node
  that a worker has found is still allocated, and holds the file it looked for;
  without it nothing says that `write` and `serve` read the right content.
  `RoomUntilEviction`: for the first eviction there is a node in the list, or one
  that is being moved: the empty list has room for any object (`ExactUntilEviction`,
  `FitsCache`), and nothing else leaves the list before.
* `TypeCorrect`, `OwnedOnce`, `ListSound` hold for ever; `BudgetKept` until a race for
  room, and `ServedRight` until the first eviction, after which the violation runs
  show that the code breaks them.
* The budget is a sum over a list. That a term taken out of the list leaves the rest
  of the sum, and that a new first term adds to it (`TotalRemoved`, `TotalPrepended`), is proved
  from the partial sums: the first place where two of them differ cannot exist
  (`LeastMember`).

The first part of `Shell_proofs` says what each helper of the job list returns and
changes, for a list of any size: `First` finds a slot (the least-number principle of
`Counting`), `AddJobEffect` and `DeleteJobEffect` change one slot, `MaxJidIs` bounds the ids.

The second part, for every set of children, every `MaxJobs`, and any number of
commands and keys:

* `Invariance`: `IInv` is the three properties below with what they rest on.
  `Masking`: every running handler's signal is blocked in the mask and in the
  masks saved above it, and SIGCHLD in all of them from fork to `addjob`; so
  there is one SIGCHLD handler at most, and none while the loop is at `addjob`.
  `Unlisted`: the child that was just forked has not been reaped and is not in
  the list. `Updating`: the child the handler is about to delete was reaped, the
  one it is about to mark ST was not. `NewsOfChildren`: waitpid reports children
  that exist. One lemma per action; steps that leave the handlers and the pids
  of the list alone share `SameHandlers`, returning handlers `ReturnInv`.
* `ListTracksChildrenHolds`: `addjob` never comes after `deletejob` (236-249).
  `NoChildForgottenHolds`, `NoNewsLostHolds`, `TypeCorrect`.
* `SoundUnlessMeddledHolds`, from `Sound`, which is inductive beside `IInv`.
  `ReportedStops` (unconditional): what waitpid has told of as stopped is still
  stopped when the handler enters it in the list, since only the loop continues
  processes and it waits for the handler. As long as nothing meddled: the slot
  that `do_bgfg` found is a job's, of the process it continues (`Window`); a stop
  between `kill` and the assignment of the state is still to be told (`Untold`);
  a cleared entry is wholly clear (`Entries`); an entry is FG only while `waitfg`
  runs (`OneFg`); every other entry that nobody has news of agrees with its
  process (`Agree`, the property without its `Settled`).

`CacheLab_proofs` on `Csim`, for any numbers of sets and lines, any size of a block, any range
of the tag, and every trace whose addresses keep their tag in that range
(`GeometryAssumption`; a longer address loses bits at 190):

* `Invariance`: `IInv` relates the lists to the history. `InOrder`: in each set
  the empty lines come first, and the others are in the order of the last use of
  their blocks. `Kept`: a block that was accessed and is in no line was last used
  before every block of its set that is, and no line of that set is empty.
  It says nothing of the tags of empty lines: the line with the tag (145) is the
  last one that has it, so if any of them is valid, that one is.
* `ImplementsLRU`: from `IInv` a lookup finds x just when fewer than E other blocks
  of its set were used since x (`HitFound`: they are the lines behind it;
  `MissFound`: they fill the set), and a miss takes a line that is not empty just
  when E blocks of the set were ever used (`EvictsWhenFull`).

`CacheLab_proofs` on `Trans`, for every set of shapes of at most 256 rows and columns
(`ShapesAssumption`: `test-trans` refuses others, `test-trans.c:219-229`):

* `LoopsRight`: `TransInv` says where the loops are and what B holds there. `Done`:
  the blocks before the one at `at.i` and `at.j` are transposed. `Doing`: after k
  rounds of its part that block has k rows of A copied, or k rows and columns
  exchanged, or (for M = 64) its bottom filled for k rows, and so on; the property
  alone is not inductive, since two of the three parts write values that are not in
  their place. `Aligned`: blocks of 8 begin at multiples of 8.
* `TransposedBehind` is the property of the run for every shape, and `EachValid`
  says that `validate` finds the transpose whenever the function handles the shape.
  `Supported` is what the nests of the submission need: N = 32 for M = 32, and for
  M = 64 that N is a multiple of 8; all other shapes are handled.
* What an iteration stores is a sequence of accesses, so each kind has three lemmas:
  which cells its sequence stores and what was loaded for them (`CopyRowPuts` ...),
  that B then differs there only (`PlacesWritten`, because no cell is stored twice),
  and that the part has done one round more (`CopyStep` ...). `CopiedThenSwapped` ...
  `CornerThenDone` join the parts of a block, and `Advance` the blocks. That two
  places never share a cell is arithmetic on i * N + j (`Apart`, `Inside`).

`Malloc_proofs`, for every limit of the heap from 3 words, every
page from 2, every placement threshold, any names of blocks and any requests up to
2^29 bytes (`SizesAssumption`):

* The heap is described by sets, not by walks. `Tagged(h, B, D)`: B are the blocks,
  D the free ones; each block reaches to the next or to the epilogue, and each
  header has its own state and that of the block before. `Loose(h, B, D, L)`: the
  lists hold L, each block in the list of its size, in the order of addresses and
  linked both ways, with a footer. `Good(h, B, D)`: the lists hold all of D, and no
  two free blocks touch. `Trail` is the loop along `next` that every walk of the
  code is; `TrailEnumerates` says that it visits such a set in order.
* `Invariance`: `IInv` = `Safe(heap, block)`, and `InOrder(heap, block)` as long as
  `fault` is "none". `InOrder`: for some B and D the heap is `Good`, the blocks in
  B but not in D are the prologue and one for each block of the client, large enough
  and with its data. The properties alone are not inductive: `WellFormed` says
  nothing of the lists that `find_fit` takes its block from, `ListsExact` nothing of
  the tags that `coalesce` goes by, and the payload of a block is safe from its
  neighbour's footer only because blocks do not overlap. TLC agreed that the core of
  it holds on all states of the run `malloc` before it was proved.
* One lemma per function, in the order they call each other: `RemoveLoose`,
  `InsertLoose`, `CoalesceSound`, `MmFreeSound`, `SplitSound`, `FitFound`, `ExtendIs`,
  `MmMallocSound`, `MoveSound`, each: given a heap in order (with one free block out
  of its list, where the code has that), the result is in order and keeps every
  other block word for word (`Keeps`).
* After a fault the tags are lost, and only `Safe` remains: `TornSafe` shows that the
  shrinking `mm_realloc` which coalesces at a payload (the finding of
  `malloc_shrink`) still leaves the client's data alone, and `mm_malloc` that finds
  no memory for `mm_realloc` to copy to changes nothing. Calls that would follow are
  not made (`Stopped`).
* `TypeCorrect`, `PayloadsKept`, `TagsRight`, `ListsRight`, `NothingLost` are the five
  invariants of the run; `GrowsForNeed` its action property: `find_fit` comes to every
  free block that is large enough, so the heap is extended for need only.
* `Allocates`: the run's refinement. The contents of a block are determined by the
  client's record because of `Intact`, so each call is one of `Allocator`'s or a stutter.

`Web_proofs`, for any clients and workers, any files of any size, any requests that are
cut short anywhere (`ScenariosAssumption`: a get or a post, with the header of a host
or one the proxy drops), any sizes of the buffers and of the kernel's, with files that
are removed, empty files, URIs without a slash, and Tiny killed at any time:

* `WholeCached` is about two programs and a stream. A worker caches what it read
  (`ReplyBody`), so the invariant follows the answer the whole way: `Received(w)` is
  what the worker has in its header, in the call of `rio_readnb`, in the buffer of
  `rio_t` and in its socket, in that order, and `Asking(w)` what is on its way to Tiny.
* `Invariance`: `WebInv` has three parts. `StaticInv` is the one about each process
  by itself: the buffers and calls of Rio (`RioInv`: `ptr` and `cnt` stay inside
  `rio_buf`, a line ends where its `NL` was found), and per process what its place
  says of its descriptor (`WorkerIs`, `TinyIs`, `CgiIs`, `ClientIs`), and the backlogs
  (`Queued`). `CacheInv` is about the cache. The third, `UpIs` and `ReadIs`, relates a
  worker to Tiny: what was received is the beginning of an answer to what was asked;
  and as long as Tiny runs its connection is in one of three states: in Tiny's
  backlog with one whole request before it (`InBacklog`), served (`InService`,
  with `Talks`: for each place of Tiny, what it has read, what it has sent and what
  is left on both sides), or answered in full and closed (`Answered0`). Without
  `Talks` it is not inductive: that an answer is whole when Tiny closes depends on
  which line of the request Tiny had reached, and that a close loses nothing on its
  way depends on Tiny having read the request to its blank line, so that no data
  is left unread and the connection is not reset.
* A step of a process disturbs only its own part: `Local`, `OpenStep` and `CloseStep`
  do `StaticInv` for any process that goes on, connects or closes, `UnmovedKept`
  carries the third part over steps of others, and `RefillView`, `CopyView` and
  `WriteView` say what a `read`, a pass over a buffer and a `write` do to the stream:
  `Ahead`, what was read, is buffered and is to come, stays the same sequence. Then
  there is one lemma per action, and one per server that ends.
* `TypeCorrect` is the type invariant, with the bounds of the buffers and the length
  of what is cached. Assumed of the constants: the kinds of processes differ
  (`ProcessAssumption`), the sizes are positive (`SizesAssumption`), and no file has the
  name that `parse_uri` makes of the program's (`FilesAssumption`: `proxy.c` writes
  `./cgi-bin`, so a worker asks Tiny for a program in vain).

Only model-checked: all liveness (`InsertReturns`, `EveryItemRemoved`,
`CallsReturn`, `HeldUpOnlyByPeers`, `ZombiesReaped`, `Answered`; TLAPS does not
reason about fairness here); `ScoresInFull`, a count of misses of three given
shapes; `RepliesIntact` and `EndedOnlyByPeers` of `Web`; `Parseline` and the data lab.
`Bits`, `Btest` and `Parseline` are about given programs, widths and inputs, and their
definitions are recursive: there is little in them for a theorem. `RepliesIntact` is
what a client sees, so it needs for a client and a worker what `WebInv` has for a
worker and Tiny, and for clients that leave; `EndedOnlyByPeers` adds how a thread got
to each of its dead ends.

## 6. Plan

In this order:

1. Theorems: `RepliesIntact`, from `WebInv` and the same relation between a client and
   the worker or Tiny that serves it.
2. `WebCache`: the list with `prev` and `next`, head and tail, as a refinement of
   the sequence that `Proxy` uses.
3. `JobTable`: a machine over `Jobs` with four slots, for the ids that wrap.

## 7. Not modelled

* `open_listenfd`, and the loops over addresses: what they do is over before
  anything else starts, and depends on the host's configuration only.
* The names of host and port, which `strncpy` leaves without an end (`proxy.c:289`):
  one origin in the models.
* Quotes that are not closed in `Parseline`; SIGQUIT; `listjobs`.
* Trace files and timing of `mdriver` (`clock.c`, `fcyc.c`, `fsecs.c`,
  `ftimer.c`), `fshow.c`, `ishow.c`, the drivers in Perl, Python and shell: I/O.
* The bomb, the attack lab and the archives: binaries, or code that is not run.
