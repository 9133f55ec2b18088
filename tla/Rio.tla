-------------------------------- MODULE Rio --------------------------------
(***************************************************************************)
(* The robust I/O functions of csapp.c over stream sockets.  Each process  *)
(* has at most one call of rio_readlineb, rio_readnb or rio_writen in      *)
(* progress; a step is one read or write system call, or one pass over the *)
(* bytes that are already in the buffer, which nobody else sees.           *)
(*                                                                         *)
(* A stream carries tokens: pieces of text that no property looks into,    *)
(* and NL, the end of a line.  Sockets are the kernel's: data can be taken *)
(* in any amounts, a close with data left unread resets the connection and *)
(* may lose what was on its way, and a write to a closed peer is lost, and *)
(* the next one fails.                                                     *)
(***************************************************************************)
EXTENDS SequencesExt

CONSTANTS
    Process,        \* all that hold a descriptor
    Capacity,       \* tokens under way in one direction
    RioSize,        \* RIO_BUFSIZE, in tokens
    Slow            \* processes whose data may also arrive one by one

ASSUME SizesAssumption == Capacity \in Nat \ {0} /\ RioSize \in Nat \ {0}

VARIABLES
    conn,       \* the connections, in the order they were opened
    rio,        \* [Process -> rio_t]: rio_buf, and rio_bufptr and rio_cnt in it
    call        \* [Process -> the call in progress, or the one that returned]

rvars == <<conn, rio, call>>

NL == <<"nl">>

Sides == {"opener", "acceptor"}
Other(side) == CHOOSE s \in Sides : s # side

Fresh(by, to) ==
    [by |-> by, to |-> to,
     in |-> [s \in Sides |-> <<>>], open |-> [s \in Sides |-> TRUE], reset |-> FALSE]

(* A descriptor is one side of a connection, or -1.                         *)
NoFd == [conn |-> 0, side |-> "opener"]
Fd(i, side) == [conn |-> i, side |-> side]
Incoming(fd) == conn[fd.conn].in[fd.side]
IsOpen(fd) == conn[fd.conn].open[fd.side]
Peer(fd) == Fd(fd.conn, Other(fd.side))
Broken(fd) == IF fd = NoFd THEN TRUE ELSE conn[fd.conn].reset
Least2(m, n) == IF m < n THEN m ELSE n

(* ret is 0 while the call runs; data is what it read, or has yet to write. *)
Call(op, fd, left, data) == [op |-> op, fd |-> fd, left |-> left, data |-> data, ret |-> "none"]
NoCall == [Call("write", NoFd, 0, <<>>) EXCEPT !.ret = "ok"]
ReadLine(fd) == Call("line", fd, 0, <<>>)
ReadN(fd, n) == [Call("bytes", fd, n, <<>>) EXCEPT !.ret = IF n = 0 THEN "ok" ELSE "none"]
WriteN(fd, data) == Call("write", fd, 0, data)

Returned(p) == call[p].ret # "none"
Reading(p) == call[p].op # "write" /\ ~Returned(p)
Writing(p) == call[p].op = "write" /\ ~Returned(p)
Return(p, ret) == call' = [call EXCEPT ![p].ret = ret]

(* rio_readinitb                                                            *)
EmptyRio == [buf |-> <<>>, ptr |-> 0, cnt |-> 0]

Amounts(p, n) == IF p \in Slow THEN {1, n} ELSE {n}

(* The pointer is not moved.                                                *)
RefilledInPlace(r, read) == [r EXCEPT !.buf = read \o SubSeq(@, Len(read) + 1, Len(@)), !.cnt = Len(read)]

(* The refill of rio_read: the pointer goes back to the start of the buffer *)
(* and the bytes of earlier refills stay behind the new ones.               *)
Refilled(r, read) ==
    [buf |-> read \o SubSeq(r.buf, Len(read) + 1, Len(r.buf)), ptr |-> 0, cnt |-> Len(read)]

Refill(p) ==
    LET fd == call[p].fd IN
    /\ Reading(p) /\ rio[p].cnt = 0 /\ fd # NoFd /\ Incoming(fd) # <<>>
    /\ \E n \in Amounts(p, Least2(RioSize, Len(Incoming(fd)))) :
          /\ rio' = [rio EXCEPT ![p] = Refilled(@, SubSeq(Incoming(fd), 1, n))]
          /\ conn' = [conn EXCEPT ![fd.conn].in[fd.side] = SubSeq(@, n + 1, Len(@))]
    /\ UNCHANGED call

(* read finds no data and never will: it returns 0 at the end of the stream *)
(* and -1 on a reset.  A line that was begun is returned as it is.          *)
ReadEnd(p) ==
    LET fd == call[p].fd IN
    /\ Reading(p) /\ rio[p].cnt = 0
    /\ \/ /\ fd # NoFd /\ Incoming(fd) = <<>> /\ ~IsOpen(Peer(fd))
          /\ Return(p, IF call[p].op = "line" /\ call[p].data = <<>> THEN "eof" ELSE "ok")
       \/ /\ Broken(fd) /\ (fd # NoFd => Incoming(fd) = <<>>)
          /\ Return(p, "error")
    /\ UNCHANGED <<conn, rio>>

(* What the loops of rio_readlineb and rio_readnb take from the buffer, and *)
(* whether they go round again.                                             *)
Unread(r) == SubSeq(r.buf, r.ptr + 1, r.ptr + r.cnt)
LineIn(tokens) ==
    IF NL \in Range(tokens)
    THEN SubSeq(tokens, 1, CHOOSE n \in DOMAIN tokens :
                              tokens[n] = NL /\ \A m \in 1 .. n - 1 : tokens[m] # NL)
    ELSE tokens
Taken(c, r) ==
    IF c.op = "line" THEN LineIn(Unread(r)) ELSE SubSeq(Unread(r), 1, Least2(c.left, r.cnt))

(* One read is taken for all of the bytes.                                  *)
CompleteAtOnce(c, taken) == IF c.op = "line" THEN Last(taken) = NL ELSE TRUE
Complete(c, taken) == IF c.op = "line" THEN Last(taken) = NL ELSE Len(taken) = c.left

Copy(p) ==
    LET taken == Taken(call[p], rio[p]) IN
    /\ Reading(p) /\ rio[p].cnt > 0
    /\ rio' = [rio EXCEPT ![p].ptr = @ + Len(taken), ![p].cnt = @ - Len(taken)]
    /\ call' = [call EXCEPT ![p].data = @ \o taken,
                            ![p].left = IF call[p].op = "line" THEN @ ELSE @ - Len(taken),
                            ![p].ret = IF Complete(call[p], taken) THEN "ok" ELSE @]
    /\ UNCHANGED conn

(* bufp is not moved by a short write.                                      *)
UnsentFromStart(data, n) == SubSeq(data, 1, Len(data) - n)

(* rio_writen                                                               *)
Unsent(data, n) == SubSeq(data, n + 1, Len(data))

Sent(p, n) ==
    call' = [call EXCEPT ![p].data = Unsent(@, n),
                         ![p].ret = IF n = Len(call[p].data) THEN "ok" ELSE @]

Write(p) ==
    LET fd == call[p].fd
        to == Peer(fd)
        room == Capacity - Len(Incoming(to))
    IN
    /\ Writing(p) /\ ~Broken(fd)
    /\ \/ /\ IsOpen(to) /\ room > 0
          /\ LET n == Least2(room, Len(call[p].data)) IN
             /\ conn' = [conn EXCEPT ![to.conn].in[to.side] = @ \o SubSeq(call[p].data, 1, n)]
             /\ Sent(p, n)
       \/ /\ ~IsOpen(to)
          /\ conn' = [conn EXCEPT ![fd.conn].reset = TRUE]
          /\ Sent(p, Len(call[p].data))
    /\ UNCHANGED rio

WriteFails(p) ==
    /\ Writing(p) /\ Broken(call[p].fd)
    /\ Return(p, "error")
    /\ UNCHANGED <<conn, rio>>

RioStep(p) == Refill(p) \/ ReadEnd(p) \/ Copy(p) \/ Write(p) \/ WriteFails(p)

(* close: the connections after it, for a set of descriptors.               *)
AfterClose(fds) ==
    LET closed(i) == {s \in Sides : Fd(i, s) \in fds}
        unread(i) == \E s \in closed(i) : conn[i].in[s] # <<>>
    IN
    {[i \in DOMAIN conn |->
        [conn[i] EXCEPT
            !.in = [s \in Sides |->
                       IF s \in closed(i) \/ (unread(i) /\ lost) THEN <<>> ELSE @[s]],
            !.open = [s \in Sides |-> @[s] /\ s \notin closed(i)],
            !.reset = @ \/ unread(i)]] : lost \in BOOLEAN}

RioTypeOK ==
    /\ \A i \in DOMAIN conn :
          \A s \in Sides : Len(conn[i].in[s]) <= Capacity
    /\ \A p \in Process :
          /\ rio[p].cnt >= 0
          /\ rio[p].ptr + rio[p].cnt <= Len(rio[p].buf)
          /\ Len(rio[p].buf) <= RioSize
          /\ call[p].op \in {"line", "bytes", "write"}
          /\ call[p].ret \in {"none", "ok", "eof", "error"}
=============================================================================
