-------------------------------- MODULE Web --------------------------------
(***************************************************************************)
(* The proxy and the Tiny server as their clients see them: requests and   *)
(* replies as lines on connections, read and written with the functions of *)
(* Rio.  The proxy's threads share the process and a cache without         *)
(* eviction (Proxy has the list, its budget and its locks); SBuf is the    *)
(* queue of accepted connections.  Tiny serves one connection at a time    *)
(* and forks the CGI program adder.                                        *)
(*                                                                         *)
(* Faults: a client closes in the middle of its request, or does not wait  *)
(* for the reply; a file is removed; Tiny is killed.  What the code does   *)
(* with a stream that ends in the wrong place, or a URI it does not expect,*)
(* is followed to its end: a thread that loops for ever, or that writes    *)
(* beyond an array or reads at NULL, after which the process is taken to   *)
(* be dead.                                                                *)
(***************************************************************************)
EXTENDS Rio

CONSTANTS
    Clients, Workers,   \* NTHREADS workers
    Files,              \* the files and programs under Tiny's directory
    Forbidden,          \* those with the wrong permissions
    Size,               \* [path -> st_size, or what the program prints]
    MaxObject,          \* MAX_OBJECT_SIZE
    Scenarios           \* [does: clients -> [to, ask, header, sends, waits], faults]

ASSUME ProcessAssumption ==
    /\ Process = Clients \cup Workers \cup {"tiny", "cgi"}
    /\ Clients \cap Workers = {} /\ {"tiny", "cgi"} \cap (Clients \cup Workers) = {}

VARIABLES
    scenario,   \* what the clients do, and which faults may happen
    pc,         \* where each process is
    task,       \* [threads -> the locals of doit and do_client]
    up,         \* the servers that are running
    backlog,    \* connections not accepted yet, or in the proxy's sbuf
    cache,      \* [paths -> reply], for the paths that are cached
    files       \* the files that are there

shared == <<scenario, up, backlog, cache, files>>
wvars == <<pc, task, shared>>
vars == <<rvars, wvars>>

Servers == {"proxy", "tiny"}
Threads(server) == IF server = "proxy" THEN Workers ELSE {"tiny"}

---------------------------------------------------------------------------
(* Messages.  The path of a program is known by its directory.              *)

Dynamic(path) == path \in {"cgi-bin/add", "./cgi-bin/add"}

(* parse_uri of proxy.c puts a dot before the name of a program, and that   *)
(* of Tiny another before all names: ../cgi-bin is not Tiny's directory.    *)
ParseUri(path) == IF Dynamic(path) THEN "./cgi-bin/add" ELSE path

(* Without a slash there is no name to look for cgi-bin in, but NULL.       *)
NoSlash(path) == path = "noslash"

ASSUME FilesAssumption == \A path \in Files : path # "./cgi-bin/add" /\ Size[path] \in Nat

Line(text) == <<text, NL>>
GetLine(path) == Line(<<"get", path>>)
HostLine == Line(<<"host">>)
AgentLine == Line(<<"agent">>)
Request(does) ==
    (IF does.ask = "post" THEN Line(<<"post">>) ELSE GetLine(does.ask))
        \o Line(<<does.header>>) \o <<NL>>

ASSUME ScenariosAssumption ==
    \A s \in Scenarios : \A c \in Clients :
        /\ s.does[c].header \in {"host", "agent"}
        /\ s.does[c].sends \in 0 .. Len(Request(s.does[c]))

Ok(path) == <<<<"200", path>>, NL>>
Body(path) == [n \in 1 .. Size[path] |-> <<"body", path, n>>]
Junk(n) == [m \in 1 .. n |-> <<"junk">>]
Header(path) == Ok(path) \o <<NL>>
ServeStatic(path) == Header(path) \o Body(path)
ServerLine == Line(<<"server">>)
AdderOutput(path) == Line(<<"length", path>>) \o <<NL>> \o Body(path)
ErrorHeader(code) == <<<<code>>, NL, NL>>
ErrorBody == <<<<"html">>>>
ClientError(code) == ErrorHeader(code) \o ErrorBody

IsGet(line) == Len(line) > 0 /\ line[1][1] = "get"

(* parse_rsphdr: the length is in the header when the code is 200.          *)
IsOk(rsp) == rsp[1][1] = "200"
ContentLen(rsp) == Size[rsp[1][2]]

(* The buffer from Malloc, as far as it was read.                           *)
Filled(data, n) == data \o Junk(n - Len(data))

---------------------------------------------------------------------------
(* Processes.  p continues at location at with a new call; Goto is for a    *)
(* step that makes none.                                                    *)

Goto(p, at) == pc' = [pc EXCEPT ![p] = at]
Continue(p, at, c) ==
    Goto(p, at) /\ call' = [call EXCEPT ![p] = c] /\ UNCHANGED <<conn, rio>>
ConnFd(w) == Fd(task[w].conn, "acceptor")

(* open_clientfd: one of the addresses answers, if the server listens.  The *)
(* message is then written to the new connection, or to -1.                 *)
Connected(p, server, at, message) ==
    LET fd == IF server \in up THEN Fd(Len(conn) + 1, "opener") ELSE NoFd IN
    /\ Goto(p, at)
    /\ call' = [call EXCEPT ![p] = [message EXCEPT !.fd = fd]]
    /\ IF server \in up
       THEN /\ conn' = Append(conn, Fresh(p, server))
            /\ backlog' = [backlog EXCEPT ![server] = Append(@, Len(conn) + 1)]
       ELSE UNCHANGED <<conn, backlog>>
    /\ UNCHANGED rio

Closed(p, at, fd) ==
    /\ Goto(p, at)
    /\ conn' \in AfterClose({fd})
    /\ call' = [call EXCEPT ![p] = NoCall]
    /\ rio' = [rio EXCEPT ![p] = EmptyRio]

(* A server that ends: the kernel closes the descriptors of its process.    *)
(* The CGI program has its own of the connection it answers.                *)
DescriptorsOf(server) ==
    {fd \in [conn : DOMAIN conn, side : Sides] :
        \/ fd.side = "acceptor" /\ conn[fd.conn].to = server
           /\ ~(pc["cgi"] = "running" /\ call["cgi"].fd = fd)
        \/ fd.side = "opener" /\ conn[fd.conn].by \in Threads(server)}

Dies(server) ==
    LET processes == Threads(server) IN
    /\ up' = up \ {server}
    /\ conn' \in AfterClose(DescriptorsOf(server))
    /\ pc' = [p \in Process |-> IF p \in processes THEN "dead" ELSE pc[p]]
    /\ call' = [p \in Process |-> IF p \in processes THEN NoCall ELSE call[p]]
    /\ rio' = [p \in Process |-> IF p \in processes THEN EmptyRio ELSE rio[p]]
    /\ backlog' = [backlog EXCEPT ![server] = <<>>]
    /\ UNCHANGED <<scenario, task, cache, files>>

---------------------------------------------------------------------------
(* The proxy.  main blocks SIGPIPE, and its wrappers print an error and     *)
(* return: a failed write changes nothing.                                  *)

At(p, at) == pc[p] = at /\ Returned(p)
Data(p) == call[p].data

NoTask == [conn |-> 0, path |-> "none", hdr |-> <<>>, line |-> <<>>]
SetTask(w, t) == task' = [task EXCEPT ![w] = t]

(* worker_thread, and the start of doit.                                    *)
TakeConnection(w) ==
    /\ pc[w] = "idle" /\ backlog["proxy"] # <<>>
    /\ LET i == Head(backlog["proxy"]) IN
       /\ SetTask(w, [NoTask EXCEPT !.conn = i])
       /\ Continue(w, "request", ReadLine(Fd(i, "acceptor")))
    /\ backlog' = [backlog EXCEPT !["proxy"] = Tail(@)]
    /\ UNCHANGED <<scenario, up, cache, files>>

(* The descriptor is left open.                                             *)
KeepConn(w) ==
    /\ Goto(w, "idle") /\ SetTask(w, NoTask)
    /\ call' = [call EXCEPT ![w] = NoCall]
    /\ rio' = [rio EXCEPT ![w] = EmptyRio]
    /\ UNCHANGED <<conn, shared>>

CloseConn(w) == Closed(w, "idle", ConnFd(w)) /\ SetTask(w, NoTask) /\ UNCHANGED shared

(* doit, down to the headers.  A client resets its connection only when it  *)
(* was sent something: the first line is read without an error.  parse_uri  *)
(* comes before the headers.                                                *)
Doit(w) ==
    /\ At(w, "request")
    /\ CASE call[w].ret = "eof" -> CloseConn(w)
         [] call[w].ret # "eof" /\ ~IsGet(Data(w)) ->
               /\ Continue(w, "last", WriteN(ConnFd(w), ClientError("501")))
               /\ UNCHANGED <<task, shared>>
         [] call[w].ret # "eof" /\ IsGet(Data(w)) /\ NoSlash(Data(w)[1][2]) -> Dies("proxy")
         [] OTHER ->
               /\ SetTask(w, [task[w] EXCEPT !.path = ParseUri(Data(w)[1][2])])
               /\ Continue(w, "headers", ReadLine(ConnFd(w)))
               /\ UNCHANGED shared

(* The two loops that append lines until one is blank (read_requesthdrs and *)
(* do_client).  When the stream ends, the last line is still there: an      *)
(* empty one is appended for ever, and any other until the array is full    *)
(* and the stack behind it.                                                 *)
AppendLine(w, fd, text) ==
    /\ SetTask(w, [task[w] EXCEPT !.hdr = @ \o text, !.line = Data(w)])
    /\ call' = [call EXCEPT ![w] = ReadLine(fd)]
    /\ UNCHANGED <<conn, rio, pc, shared>>
AppendForEver(w, text) ==
    IF text = <<>>
    THEN /\ Goto(w, "endless") /\ UNCHANGED <<rvars, task, shared>>
    ELSE Dies("proxy")
LastLine(w) == IF call[w].ret = "eof" \/ Data(w) = <<>> THEN task[w].line ELSE Data(w)

(* read_requesthdrs appends nothing for the headers that do_client writes   *)
(* itself.  Its array is not initialised: when the stream ends before the   *)
(* first header it holds any line, the blank one that ended the thread's    *)
(* last request among them.                                                 *)
Kept(line) == IF line # <<>> /\ line[1] = AgentLine[1] THEN <<>> ELSE line

ReadRequestHdrs(w) ==
    /\ At(w, "headers")
    /\ CASE call[w].ret = "ok" /\ Data(w) # <<NL>> -> AppendLine(w, ConnFd(w), Kept(Data(w)))
         [] call[w].ret = "ok" /\ Data(w) = <<NL>> ->
               /\ SetTask(w, [task[w] EXCEPT !.hdr = @ \o <<NL>>])
               /\ Goto(w, "find")
               /\ UNCHANGED <<rvars, shared>>
         [] call[w].ret # "ok" /\ LastLine(w) # <<>> -> AppendForEver(w, Kept(LastLine(w)))
         [] OTHER ->
               \/ \E line \in {<<>>, HostLine} : AppendForEver(w, line)
               \/ /\ SetTask(w, [task[w] EXCEPT !.hdr = <<NL>>])
                  /\ Goto(w, "find")
                  /\ UNCHANGED <<rvars, shared>>

DoServer(w, reply) == Continue(w, "last", WriteN(ConnFd(w), reply))

(* find_cache_node, and do_server for a hit.                                *)
Find(w) ==
    /\ pc[w] = "find"
    /\ IF task[w].path \in DOMAIN cache
       THEN DoServer(w, cache[task[w].path])
       ELSE Goto(w, "connect") /\ UNCHANGED rvars
    /\ UNCHANGED <<task, shared>>

(* do_client.  A Host line is made of the host's name when there is none.   *)
Upstream(t) ==
    GetLine(t.path) \o SubSeq(t.hdr, 1, Len(t.hdr) - 1)
        \o (IF HostLine[1] \in Range(t.hdr) THEN <<>> ELSE Line(<<"name">>))
        \o AgentLine \o <<NL>>

Connect(w) ==
    /\ pc[w] = "connect"
    /\ Connected(w, "tiny", "send", WriteN(NoFd, Upstream(task[w])))
    /\ UNCHANGED <<scenario, task, up, cache, files>>

SentUpstream(w) ==
    /\ At(w, "send")
    /\ SetTask(w, [task[w] EXCEPT !.hdr = <<>>, !.line = <<>>])
    /\ Goto(w, "reply")
    /\ call' = [call EXCEPT ![w] = ReadLine(@.fd)]
    /\ rio' = [rio EXCEPT ![w] = EmptyRio]
    /\ UNCHANGED <<conn, shared>>

(* The reply's header; then its body is read, unless the code is not 200 or *)
(* another thread has cached the reply by now.                              *)
ReplyLine(w) ==
    LET rsp == task[w].hdr \o Data(w)
        path == task[w].path
    IN
    /\ At(w, "reply")
    /\ CASE call[w].ret = "ok" /\ Data(w) # <<NL>> -> AppendLine(w, call[w].fd, Data(w))
         [] call[w].ret = "ok" /\ Data(w) = <<NL>> ->
               /\ SetTask(w, [task[w] EXCEPT !.hdr = rsp])
               /\ CASE ~IsOk(rsp) -> DoServer(w, rsp)
                    [] IsOk(rsp) /\ ContentLen(rsp) <= MaxObject /\ path \in DOMAIN cache ->
                          DoServer(w, cache[path])
                    [] OTHER -> Continue(w, "body", ReadN(call[w].fd, ContentLen(rsp)))
               /\ UNCHANGED shared
         [] OTHER -> AppendForEver(w, LastLine(w))

(* The body, read short or not, is cached unless it is too long.            *)
ReplyBody(w) ==
    LET rsp == task[w].hdr
        reply == rsp \o Filled(Data(w), ContentLen(rsp))
    IN
    /\ At(w, "body")
    /\ cache' = IF ContentLen(rsp) <= MaxObject
                 THEN [path \in DOMAIN cache \cup {task[w].path} |->
                          IF path = task[w].path THEN reply ELSE cache[path]]
                 ELSE cache
    /\ DoServer(w, reply)
    /\ UNCHANGED <<scenario, task, up, backlog, files>>

(* SIGPIPE is not blocked.                                                  *)
CloseOrDie(w) ==
    /\ At(w, "last")
    /\ IF call[w].ret = "error" THEN Dies("proxy") ELSE CloseConn(w)
CloseConnection(w) == At(w, "last") /\ CloseConn(w)

Worker(w) ==
    \/ TakeConnection(w) \/ Doit(w) \/ ReadRequestHdrs(w) \/ Find(w) \/ Connect(w)
    \/ SentUpstream(w) \/ ReplyLine(w) \/ ReplyBody(w) \/ CloseConnection(w)
    \/ pc[w] \notin {"idle", "dead", "endless"} /\ RioStep(w) /\ UNCHANGED wvars

---------------------------------------------------------------------------
(* Tiny.  Its wrappers exit on an error, and it does not block SIGPIPE.     *)

TinyFd == call["tiny"].fd
TinyFails == pc["tiny"] # "dead" /\ call["tiny"].ret = "error" /\ Dies("tiny")

TinyAccept ==
    /\ pc["tiny"] = "accept" /\ backlog["tiny"] # <<>>
    /\ Continue("tiny", "request", ReadLine(Fd(Head(backlog["tiny"]), "acceptor")))
    /\ backlog' = [backlog EXCEPT !["tiny"] = Tail(@)]
    /\ UNCHANGED <<scenario, task, up, cache, files>>

TinyClose ==
    /\ Closed("tiny", "accept", TinyFd)
    /\ SetTask("tiny", NoTask)
    /\ UNCHANGED shared

TinyDoit ==
    /\ At("tiny", "request") /\ call["tiny"].ret # "error"
    /\ CASE call["tiny"].ret = "eof" -> TinyClose
         [] call["tiny"].ret = "ok" /\ ~IsGet(Data("tiny")) ->
               /\ Continue("tiny", "error", WriteN(TinyFd, ErrorHeader("501")))
               /\ UNCHANGED <<task, shared>>
         [] OTHER ->
               /\ SetTask("tiny", [NoTask EXCEPT !.path = Data("tiny")[1][2]])
               /\ Continue("tiny", "headers", ReadLine(TinyFd))
               /\ UNCHANGED shared

(* read_requesthdrs of tiny.c prints the last line for ever when the stream *)
(* ends; before the first header, that is what its array happened to hold.  *)
TinyReadHdrs ==
    /\ At("tiny", "headers") /\ call["tiny"].ret # "error"
    /\ \/ /\ call["tiny"].ret = "ok" /\ Data("tiny") # <<NL>>
          /\ SetTask("tiny", [task["tiny"] EXCEPT !.line = Data("tiny")])
          /\ Continue("tiny", "headers", ReadLine(TinyFd))
       \/ /\ call["tiny"].ret = "eof"
          /\ Goto("tiny", "endless") /\ UNCHANGED <<rvars, task>>
       \/ /\ \/ call["tiny"].ret = "ok" /\ Data("tiny") = <<NL>>
             \/ call["tiny"].ret = "eof" /\ task["tiny"].line = <<>>
          /\ Goto("tiny", "serve") /\ UNCHANGED <<rvars, task>>
    /\ UNCHANGED shared

TinyServe ==
    LET path == task["tiny"].path
        Answer(at, data) == Continue("tiny", at, WriteN(TinyFd, data))
    IN
    /\ pc["tiny"] = "serve"
    /\ CASE path \notin files -> Answer("error", ErrorHeader("404"))
         [] path \in files \cap Forbidden -> Answer("error", ErrorHeader("403"))
         [] path \in files \ Forbidden /\ Dynamic(path) -> Answer("status", Ok(path))
         [] OTHER -> Answer("open", Header(path))
    /\ UNCHANGED <<task, shared>>

(* The second write of clienterror, and of serve_dynamic.                   *)
TinyGoesOn ==
    /\ call["tiny"].ret = "ok"
    /\ \/ At("tiny", "error") /\ Continue("tiny", "last", WriteN(TinyFd, ErrorBody))
       \/ At("tiny", "status") /\ Continue("tiny", "fork", WriteN(TinyFd, ServerLine))
    /\ UNCHANGED <<task, shared>>

(* The rest of serve_static: the file may have been removed since stat, and *)
(* an empty one cannot be mapped.                                           *)
TinyOpen ==
    LET path == task["tiny"].path IN
    /\ At("tiny", "open") /\ call["tiny"].ret = "ok"
    /\ IF path \in files /\ Size[path] > 0
       THEN Continue("tiny", "last", WriteN(TinyFd, Body(path))) /\ UNCHANGED <<task, shared>>
       ELSE Dies("tiny")

(* serve_dynamic, and main of adder.c in the child.                         *)
TinyFork ==
    /\ At("tiny", "fork") /\ call["tiny"].ret = "ok"
    /\ pc' = [pc EXCEPT !["tiny"] = "wait", !["cgi"] = "running"]
    /\ call' = [call EXCEPT !["cgi"] = WriteN(TinyFd, AdderOutput(task["tiny"].path))]
    /\ UNCHANGED <<conn, rio, task, shared>>

TinyWait == pc["tiny"] = "wait" /\ pc["cgi"] = "none" /\ TinyClose
TinyDone == At("tiny", "last") /\ call["tiny"].ret = "ok" /\ TinyClose

Tiny ==
    \/ TinyFails \/ TinyAccept \/ TinyDoit \/ TinyReadHdrs \/ TinyServe
    \/ TinyGoesOn \/ TinyOpen \/ TinyFork \/ TinyWait \/ TinyDone
    \/ RioStep("tiny") /\ UNCHANGED wvars

Adder ==
    \/ pc["cgi"] = "running" /\ (Write("cgi") \/ WriteFails("cgi")) /\ UNCHANGED wvars
    \/ /\ At("cgi", "running")
       /\ IF pc["tiny"] = "wait"
          THEN Continue("cgi", "none", NoCall)
          ELSE Closed("cgi", "none", call["cgi"].fd)
       /\ UNCHANGED <<task, shared>>

---------------------------------------------------------------------------
(* The clients: each sends a request, or its first tokens only, and reads   *)
(* until the end of the stream, or does not.                                *)

LongerThanAny == 99

ClientConnect(c) ==
    LET does == scenario.does[c] IN
    /\ pc[c] = "start"
    /\ Connected(c, does.to, "sent", WriteN(NoFd, SubSeq(Request(does), 1, does.sends)))
    /\ UNCHANGED <<scenario, task, up, cache, files>>

ClientReceive(c) ==
    /\ At(c, "sent") /\ scenario.does[c].waits
    /\ Continue(c, "receive", ReadN(call[c].fd, LongerThanAny))
    /\ UNCHANGED <<task, shared>>

(* call keeps what was received.                                            *)
ClientEnd(c) ==
    /\ At(c, "receive") \/ (At(c, "sent") /\ ~scenario.does[c].waits)
    /\ Goto(c, "ended")
    /\ conn' \in AfterClose({call[c].fd})
    /\ rio' = [rio EXCEPT ![c] = EmptyRio]
    /\ UNCHANGED <<call, task, shared>>

Client(c) ==
    \/ ClientConnect(c) \/ ClientReceive(c) \/ ClientEnd(c)
    \/ pc[c] \in {"sent", "receive"} /\ RioStep(c) /\ UNCHANGED wvars

Killed == "kill" \in scenario.faults /\ "tiny" \in up /\ Dies("tiny")
Removed ==
    /\ "remove" \in scenario.faults
    /\ \E path \in files : files' = files \ {path}
    /\ UNCHANGED <<rvars, scenario, pc, task, up, backlog, cache>>

---------------------------------------------------------------------------
Init ==
    /\ scenario \in Scenarios
    /\ pc = [p \in Process |-> CASE p \in Clients -> IF scenario.does[p].sends = 0 THEN "ended" ELSE "start"
                                 [] p \in Workers -> "idle"
                                 [] p = "tiny" -> "accept" [] p = "cgi" -> "none"]
    /\ task = [p \in Workers \cup {"tiny"} |-> NoTask]
    /\ up = Servers
    /\ backlog = [server \in Servers |-> <<>>]
    /\ cache = <<>>
    /\ files = Files
    /\ conn = <<>>
    /\ rio = [p \in Process |-> EmptyRio]
    /\ call = [p \in Process |-> NoCall]

Step ==
    \/ \E w \in Workers : Worker(w)
    \/ Tiny \/ Adder
    \/ \E c \in Clients : Client(c)

Next == Step \/ Killed \/ Removed

Spec == Init /\ [][Next]_vars

(* While some thread, process or system call can go on, one of them does.   *)
LiveSpec == Spec /\ WF_vars(Step)

---------------------------------------------------------------------------
(* Types; and the pointers of every rio_t stay in its buffer and in what    *)
(* was read into it (rio_read).                                             *)
TypeOK ==
    /\ RioTypeOK
    /\ scenario \in Scenarios /\ up \subseteq Servers /\ files \subseteq Files
    /\ DOMAIN pc = Process /\ DOMAIN task = Workers \cup {"tiny"}
    /\ \A path \in DOMAIN cache : Len(cache[path]) = Len(ServeStatic(path))
    /\ \A server \in Servers : Range(backlog[server]) \subseteq DOMAIN conn

OriginFailed == "tiny" \notin up
Padded(path) == {Header(path) \o Filled(SubSeq(Body(path), 1, n), Size[path]) : n \in 0 .. Size[path]}

(* What a client may be told, whole.                                        *)
Replies(to, ask) ==
    LET path == IF to = "proxy" THEN ParseUri(ask) ELSE ask
        Error(code) == IF to = "proxy" THEN ErrorHeader(code) ELSE ClientError(code)
    IN
    CASE ask = "post" -> {ClientError("501")}
      [] path \notin Files -> {Error("404")}
      [] OTHER ->
            (CASE path \in Forbidden -> {Error("403")}
               [] path \notin Forbidden /\ Dynamic(path) -> {Ok(path) \o ServerLine \o AdderOutput(path)}
               [] OTHER -> {ServeStatic(path)})
                \cup (IF path \in files THEN {} ELSE {Error("404")})
                \cup (IF to = "proxy" /\ OriginFailed THEN Padded(path) ELSE {})

(* However reads and writes are cut, a client receives the beginning of the *)
(* right reply, byte for byte; and when both servers live and no connection *)
(* was reset, the stream ends after the whole of it (rio_readlineb,         *)
(* rio_readnb, rio_writen and the two doit).                                *)
RepliesIntact ==
    \A c \in Clients :
        LET does == scenario.does[c]
            received == Data(c)
        IN
        (pc[c] \in {"receive", "ended"} /\ does.waits) =>
            /\ \E reply \in Replies(does.to, does.ask) : IsPrefix(received, reply)
            /\ (pc[c] = "ended" /\ call[c].ret = "ok" /\ up = Servers /\ ~conn[call[c].fd.conn].reset)
                   => received \in Replies(does.to, does.ask)

(* A cached object is whole, unless Tiny ended while it sent it: do_client  *)
(* does not look at what Rio_readnb returns.                                *)
CachedWhole ==
    \A path \in DOMAIN cache : cache[path] = ServeStatic(path) \/ OriginFailed

(* Who can bring a server down, and how.                                    *)
CutsShort(c) == scenario.does[c].sends < Len(Request(scenario.does[c]))
AsksNull(c) == scenario.does[c].to = "proxy" /\ NoSlash(scenario.does[c].ask)
AsksEmpty(c) ==
    LET path == scenario.does[c].ask IN
    path \in Files \ Forbidden /\ ~Dynamic(path) /\ Size[path] = 0

(* The proxy dies, or one of its threads loops for ever, only after a       *)
(* request that was cut short, one whose URI has no slash, or the end of    *)
(* Tiny.  Tiny dies or loops only by a signal or a removed file, when a     *)
(* direct client, or the proxy as it died, closed its connection early, or  *)
(* when an empty file is asked for: a client of the proxy that does not     *)
(* wait harms nobody.                                                       *)
EndedOnlyByPeers ==
    /\ ("proxy" \notin up \/ \E w \in Workers : pc[w] = "endless") =>
          \/ OriginFailed
          \/ \E c \in Clients : scenario.does[c].to = "proxy" /\ CutsShort(c)
          \/ \E c \in Clients : AsksNull(c)
    /\ (OriginFailed \/ pc["tiny"] = "endless") =>
          \/ scenario.faults # {} \/ "proxy" \notin up
          \/ \E c \in Clients : scenario.does[c].to = "tiny" /\ ~scenario.does[c].waits
          \/ \E c \in Clients : AsksEmpty(c)

(* When every client that asks waits and nothing fails, each is answered to *)
(* the end of its stream: no cycle of full sockets, no reader left waiting  *)
(* for a close or for bytes that were all sent.                             *)
Answered ==
    (/\ scenario.faults = {}
     /\ \A c \in Clients : scenario.does[c].sends > 0 =>
            scenario.does[c].waits /\ ~AsksNull(c) /\ ~AsksEmpty(c))
        => <>(\A c \in Clients : pc[c] = "ended")
=============================================================================
