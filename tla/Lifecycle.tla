------------------------------ MODULE Lifecycle ------------------------------
(***************************************************************************)
(* The life of a connection in chirc: the accept loop of chirc_run, one    *)
(* detached thread per connection in subthread_work, descriptors, and the  *)
(* bookkeeping both share: connection_count and sockfd_nick_hash.          *)
(*                                                                         *)
(* A socket is named by the client that opened it, and so is the thread    *)
(* created for it.  A thread knows its socket only by descriptor number;   *)
(* the kernel gives the lowest free number to the next connection.  A read *)
(* resolves the number when it starts and keeps the socket until it ends,  *)
(* whoever closes the number meanwhile.                                    *)
(*                                                                         *)
(* Lines are abstracted to QUIT and REG, a line that completes a           *)
(* registration (see Registry for how); the others change nothing here.    *)
(* registered_connection_count is written next to connection_count but     *)
(* never read: it is left out.                                             *)
(***************************************************************************)
EXTENDS Naturals, Integers, Sequences, FiniteSets

CONSTANTS
    Conn,       \* clients, each connecting at most once; also their threads
    NFd,        \* descriptors the process may have open for connections
    None,       \* no socket, no node
    MaxLines    \* bound: lines the clients send in all

ASSUME NoneAssumption == None \notin Conn
ASSUME FdAssumption == NFd \in Nat
ASSUME LinesAssumption == MaxLines \in Nat

Fd == 1..NFd

VARIABLES
    client,          \* client[c]: "new", then "open", then "closed" by the client
    inbox,           \* inbox[c]: lines sent on socket c and not read yet
    lines,           \* lines sent in all
    backlog,         \* connections waiting for accept
    fds,             \* fds[f]: the socket descriptor f stands for
    acc,             \* where the accept loop is
    cur,             \* the connection the accept loop is handling
    isRunning,       \* is_running
    pc,              \* where each thread is
    fd,              \* fd[t]: the sockfd given to thread t, 0 before
    reading,         \* reading[t]: the socket t's last read resolved to
    found,           \* found[t]: the sockfd_nick_hash node t is to delete
    sockfdNick,      \* sockfd_nick_hash: the nodes in it
    connectionCount, \* connection_count
    nicks,           \* the size of connection_hash, which never shrinks
    bound,           \* bound[c]: nodes put into sockfd_nick_hash for lines of client c
    quit             \* threads that have closed their descriptor on QUIT

clientVars == <<client, inbox, lines>>
acceptVars == <<backlog, acc, cur, isRunning>>
threadVars == <<pc, fd, reading, found>>
tableVars  == <<sockfdNick, nicks, bound>>
vars == <<clientVars, acceptVars, threadVars, tableVars, fds, connectionCount, quit>>

PC == {"none", "read", "blocked", "register", "bind", "quit_close", "quit_count",
       "find", "del", "close", "count", "done", "failed"}
AcceptPC == {"socket", "test", "accept", "count", "create", "cleanup", "exit", "down", "killed"}

\* A node: its descriptor, the client whose line made it, which of its client's it is.
NickNode == [fd : Fd, by : Conn, nth : Nat]

-----------------------------------------------------------------------------
(* Helpers *)

\* The process is there: its threads run until main returns or a signal kills it.
Up == acc \notin {"down", "killed"}

Goto(t, label) == pc' = [pc EXCEPT ![t] = label]

FreeFds == {f \in Fd : fds[f] = None}
LowestFree(f) == f \in FreeFds /\ \A g \in FreeFds : f =< g

\* close(f): closing a number that is not open has no effect.
Close(f) == fds' = [fds EXCEPT ![f] = None]

\* find_sockfd_nick_map_node(f) returns n.  Of several nodes with one key it may be any:
\* each is put at the head of its chain, and every expansion turns the chains round.
find_sockfd_nick_map_node(f, n) ==
    \/ n = None /\ \A m \in sockfdNick : m.fd # f
    \/ n \in sockfdNick /\ n.fd = f

-----------------------------------------------------------------------------
(* Faulty variants of definitions below: the properties must tell them apart *)

\* The is_running flag is not tested.
TestRunningNot ==
    /\ acc = "test"
    /\ acc' = "accept"
    /\ UNCHANGED <<backlog, cur, isRunning, clientVars, threadVars, tableVars, fds,
                   connectionCount, quit>>

\* A read of 0 bytes is taken for an empty line.
ReadEofIgnored(t) ==
    /\ Up /\ pc[t] = "blocked"
    /\ inbox[reading[t]] = <<>>
    /\ client[reading[t]] = "closed"
    /\ Goto(t, "read")
    /\ UNCHANGED <<fd, reading, found, clientVars, acceptVars, tableVars, fds,
                   connectionCount, quit>>

\* The fd field of the new node is not assigned.
BindNoFd(t) ==
    /\ Up /\ pc[t] = "bind"
    /\ bound' = [bound EXCEPT ![reading[t]] = @ + 1]
    /\ sockfdNick' = sockfdNick \union
                       {[fd |-> 0, by |-> reading[t], nth |-> bound[reading[t]] + 1]}
    /\ Goto(t, "read")
    /\ UNCHANGED <<nicks, fd, reading, found, clientVars, acceptVars, fds,
                   connectionCount, quit>>

\* The node found may be that of another descriptor.
FindNodeAny(t) ==
    /\ Up /\ pc[t] = "find"
    /\ \/ sockfdNick = {} /\ found' = [found EXCEPT ![t] = None]
       \/ \E n \in sockfdNick : found' = [found EXCEPT ![t] = n]
    /\ Goto(t, "del")
    /\ UNCHANGED <<fd, reading, clientVars, acceptVars, tableVars, fds, connectionCount, quit>>

\* The node is not deleted.
DeleteNodeNot(t) ==
    /\ Up /\ pc[t] = "del"
    /\ found[t] \in sockfdNick \union {None}
    /\ Goto(t, "close")
    /\ UNCHANGED <<fd, reading, found, clientVars, acceptVars, tableVars, fds,
                   connectionCount, quit>>

\* The descriptor is not closed.
CloseDescriptorNot(t) ==
    /\ Up /\ pc[t] = "close"
    /\ Goto(t, "count")
    /\ UNCHANGED <<fd, reading, found, clientVars, acceptVars, tableVars, fds,
                   connectionCount, quit>>

\* The branch ends without leaving the loop.
CountClosedNoBreak(t) ==
    /\ Up /\ pc[t] = "count"
    /\ connectionCount' = connectionCount - 1
    /\ Goto(t, "read")
    /\ UNCHANGED <<fd, reading, found, clientVars, acceptVars, tableVars, fds, quit>>

\* The disconnection is not counted.
CountClosedNot(t) ==
    /\ Up /\ pc[t] = "count"
    /\ Goto(t, "done")
    /\ UNCHANGED <<fd, reading, found, clientVars, acceptVars, tableVars, fds,
                   connectionCount, quit>>

-----------------------------------------------------------------------------
(* Clients *)

Connect(c) ==
    /\ acc \notin {"socket", "exit", "down", "killed"}
    /\ client[c] = "new"
    /\ client' = [client EXCEPT ![c] = "open"]
    /\ backlog' = Append(backlog, c)
    /\ UNCHANGED <<inbox, lines, fds, acc, cur, isRunning, threadVars, tableVars,
                   connectionCount, quit>>

Send(c, line) ==
    /\ client[c] = "open"
    /\ lines < MaxLines
    /\ lines' = lines + 1
    /\ inbox' = [inbox EXCEPT ![c] = Append(@, line)]
    /\ UNCHANGED <<client, acceptVars, threadVars, tableVars, fds, connectionCount, quit>>

HangUp(c) ==
    /\ client[c] = "open"
    /\ client' = [client EXCEPT ![c] = "closed"]
    /\ UNCHANGED <<inbox, lines, acceptVars, threadVars, tableVars, fds,
                   connectionCount, quit>>

-----------------------------------------------------------------------------
(* The accept loop *)

\* SIGINT only clears is_running; accept is restarted after the handler.
sig_handler ==
    /\ Up
    /\ isRunning
    /\ isRunning' = FALSE
    /\ UNCHANGED <<backlog, acc, cur, clientVars, threadVars, tableVars, fds,
                   connectionCount, quit>>

\* socket, bind and listen.  chirc_run returns at once when the first fails; when
\* another one does, the clean-up finds empty tables.
OpenListener ==
    /\ acc = "socket"
    /\ acc' \in {"test", "exit", "down"}
    /\ UNCHANGED <<backlog, cur, isRunning, clientVars, threadVars, tableVars, fds,
                   connectionCount, quit>>

TestRunning ==
    /\ acc = "test"
    /\ acc' = IF isRunning THEN "accept" ELSE "cleanup"
    /\ UNCHANGED <<backlog, cur, isRunning, clientVars, threadVars, tableVars, fds,
                   connectionCount, quit>>

\* accept: without a free descriptor it fails, and the loop ends.
Accept ==
    /\ acc = "accept"
    /\ backlog # <<>>
    /\ \/ /\ \E f \in Fd : /\ LowestFree(f)
                           /\ fds' = [fds EXCEPT ![f] = Head(backlog)]
                           /\ fd' = [fd EXCEPT ![Head(backlog)] = f]
          /\ cur' = Head(backlog)
          /\ backlog' = Tail(backlog)
          /\ acc' = "count"
       \/ /\ FreeFds = {}
          /\ acc' = "cleanup"
          /\ UNCHANGED <<fds, fd, cur, backlog>>
    /\ UNCHANGED <<isRunning, pc, reading, found, clientVars, tableVars,
                   connectionCount, quit>>

CountAccepted ==
    /\ acc = "count"
    /\ connectionCount' = connectionCount + 1
    /\ acc' = "create"
    /\ UNCHANGED <<backlog, cur, isRunning, clientVars, threadVars, tableVars, fds, quit>>

CreateThread ==
    /\ acc = "create"
    /\ Goto(cur, "read")
    /\ acc' = "test"
    /\ UNCHANGED <<backlog, cur, isRunning, fd, reading, found, clientVars, tableVars,
                   fds, connectionCount, quit>>

\* pthread_create fails and nobody looks: the connection stays open and counted, and
\* a tid that was never assigned is detached, which may end the process.
CreateFails ==
    /\ acc = "create"
    /\ Goto(cur, "failed")
    /\ acc' \in {"test", "killed"}
    /\ UNCHANGED <<backlog, cur, isRunning, fd, reading, found, clientVars, tableVars,
                   fds, connectionCount, quit>>

\* Both tables are emptied with no mutex held, while the threads still run.
Cleanup ==
    /\ acc = "cleanup"
    /\ sockfdNick' = {}
    /\ nicks' = 0
    /\ acc' = "exit"
    /\ UNCHANGED <<bound, backlog, cur, isRunning, clientVars, threadVars, fds,
                   connectionCount, quit>>

\* main returns: the process ends, and its threads with it.
Exit ==
    /\ acc = "exit"
    /\ acc' = "down"
    /\ UNCHANGED <<backlog, cur, isRunning, clientVars, threadVars, tableVars, fds,
                   connectionCount, quit>>

-----------------------------------------------------------------------------
(* A thread: subthread_work *)

\* read starts.  A descriptor that is closed by now fails at once.
StartRead(t) ==
    /\ Up /\ pc[t] = "read"
    /\ reading' = [reading EXCEPT ![t] = fds[fd[t]]]
    /\ Goto(t, IF fds[fd[t]] = None THEN "find" ELSE "blocked")
    /\ UNCHANGED <<fd, found, clientVars, acceptVars, tableVars, fds, connectionCount, quit>>

\* read returns a line; its branch runs next.
ReadLine(t) ==
    /\ Up /\ pc[t] = "blocked"
    /\ inbox[reading[t]] # <<>>
    /\ inbox' = [inbox EXCEPT ![reading[t]] = Tail(@)]
    /\ Goto(t, IF Head(inbox[reading[t]]) = "QUIT" THEN "quit_close" ELSE "register")
    /\ UNCHANGED <<client, lines, fd, reading, found, acceptVars, tableVars, fds,
                   connectionCount, quit>>

\* read returns 0: the client has hung up and everything it sent is read.
ReadEof(t) ==
    /\ Up /\ pc[t] = "blocked"
    /\ inbox[reading[t]] = <<>>
    /\ client[reading[t]] = "closed"
    /\ Goto(t, "find")
    /\ UNCHANGED <<fd, reading, found, clientVars, acceptVars, tableVars, fds,
                   connectionCount, quit>>

\* The two insertions of a registration, with the replies in between.
Register(t) ==
    /\ Up /\ pc[t] = "register"
    /\ nicks' = nicks + 1
    /\ Goto(t, "bind")
    /\ UNCHANGED <<sockfdNick, bound, fd, reading, found, clientVars, acceptVars, fds,
                   connectionCount, quit>>

Bind(t) ==
    /\ Up /\ pc[t] = "bind"
    /\ bound' = [bound EXCEPT ![reading[t]] = @ + 1]
    /\ sockfdNick' = sockfdNick \union
                       {[fd |-> fd[t], by |-> reading[t], nth |-> bound[reading[t]] + 1]}
    /\ Goto(t, "read")
    /\ UNCHANGED <<nicks, fd, reading, found, clientVars, acceptVars, fds,
                   connectionCount, quit>>

\* QUIT: after the reply the descriptor is closed and the count lowered, and the
\* loop goes on to the next read.
QuitClose(t) ==
    /\ Up /\ pc[t] = "quit_close"
    /\ Close(fd[t])
    /\ quit' = quit \union {t}
    /\ Goto(t, "quit_count")
    /\ UNCHANGED <<fd, reading, found, clientVars, acceptVars, tableVars, connectionCount>>

QuitCount(t) ==
    /\ Up /\ pc[t] = "quit_count"
    /\ connectionCount' = connectionCount - 1
    /\ Goto(t, "read")
    /\ UNCHANGED <<fd, reading, found, clientVars, acceptVars, tableVars, fds, quit>>

\* The replies of REG and QUIT are written to the descriptor before the steps
\* above.  If its client has hung up, the write may raise SIGPIPE, which nothing
\* catches.
Sigpipe(t) ==
    /\ Up /\ pc[t] \in {"bind", "quit_close"}
    /\ fds[fd[t]] # None
    /\ client[fds[fd[t]]] = "closed"
    /\ acc' = "killed"
    /\ UNCHANGED <<backlog, cur, isRunning, clientVars, threadVars, tableVars, fds,
                   connectionCount, quit>>

\* The disconnect branches: find the node, delete it, close, count.
FindNode(t) ==
    /\ Up /\ pc[t] = "find"
    /\ \E n \in sockfdNick \union {None} :
          /\ find_sockfd_nick_map_node(fd[t], n)
          /\ found' = [found EXCEPT ![t] = n]
    /\ Goto(t, "del")
    /\ UNCHANGED <<fd, reading, clientVars, acceptVars, tableVars, fds, connectionCount, quit>>

DeleteNode(t) ==
    /\ Up /\ pc[t] = "del"
    /\ found[t] \in sockfdNick \union {None}
    /\ sockfdNick' = sockfdNick \ {found[t]}
    /\ Goto(t, "close")
    /\ UNCHANGED <<nicks, bound, fd, reading, found, clientVars, acceptVars, fds,
                   connectionCount, quit>>

\* The node is not in the table any more: it is freed twice.  free may abort the
\* process, or the damage goes unnoticed.
DeleteStale(t) ==
    /\ Up /\ pc[t] = "del"
    /\ found[t] \notin sockfdNick \union {None}
    /\ acc' \in {acc, "killed"}
    /\ Goto(t, "close")
    /\ UNCHANGED <<backlog, cur, isRunning, fd, reading, found, clientVars, tableVars, fds,
                   connectionCount, quit>>

CloseDescriptor(t) ==
    /\ Up /\ pc[t] = "close"
    /\ Close(fd[t])
    /\ Goto(t, "count")
    /\ UNCHANGED <<fd, reading, found, clientVars, acceptVars, tableVars,
                   connectionCount, quit>>

CountClosed(t) ==
    /\ Up /\ pc[t] = "count"
    /\ connectionCount' = connectionCount - 1
    /\ Goto(t, "done")
    /\ UNCHANGED <<fd, reading, found, clientVars, acceptVars, tableVars, fds, quit>>

-----------------------------------------------------------------------------
Init ==
    /\ client = [c \in Conn |-> "new"]
    /\ inbox = [c \in Conn |-> <<>>]
    /\ lines = 0
    /\ backlog = <<>>
    /\ fds = [f \in Fd |-> None]
    /\ acc = "socket"
    /\ cur = None
    /\ isRunning = TRUE
    /\ pc = [t \in Conn |-> "none"]
    /\ fd = [t \in Conn |-> 0]
    /\ reading = [t \in Conn |-> None]
    /\ found = [t \in Conn |-> None]
    /\ sockfdNick = {}
    /\ connectionCount = 0
    /\ nicks = 0
    /\ bound = [c \in Conn |-> 0]
    /\ quit = {}

ClientStep == \E c \in Conn : Connect(c) \/ HangUp(c)
                              \/ \E line \in {"QUIT", "REG"} : Send(c, line)

AcceptStep == OpenListener \/ TestRunning \/ Accept \/ CountAccepted \/ CreateThread
              \/ CreateFails \/ Cleanup \/ Exit

ThreadStep(t) ==
    \/ StartRead(t) \/ ReadLine(t) \/ ReadEof(t) \/ Register(t) \/ Bind(t)
    \/ QuitClose(t) \/ QuitCount(t) \/ FindNode(t) \/ DeleteNode(t) \/ DeleteStale(t)
    \/ CloseDescriptor(t) \/ CountClosed(t)

Next == ClientStep \/ sig_handler \/ AcceptStep
        \/ \E t \in Conn : ThreadStep(t) \/ Sigpipe(t)

Spec == Init /\ [][Next]_vars

\* The scheduler runs every thread that can run; clients and SIGINT owe nothing.
FairSpec == Spec /\ WF_vars(AcceptStep) /\ \A t \in Conn : WF_vars(ThreadStep(t))

-----------------------------------------------------------------------------
(* What the properties speak of *)

\* Some thread that shares t's descriptor number has handled a QUIT.
QuitShared(t) == \E u \in quit : fd[u] = fd[t]

\* Some connection with descriptor number f, now or before, has registered twice.
RegisteredTwice(f) == \E c \in Conn : fd[c] = f /\ bound[c] > 1

\* A connection that has been handed to pthread_create and not been counted out, and
\* one whose thread is at work.
Admitted(t) == pc[t] \notin {"none", "done"}
Counted == {t \in Conn : Admitted(t)}
Live(t) == Admitted(t) /\ pc[t] # "failed"

-----------------------------------------------------------------------------
(* Properties *)

\* Every variable has its type.
TypeOK ==
    /\ client \in [Conn -> {"new", "open", "closed"}]
    /\ inbox \in [Conn -> Seq({"QUIT", "REG"})]
    /\ lines \in Nat
    /\ backlog \in Seq(Conn)
    /\ fds \in [Fd -> Conn \union {None}]
    /\ acc \in AcceptPC
    /\ cur \in Conn \union {None}
    /\ isRunning \in BOOLEAN
    /\ pc \in [Conn -> PC]
    /\ fd \in [Conn -> Fd \union {0}]
    /\ reading \in [Conn -> Conn \union {None}]
    /\ found \in [Conn -> NickNode \union {None}]
    /\ sockfdNick \in SUBSET NickNode
    /\ connectionCount \in Int
    /\ nicks \in Nat
    /\ bound \in [Conn -> Nat]
    /\ quit \in SUBSET Conn

\* No descriptor leaks: an open one stands for a connection whose own thread
\* holds its number and has still to close it, whatever QUITs and reused numbers
\* did meanwhile, or for one that no thread could be created for (main.c:732-753,
\* 810, 1111-1125).
NoLeak ==
    \A f \in Fd : fds[f] # None =>
        LET c == fds[f] IN
        /\ fd[c] = f
        /\ \/ pc[c] \notin {"none", "count", "done"}
           \/ pc[c] = "none" /\ cur = c /\ acc \in {"count", "create", "killed"}

\* A thread reads a connection other than its own only if a thread with the same
\* descriptor number has handled a QUIT: without QUIT the reuse of numbers by the
\* kernel never mixes two clients (main.c:732, 796-813, 1111).
ReadsOwn ==
    \A t \in Conn : reading[t] \notin {t, None} => QuitShared(t)

\* A thread about to delete a node holds one that is still in the table, unless a
\* thread with the same descriptor number has handled a QUIT or the server is
\* cleaning up: the search and the deletion are two critical sections, which is
\* safe as long as one thread owns the number (main.c:736-737, 747-748).
DeletesLive ==
    \A t \in Conn :
        pc[t] = "del" /\ found[t] # None /\ acc \notin {"exit", "down", "killed"} =>
            found[t] \in sockfdNick \/ QuitShared(t)

\* A node of sockfd_nick_hash is for the connection its descriptor stands for:
\* the node goes before the descriptor does (main.c:736-739), so the next owner
\* of the number starts without a nick.  The exceptions are a QUIT, which closes
\* first, and a second registration of one connection: the disconnection deletes one
\* node of the two, and the search of every later owner of the number may find the
\* other one instead of its own.
BindingCurrent ==
    \A e \in sockfdNick :
        fds[e.fd] = e.by \/ QuitShared(e.by) \/ RegisteredTwice(e.fd)

\* As long as no QUIT is handled, connection_count is the number of connections that
\* have been accepted and whose threads, if they have any, are still at work
\* (main.c:740, 751, 1122-1124).
CountExact ==
    Up /\ quit = {} =>
        connectionCount = Cardinality(Counted) + (IF acc = "create" THEN 1 ELSE 0)

\* A connection whose client has hung up loses its descriptor, whoever reads it;
\* only one that no thread could be created for may keep it (main.c:744-754, 1124).
Reaped ==
    \A c \in Conn :
        client[c] = "closed" /\ (\E f \in Fd : fds[f] = c)
            ~> ~Up \/ pc[c] = "failed" \/ \A f \in Fd : fds[f] # c

\* Once every client has hung up, every thread ends, those that went on reading
\* after a QUIT included (main.c:730-754, 796-813).
Drains ==
    (\A c \in Conn : client[c] = "closed") ~> ~Up \/ \A t \in Conn : ~Live(t)

\* After SIGINT, one more connection is enough to stop the server: accept returns
\* it and the loop tests is_running, with or without a thread for it (main.c:66-70,
\* 1109-1126).
StopsAfterSigint == ~isRunning /\ backlog # <<>> ~> ~Up

-----------------------------------------------------------------------------
(* What comments and tests say of connections, which the code does not keep *)

\* The thread created for a connection handles that connection.
OneThreadPerConnection == \A t \in Conn : reading[t] \in {t, None}

=============================================================================
