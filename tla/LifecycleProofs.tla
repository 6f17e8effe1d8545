---------------------------- MODULE LifecycleProofs ----------------------------
(***************************************************************************)
(* Theorems about Lifecycle, for any clients, descriptors and bound: the   *)
(* descriptors and who holds them, then the nodes of sockfd_nick_hash, who *)
(* deletes which, and whose connection they are for.                       *)
(***************************************************************************)
EXTENDS Lifecycle, FiniteSetTheorems, TLAPS

\* The thread holds its descriptor and has still to close it.
Holds(t) ==
    \/ pc[t] \notin {"none", "count", "done"}
    \/ pc[t] = "none" /\ cur = t /\ acc \in {"count", "create"}

\* A client waits for accept once, and has no descriptor yet.
BacklogOK ==
    /\ \A i, j \in DOMAIN backlog : i # j => backlog[i] # backlog[j]
    /\ \A i \in DOMAIN backlog : client[backlog[i]] # "new" /\ fd[backlog[i]] = 0

\* Before accept gives a client its descriptor it has no thread.
FreshOK ==
    \A c \in Conn :
        /\ client[c] = "new" => fd[c] = 0
        /\ fd[c] = 0 => pc[c] = "none" /\ c \notin quit /\ reading[c] = None

\* What the accept loop holds between accept and pthread_create.
AcceptOK == acc \in {"count", "create"} => cur \in Conn /\ fd[cur] # 0 /\ pc[cur] = "none"

\* A thread inside a branch, or in read, knows the socket it read from.
ReadingOK == \A t \in Conn : pc[t] \in {"blocked", "register", "bind"} => reading[t] # None

\* A descriptor number still held stands for the thread's own connection, unless
\* a QUIT was handled on that number.
HoldsOK == \A t \in Conn : Holds(t) => fds[fd[t]] = t \/ QuitShared(t)

FdParts == BacklogOK /\ FreshOK /\ AcceptOK /\ ReadingOK /\ HoldsOK /\ NoLeak /\ ReadsOwn

FdInv == TypeOK /\ FdParts


-----------------------------------------------------------------------------
(* Types *)

LEMMA InitInv == Init => FdInv
BY NoneAssumption DEF Init, FdInv, FdParts, TypeOK, BacklogOK, FreshOK, AcceptOK, ReadingOK,
   HoldsOK, Holds, NoLeak, ReadsOwn, PC, AcceptPC, Fd

\* A thread that holds its descriptor has been given one.
LEMMA HoldsFd ==
    ASSUME TypeOK, FreshOK, AcceptOK, NEW t \in Conn, Holds(t)
    PROVE  fd[t] \in Fd
BY DEF TypeOK, FreshOK, AcceptOK, Holds

LEMMA ClientTypes ==
    ASSUME FdInv, NEW c \in Conn,
           Connect(c) \/ HangUp(c) \/ \E line \in {"QUIT", "REG"} : Send(c, line)
    PROVE  TypeOK'
<1> USE DEF FdInv, FdParts, clientVars, acceptVars, threadVars, tableVars
<1>1. CASE Connect(c)
  <2>1. backlog' \in Seq(Conn)
    BY <1>1 DEF Connect, TypeOK
  <2>2. QED
    BY <1>1, <2>1 DEF Connect, TypeOK
<1>2. CASE HangUp(c)
  BY <1>2 DEF HangUp, TypeOK
<1>3. ASSUME NEW line \in {"QUIT", "REG"}, Send(c, line) PROVE TypeOK'
  <2>1. Append(inbox[c], line) \in Seq({"QUIT", "REG"})
    BY DEF TypeOK
  <2>2. inbox' \in [Conn -> Seq({"QUIT", "REG"})]
    BY <1>3, <2>1 DEF Send, TypeOK
  <2>3. QED
    BY <1>3, <2>2 DEF Send, TypeOK
<1>4. QED
  BY <1>1, <1>2, <1>3

LEMMA AcceptTypes ==
    ASSUME FdInv, AcceptStep \/ sig_handler
    PROVE  TypeOK'
<1> USE DEF FdInv, FdParts, clientVars, acceptVars, threadVars, tableVars
<1>1. CASE sig_handler
  BY <1>1 DEF sig_handler, TypeOK
<1>2. CASE OpenListener \/ TestRunning
  BY <1>2 DEF OpenListener, TestRunning, TypeOK, AcceptPC
<1>3. CASE Accept
  <2>1. Head(backlog) \in Conn /\ Tail(backlog) \in Seq(Conn)
    BY <1>3 DEF Accept, TypeOK
  <2>2. CASE FreeFds = {}
    BY <1>3, <2>2 DEF Accept, TypeOK, AcceptPC, LowestFree
  <2>3. ASSUME NEW f \in Fd, fds' = [fds EXCEPT ![f] = Head(backlog)],
               fd' = [fd EXCEPT ![Head(backlog)] = f], FreeFds # {}
        PROVE  TypeOK'
    <3>1. fds' \in [Fd -> Conn \union {None}] /\ fd' \in [Conn -> Fd \union {0}]
      BY <2>1, <2>3 DEF TypeOK
    <3>2. acc' = "count" \/ acc' = "cleanup"
      BY <1>3 DEF Accept
    <3>3. backlog' \in Seq(Conn) /\ cur' \in Conn \union {None}
      BY <1>3, <2>1 DEF Accept, TypeOK
    <3>4. QED
      BY <1>3, <3>1, <3>2, <3>3 DEF Accept, TypeOK, AcceptPC
  <2>4. QED
    BY <1>3, <2>2, <2>3 DEF Accept, LowestFree
<1>4. CASE CountAccepted
  BY <1>4 DEF CountAccepted, TypeOK, AcceptPC
<1>5. CASE CreateThread \/ CreateFails
  BY <1>5 DEF CreateThread, CreateFails, TypeOK, AcceptPC, Goto, PC
<1>6. CASE Cleanup
  BY <1>6 DEF Cleanup, TypeOK, AcceptPC
<1>7. CASE Exit
  BY <1>7 DEF Exit, TypeOK, AcceptPC
<1>8. QED
  BY <1>1, <1>2, <1>3, <1>4, <1>5, <1>6, <1>7 DEF AcceptStep

LEMMA ThreadTypes ==
    ASSUME FdInv, NEW t \in Conn, ThreadStep(t) \/ Sigpipe(t)
    PROVE  TypeOK'
<1> USE DEF FdInv, FdParts, clientVars, acceptVars, threadVars, tableVars, Goto, PC
<1>1. Holds(t) => fd[t] \in Fd
  BY HoldsFd
<1>2. CASE StartRead(t)
  <2>1. fds[fd[t]] \in Conn \union {None}
    BY <1>1, <1>2 DEF StartRead, Holds, TypeOK
  <2>2. QED
    BY <1>2, <2>1 DEF StartRead, TypeOK
<1>3. CASE ReadLine(t)
  <2>1. reading[t] \in Conn
    BY <1>3 DEF ReadLine, ReadingOK, TypeOK
  <2>2. Tail(inbox[reading[t]]) \in Seq({"QUIT", "REG"})
    BY <1>3, <2>1 DEF ReadLine, TypeOK
  <2>3. inbox' \in [Conn -> Seq({"QUIT", "REG"})]
    BY <1>3, <2>1, <2>2 DEF ReadLine, TypeOK
  <2>4. QED
    BY <1>3, <2>3 DEF ReadLine, TypeOK
<1>4. CASE ReadEof(t)
  BY <1>4 DEF ReadEof, TypeOK
<1>5. CASE Register(t)
  BY <1>5 DEF Register, TypeOK
<1>6. CASE Bind(t)
  <2>1. reading[t] \in Conn /\ fd[t] \in Fd
    BY <1>1, <1>6 DEF Bind, ReadingOK, Holds, TypeOK
  <2>2. [fd |-> fd[t], by |-> reading[t], nth |-> bound[reading[t]] + 1] \in NickNode
    BY <2>1 DEF NickNode, TypeOK
  <2>3. bound' \in [Conn -> Nat]
    BY <1>6, <2>1 DEF Bind, TypeOK
  <2>4. QED
    BY <1>6, <2>2, <2>3 DEF Bind, TypeOK
<1>7. CASE QuitClose(t)
  BY <1>7 DEF QuitClose, Close, TypeOK
<1>8. CASE QuitCount(t)
  BY <1>8 DEF QuitCount, TypeOK
<1>9. CASE FindNode(t)
  BY <1>9 DEF FindNode, TypeOK
<1>10. CASE DeleteNode(t)
  BY <1>10 DEF DeleteNode, TypeOK
<1>11. CASE DeleteStale(t)
  BY <1>11 DEF DeleteStale, TypeOK, AcceptPC
<1>12. CASE CloseDescriptor(t)
  BY <1>12 DEF CloseDescriptor, Close, TypeOK
<1>13. CASE CountClosed(t)
  BY <1>13 DEF CountClosed, TypeOK
<1>14. CASE Sigpipe(t)
  BY <1>14 DEF Sigpipe, TypeOK, AcceptPC
<1>15. QED
  BY <1>2, <1>3, <1>4, <1>5, <1>6, <1>7, <1>8, <1>9, <1>10, <1>11, <1>12, <1>13, <1>14
     DEF ThreadStep

-----------------------------------------------------------------------------
(* Who holds which descriptor *)

\* A thread that goes on inside its loop changes nothing of it.
LEMMA LoopFrame ==
    ASSUME FdInv, NEW t \in Conn, NEW label \in PC,
           pc[t] \notin {"none", "count", "done"},
           label \notin {"none", "count", "done"},
           pc' = [pc EXCEPT ![t] = label],
           UNCHANGED <<fds, fd, quit, backlog, client, cur>>,
           acc' \in {acc, "killed"},
           \A d \in Conn \ {t} : reading'[d] = reading[d]
    PROVE  BacklogOK' /\ FreshOK' /\ AcceptOK' /\ HoldsOK' /\ NoLeak'
<1> USE DEF FdInv, FdParts
<1>1. /\ fds' = fds /\ fd' = fd /\ quit' = quit /\ backlog' = backlog
      /\ client' = client /\ cur' = cur
  OBVIOUS
<1>2. pc'[t] = label /\ \A d \in Conn \ {t} : pc'[d] = pc[d]
  BY DEF TypeOK
<1>3. BacklogOK'
  BY <1>1 DEF BacklogOK
<1>4. FreshOK'
  BY <1>1, <1>2 DEF FreshOK
<1>5. AcceptOK'
  BY <1>1, <1>2 DEF AcceptOK
<1>6. ASSUME NEW d \in Conn PROVE Holds(d)' => Holds(d)
  BY <1>1, <1>2 DEF Holds
<1>7. HoldsOK'
  BY <1>1, <1>6 DEF HoldsOK, QuitShared
<1>8. NoLeak'
  <2>1. ASSUME NEW f \in Fd, fds[f] # None
        PROVE  LET c == fds[f] IN
               /\ fd[c] = f
               /\ \/ pc'[c] \notin {"none", "count", "done"}
                  \/ pc'[c] = "none" /\ cur = c /\ acc' \in {"count", "create", "killed"}
    <3>1. fds[f] \in Conn
      BY <2>1 DEF TypeOK
    <3>2. CASE fds[f] = t
      BY <1>2, <2>1, <3>2 DEF NoLeak
    <3>3. CASE fds[f] # t
      BY <1>2, <2>1, <3>1, <3>3 DEF NoLeak
    <3>4. QED
      BY <3>2, <3>3
  <2>2. QED
    BY <1>1, <2>1 DEF NoLeak
<1>9. QED
  BY <1>3, <1>4, <1>5, <1>7, <1>8

LEMMA LoopSteps ==
    ASSUME FdInv, NEW t \in Conn,
           \/ StartRead(t) \/ ReadLine(t) \/ ReadEof(t) \/ Register(t) \/ Bind(t)
           \/ QuitCount(t) \/ FindNode(t) \/ DeleteNode(t) \/ DeleteStale(t)
    PROVE  FdParts'
<1> USE DEF clientVars, acceptVars, threadVars, tableVars
<1>1. /\ pc[t] \notin {"none", "count", "done"}
      /\ UNCHANGED <<fds, fd, quit, backlog, client, cur>>
      /\ acc' \in {acc, "killed"}
  BY DEF StartRead, ReadLine, ReadEof, Register, Bind, QuitCount, FindNode, DeleteNode,
         DeleteStale
<1>2. PICK label \in PC \ {"none", "count", "done"} : pc' = [pc EXCEPT ![t] = label]
  BY DEF StartRead, ReadLine, ReadEof, Register, Bind, QuitCount, FindNode, DeleteNode,
         DeleteStale, Goto, PC
<1>3. \A d \in Conn \ {t} : reading'[d] = reading[d]
  BY DEF StartRead, ReadLine, ReadEof, Register, Bind, QuitCount, FindNode, DeleteNode,
         DeleteStale, FdInv, TypeOK
<1>4. BacklogOK' /\ FreshOK' /\ AcceptOK' /\ HoldsOK' /\ NoLeak'
  BY <1>1, <1>2, <1>3, LoopFrame
<1>5. CASE StartRead(t)
  <2>1. reading'[t] = fds[fd[t]] /\ (fds[fd[t]] = None => pc'[t] = "find")
    BY <1>5 DEF StartRead, Goto, FdInv, TypeOK
  <2>2. \A d \in Conn \ {t} : pc'[d] = pc[d]
    BY <1>2 DEF FdInv, TypeOK
  <2>3. ReadingOK'
    BY <1>3, <2>1, <2>2 DEF ReadingOK, FdInv, FdParts
  <2>4. fds[fd[t]] = t \/ QuitShared(t)
    BY <1>5 DEF StartRead, Holds, HoldsOK, FdInv, FdParts
  <2>5. ReadsOwn'
    BY <1>1, <1>3, <2>1, <2>4 DEF ReadsOwn, QuitShared, FdInv, FdParts
  <2>6. QED
    BY <1>4, <2>3, <2>5 DEF FdParts
<1>6. CASE ~StartRead(t)
  <2>1. reading' = reading
    BY <1>6 DEF ReadLine, ReadEof, Register, Bind, QuitCount, FindNode, DeleteNode,
                DeleteStale
  <2>2. ReadsOwn'
    BY <1>1, <2>1 DEF ReadsOwn, QuitShared, FdInv, FdParts
  <2>3. \A d \in Conn : pc'[d] \in {"blocked", "register", "bind"}
                           => pc[d] \in {"blocked", "register", "bind"}
    BY <1>6 DEF ReadLine, ReadEof, Register, Bind, QuitCount, FindNode, DeleteNode,
                DeleteStale, Goto, FdInv, TypeOK
  <2>4. ReadingOK'
    BY <2>1, <2>3 DEF ReadingOK, FdInv, FdParts
  <2>5. QED
    BY <1>4, <2>2, <2>4 DEF FdParts
<1>7. QED
  BY <1>5, <1>6

\* Closing a number: whoever else still holds it has lost its connection already,
\* or loses it now by a QUIT.
LEMMA CloseSteps ==
    ASSUME FdInv, NEW t \in Conn, QuitClose(t) \/ CloseDescriptor(t) \/ CountClosed(t)
    PROVE  FdParts'
<1> USE DEF FdInv, FdParts, clientVars, acceptVars, threadVars, tableVars
<1>1. /\ fd' = fd /\ backlog' = backlog /\ client' = client /\ cur' = cur /\ acc' = acc
      /\ reading' = reading
      /\ quit' \in {quit, quit \union {t}}
  BY DEF QuitClose, CloseDescriptor, CountClosed
<1>2. /\ pc[t] \in {"quit_close", "close", "count"}
      /\ pc' = [pc EXCEPT ![t] = pc'[t]]
      /\ pc'[t] \in {"quit_count", "count", "done"}
      /\ pc'[t] = "quit_count" => pc[t] = "quit_close"
      /\ \A d \in Conn \ {t} : pc'[d] = pc[d]
  BY DEF QuitClose, CloseDescriptor, CountClosed, Goto, TypeOK
<1>3. BacklogOK'
  BY <1>1 DEF BacklogOK
<1>4. FreshOK'
  BY <1>1, <1>2 DEF FreshOK
<1>5. AcceptOK'
  BY <1>1, <1>2 DEF AcceptOK
<1>6. ReadingOK'
  BY <1>1, <1>2 DEF ReadingOK
<1>7. \A d \in Conn : QuitShared(d) => QuitShared(d)'
  BY <1>1 DEF QuitShared
<1>8. ReadsOwn'
  BY <1>1, <1>7 DEF ReadsOwn
<1>9. \A d \in Conn : Holds(d)' => Holds(d)
  BY <1>1, <1>2 DEF Holds
<1>10. fds' = fds \/ fds' = [fds EXCEPT ![fd[t]] = None]
  BY DEF QuitClose, CloseDescriptor, CountClosed, Close
<1>11. HoldsOK'
  <2> SUFFICES ASSUME NEW d \in Conn, Holds(d)'
               PROVE  fds'[fd[d]] = d \/ QuitShared(d)'
    BY <1>1 DEF HoldsOK
  <2>1. fds[fd[d]] = d \/ QuitShared(d)
    BY <1>9 DEF HoldsOK
  <2>2. CASE QuitShared(d)
    BY <1>7, <2>2
  <2>3. CASE fds[fd[d]] = d /\ fd[d] # fd[t]
    <3>1. fd[d] \in Fd
      BY <1>9, HoldsFd
    <3>2. QED
      BY <1>10, <2>3, <3>1 DEF TypeOK
  <2>4. CASE fds[fd[d]] = d /\ fd[d] = fd[t] /\ d # t /\ ~CountClosed(t)
    <3>1. Holds(t)
      BY <2>4 DEF QuitClose, CloseDescriptor, Holds
    <3>2. QuitShared(t)
      BY <2>4, <3>1 DEF HoldsOK
    <3>3. QED
      BY <1>7, <2>4, <3>2 DEF QuitShared
  <2>5. CASE fds[fd[d]] = d /\ d = t /\ ~CountClosed(t)
    <3>1. CASE QuitClose(t)
      BY <1>1, <2>5, <3>1 DEF QuitClose, QuitShared
    <3>2. CASE CloseDescriptor(t)
      BY <1>1, <2>5, <3>2 DEF CloseDescriptor, Goto, Holds, TypeOK
    <3>3. QED
      BY <2>5, <3>1, <3>2
  <2>6. CASE fds[fd[d]] = d /\ CountClosed(t)
    BY <2>6 DEF CountClosed
  <2>7. QED
    BY <2>1, <2>2, <2>3, <2>4, <2>5, <2>6
<1>12. NoLeak'
  <2> SUFFICES ASSUME NEW f \in Fd, fds'[f] # None
               PROVE  /\ fd[fds'[f]] = f
                      /\ \/ pc'[fds'[f]] \notin {"none", "count", "done"}
                         \/ /\ pc'[fds'[f]] = "none"
                            /\ cur = fds'[f]
                            /\ acc \in {"count", "create", "killed"}
    BY <1>1 DEF NoLeak
  <2>1. fds'[f] = fds[f] /\ fds[f] \in Conn
    BY <1>10 DEF TypeOK
  <2>2. fd[fds[f]] = f
    BY <2>1 DEF NoLeak
  <2>3. CASE fds[f] # t
    BY <1>2, <2>1, <2>2, <2>3 DEF NoLeak
  <2>4. CASE fds[f] = t
    <3>1. ~CountClosed(t)
      BY <2>1, <2>4 DEF CountClosed, NoLeak
    <3>2. fds' = [fds EXCEPT ![f] = None]
      BY <2>2, <2>4, <3>1 DEF QuitClose, CloseDescriptor, Close
    <3>3. QED
      BY <3>2 DEF TypeOK
  <2>5. QED
    BY <2>3, <2>4
<1>13. QED
  BY <1>3, <1>4, <1>5, <1>6, <1>8, <1>11, <1>12

LEMMA ClientSteps ==
    ASSUME FdInv, NEW c \in Conn,
           Connect(c) \/ HangUp(c) \/ \E line \in {"QUIT", "REG"} : Send(c, line)
    PROVE  FdParts'
<1> USE DEF FdInv, FdParts, clientVars, acceptVars, threadVars, tableVars
<1>1. /\ fd' = fd /\ fds' = fds /\ cur' = cur /\ acc' = acc /\ pc' = pc
      /\ reading' = reading /\ quit' = quit
  BY DEF Connect, HangUp, Send
<1>2. AcceptOK' /\ ReadingOK' /\ HoldsOK' /\ NoLeak' /\ ReadsOwn'
  BY <1>1 DEF AcceptOK, ReadingOK, HoldsOK, Holds, NoLeak, ReadsOwn, QuitShared
<1>3. \A d \in Conn : client'[d] = "new" => client[d] = "new"
  BY DEF Connect, HangUp, Send, TypeOK
<1>4. FreshOK'
  BY <1>1, <1>3 DEF FreshOK
<1>5. BacklogOK'
  <2>1. CASE Connect(c)
    <3>1. backlog \in Seq(Conn) /\ backlog' = Append(backlog, c)
      BY <2>1 DEF Connect, TypeOK
    <3>2. \A i \in DOMAIN backlog : backlog[i] # c
      BY <2>1 DEF Connect, BacklogOK
    <3>3. fd[c] = 0 /\ client'[c] # "new"
      BY <2>1 DEF Connect, FreshOK, TypeOK
    <3>4. \A i \in DOMAIN backlog' : \/ i \in DOMAIN backlog /\ backlog'[i] = backlog[i]
                                     \/ i = Len(backlog) + 1 /\ backlog'[i] = c
      BY <3>1
    <3>5. \A i \in DOMAIN backlog : backlog[i] \in Conn
      BY <3>1
    <3>6. \A i, j \in DOMAIN backlog' : i # j => backlog'[i] # backlog'[j]
      BY <3>2, <3>4 DEF BacklogOK
    <3>7. \A i \in DOMAIN backlog' : client'[backlog'[i]] # "new" /\ fd'[backlog'[i]] = 0
      BY <1>1, <1>3, <3>3, <3>4, <3>5 DEF BacklogOK
    <3>8. QED
      BY <3>6, <3>7 DEF BacklogOK
  <2>2. CASE ~Connect(c)
    <3>1. backlog' = backlog
      BY <2>2 DEF HangUp, Send
    <3>2. \A i \in DOMAIN backlog : backlog[i] \in Conn
      BY DEF TypeOK
    <3>3. QED
      BY <1>1, <1>3, <3>1, <3>2 DEF BacklogOK
  <2>3. QED
    BY <2>1, <2>2
<1>6. QED
  BY <1>2, <1>4, <1>5

\* Steps of the accept loop that touch neither a descriptor nor a thread.
LEMMA QuietSteps ==
    ASSUME FdInv,
           \/ OpenListener \/ TestRunning \/ CountAccepted \/ Cleanup \/ Exit \/ sig_handler
           \/ \E t \in Conn : Sigpipe(t)
    PROVE  FdParts'
<1> USE DEF FdInv, FdParts, clientVars, acceptVars, threadVars, tableVars
<1>1. /\ fd' = fd /\ fds' = fds /\ cur' = cur /\ pc' = pc /\ reading' = reading
      /\ quit' = quit /\ backlog' = backlog /\ client' = client
  BY DEF OpenListener, TestRunning, CountAccepted, Cleanup, Exit, sig_handler, Sigpipe
<1>2. /\ acc' \in {"count", "create"} => acc \in {"count", "create"}
      /\ acc \in {"count", "create", "killed"} => acc' \in {"count", "create", "killed"}
  BY DEF OpenListener, TestRunning, CountAccepted, Cleanup, Exit, sig_handler, Sigpipe, Up
<1>3. BacklogOK' /\ FreshOK' /\ ReadingOK' /\ ReadsOwn'
  BY <1>1 DEF BacklogOK, FreshOK, ReadingOK, ReadsOwn, QuitShared
<1>4. AcceptOK'
  BY <1>1, <1>2 DEF AcceptOK
<1>5. HoldsOK'
  BY <1>1, <1>2 DEF HoldsOK, Holds, QuitShared
<1>6. NoLeak'
  BY <1>1, <1>2 DEF NoLeak
<1>7. QED
  BY <1>3, <1>4, <1>5, <1>6

LEMMA CreateStep ==
    ASSUME FdInv, CreateThread \/ CreateFails
    PROVE  FdParts'
<1> USE DEF FdInv, FdParts, clientVars, acceptVars, threadVars, tableVars
<1>1. /\ fd' = fd /\ fds' = fds /\ cur' = cur /\ reading' = reading
      /\ quit' = quit /\ backlog' = backlog /\ client' = client
      /\ acc = "create" /\ acc' \in {"test", "killed"}
  BY DEF CreateThread, CreateFails
<1>2. /\ cur \in Conn /\ fd[cur] # 0 /\ pc[cur] = "none" /\ pc'[cur] \in {"read", "failed"}
      /\ \A d \in Conn \ {cur} : pc'[d] = pc[d]
  BY <1>1 DEF CreateThread, CreateFails, Goto, AcceptOK, TypeOK
<1>3. BacklogOK' /\ ReadsOwn'
  BY <1>1 DEF BacklogOK, ReadsOwn, QuitShared
<1>4. FreshOK'
  BY <1>1, <1>2 DEF FreshOK
<1>5. AcceptOK' /\ ReadingOK'
  BY <1>1, <1>2 DEF AcceptOK, ReadingOK
<1>6. \A d \in Conn : Holds(d)' => Holds(d)
  BY <1>1, <1>2 DEF Holds
<1>7. HoldsOK'
  BY <1>1, <1>6 DEF HoldsOK, QuitShared
<1>8. NoLeak'
  <2> SUFFICES ASSUME NEW f \in Fd, fds[f] # None
               PROVE  fd[fds[f]] = f /\ pc'[fds[f]] \notin {"none", "count", "done"}
    BY <1>1 DEF NoLeak
  <2>1. fds[f] \in Conn
    BY DEF TypeOK
  <2>2. CASE fds[f] = cur
    BY <1>2, <2>2 DEF NoLeak
  <2>3. CASE fds[f] # cur
    BY <1>2, <2>1, <2>3 DEF NoLeak
  <2>4. QED
    BY <2>2, <2>3
<1>9. QED
  BY <1>3, <1>4, <1>5, <1>7, <1>8

\* accept: a thread that still holds the number the kernel hands out again has
\* lost it to a QUIT.
LEMMA AcceptStepInv ==
    ASSUME FdInv, Accept
    PROVE  FdParts'
<1> USE DEF FdInv, FdParts, clientVars, acceptVars, threadVars, tableVars
<1>1. pc' = pc /\ reading' = reading /\ quit' = quit /\ client' = client /\ acc = "accept"
  BY DEF Accept
<1>2. CASE UNCHANGED <<fds, fd, cur, backlog>> /\ acc' = "cleanup"
  <2>1. fds' = fds /\ fd' = fd /\ cur' = cur /\ backlog' = backlog
    BY <1>2
  <2>2. BacklogOK' /\ FreshOK' /\ AcceptOK' /\ ReadingOK' /\ ReadsOwn'
    BY <1>1, <1>2, <2>1 DEF BacklogOK, FreshOK, AcceptOK, ReadingOK, ReadsOwn, QuitShared
  <2>3. HoldsOK'
    BY <1>1, <1>2, <2>1 DEF HoldsOK, Holds, QuitShared
  <2>4. NoLeak'
    BY <1>1, <1>2, <2>1 DEF NoLeak
  <2>5. QED
    BY <2>2, <2>3, <2>4
<1>3. ASSUME NEW f \in Fd, LowestFree(f), NEW c, c = Head(backlog),
             fds' = [fds EXCEPT ![f] = c], fd' = [fd EXCEPT ![c] = f], cur' = c,
             backlog' = Tail(backlog), acc' = "count"
      PROVE  FdParts'
  <2>1. backlog \in Seq(Conn) /\ backlog # <<>>
    BY DEF Accept, TypeOK
  <2>2. /\ c \in Conn /\ c = backlog[1] /\ 1 \in DOMAIN backlog
        /\ backlog' \in Seq(Conn)
        /\ \A i \in DOMAIN backlog' : i + 1 \in DOMAIN backlog /\ i + 1 # 1
                                      /\ backlog'[i] = backlog[i + 1]
    BY <2>1, <1>3
  <2>3. fd[c] = 0 /\ client[c] # "new" /\ pc[c] = "none" /\ c \notin quit /\ reading[c] = None
    BY <2>2 DEF BacklogOK, FreshOK
  <2>4. /\ fd'[c] = f /\ f # 0 /\ \A d \in Conn \ {c} : fd'[d] = fd[d]
        /\ fds[f] = None /\ fds'[f] = c
        /\ \A g \in Fd \ {f} : fds'[g] = fds[g]
    BY <1>3, <2>2 DEF TypeOK, LowestFree, FreeFds, Fd
  <2>5. BacklogOK'
    <3>1. \A i \in DOMAIN backlog' : backlog'[i] \in Conn /\ backlog'[i] # c
      BY <2>2 DEF BacklogOK
    <3>2. \A i \in DOMAIN backlog' : client'[backlog'[i]] # "new" /\ fd'[backlog'[i]] = 0
      BY <1>1, <2>2, <2>4, <3>1 DEF BacklogOK
    <3>3. \A i, j \in DOMAIN backlog' : i # j => backlog'[i] # backlog'[j]
      <4> SUFFICES ASSUME NEW i \in DOMAIN backlog', NEW j \in DOMAIN backlog', i # j
                   PROVE  backlog'[i] # backlog'[j]
        OBVIOUS
      <4>1. i \in Nat /\ j \in Nat
        BY <2>2
      <4>2. i + 1 # j + 1
        BY <4>1
      <4>3. QED
        BY <2>2, <4>2 DEF BacklogOK
    <3>4. QED
      BY <3>2, <3>3 DEF BacklogOK
  <2>6. FreshOK'
    BY <1>1, <2>3, <2>4 DEF FreshOK
  <2>7. AcceptOK' /\ ReadingOK'
    BY <1>1, <1>3, <2>2, <2>3, <2>4 DEF AcceptOK, ReadingOK
  <2>8. \A d \in Conn : QuitShared(d) /\ d # c => QuitShared(d)'
    BY <1>1, <2>3, <2>4 DEF QuitShared, TypeOK
  <2>9. ReadsOwn'
    BY <1>1, <2>3, <2>8 DEF ReadsOwn
  <2>10. HoldsOK'
    <3> SUFFICES ASSUME NEW d \in Conn, Holds(d)'
                 PROVE  fds'[fd'[d]] = d \/ QuitShared(d)'
      BY DEF HoldsOK
    <3>1. CASE d = c
      BY <2>4, <3>1
    <3>2. CASE d # c
      <4>1. Holds(d)
        BY <1>1, <1>3, <3>2 DEF Holds
      <4>2. fd[d] \in Fd
        BY <4>1, HoldsFd
      <4>3. fds[fd[d]] = d \/ QuitShared(d)
        BY <4>1 DEF HoldsOK
      <4>4. CASE QuitShared(d)
        BY <2>8, <3>2, <4>4
      <4>5. CASE fds[fd[d]] = d
        BY <2>4, <3>2, <4>2, <4>5, NoneAssumption
      <4>6. QED
        BY <4>3, <4>4, <4>5
    <3>3. QED
      BY <3>1, <3>2
  <2>11. NoLeak'
    <3> SUFFICES ASSUME NEW g \in Fd, fds'[g] # None
                 PROVE  /\ fd'[fds'[g]] = g
                        /\ \/ pc[fds'[g]] \notin {"none", "count", "done"}
                           \/ pc[fds'[g]] = "none" /\ c = fds'[g]
      BY <1>1, <1>3 DEF NoLeak
    <3>1. CASE g = f
      BY <2>3, <2>4, <3>1
    <3>2. CASE g # f
      <4>1. fds'[g] = fds[g] /\ fds[g] \in Conn /\ fd[fds[g]] = g
        BY <2>4, <3>2 DEF NoLeak, TypeOK
      <4>2. fds[g] # c
        BY <2>3, <4>1 DEF Fd
      <4>3. QED
        BY <1>1, <2>4, <4>1, <4>2 DEF NoLeak
    <3>3. QED
      BY <3>1, <3>2
  <2>12. QED
    BY <2>5, <2>6, <2>7, <2>9, <2>10, <2>11
<1>4. QED
  BY <1>2, <1>3 DEF Accept

LEMMA FdInvStep == FdInv /\ [Next]_vars => FdInv'
<1> SUFFICES ASSUME FdInv, [Next]_vars PROVE FdInv'
  OBVIOUS
<1>1. CASE ClientStep
  BY <1>1, ClientTypes, ClientSteps DEF ClientStep, FdInv
<1>2. CASE sig_handler
  BY <1>2, AcceptTypes, QuietSteps DEF FdInv
<1>3. CASE AcceptStep
  BY <1>3, AcceptTypes, QuietSteps, CreateStep, AcceptStepInv DEF AcceptStep, FdInv
<1>4. ASSUME NEW t \in Conn, ThreadStep(t) \/ Sigpipe(t) PROVE FdInv'
  BY <1>4, ThreadTypes, LoopSteps, CloseSteps, QuietSteps DEF ThreadStep, FdInv
<1>5. CASE UNCHANGED vars
  <2>1. TypeOK'
    BY <1>5 DEF vars, clientVars, acceptVars, threadVars, tableVars, TypeOK, FdInv
  <2>2. FdParts'
    BY <1>5 DEF vars, clientVars, acceptVars, threadVars, tableVars, FdInv, FdParts,
       BacklogOK, FreshOK, AcceptOK, ReadingOK, HoldsOK, Holds, NoLeak, ReadsOwn, QuitShared
  <2>3. QED
    BY <2>1, <2>2 DEF FdInv
<1>6. QED
  BY <1>1, <1>2, <1>3, <1>4, <1>5 DEF Next

LEMMA FdCorrect == Spec => []FdInv
BY InitInv, FdInvStep, PTL DEF Spec

\* Every variable keeps its type, for any number of clients and descriptors.
THEOREM TypeCorrect == Spec => []TypeOK
<1>1. FdInv => TypeOK
  BY DEF FdInv
<1>2. QED
  BY <1>1, FdCorrect, PTL

\* No descriptor is ever left open without a thread that will close it.
THEOREM NoLeakCorrect == Spec => []NoLeak
<1>1. FdInv => NoLeak
  BY DEF FdInv, FdParts
<1>2. QED
  BY <1>1, FdCorrect, PTL

\* Two clients are mixed up only on a descriptor number on which a QUIT was
\* handled.
THEOREM ReadsOwnCorrect == Spec => []ReadsOwn
<1>1. FdInv => ReadsOwn
  BY DEF FdInv, FdParts
<1>2. QED
  BY <1>1, FdCorrect, PTL

-----------------------------------------------------------------------------
(* connection_count *)

\* Only finitely many threads are live, and one that is about to count a QUIT has
\* handled it.
CountInv ==
    /\ IsFiniteSet(Counted)
    /\ \A t \in Conn : pc[t] = "quit_count" => t \in quit
    /\ CountExact

\* Steps that neither start nor end a thread and leave the count alone.
LEMMA CountFrame ==
    ASSUME CountInv, connectionCount' = connectionCount, quit \subseteq quit',
           Up' => Up /\ (acc' = "create" <=> acc = "create"),
           \A t \in Conn : Admitted(t)' <=> Admitted(t),
           \A t \in Conn : pc'[t] = "quit_count" => pc[t] = "quit_count" \/ t \in quit'
    PROVE  CountInv'
<1>1. Counted' = Counted
  BY DEF Counted
<1>2. \A t \in Conn : pc'[t] = "quit_count" => t \in quit'
  BY DEF CountInv
<1>3. CountExact'
  BY <1>1 DEF CountInv, CountExact, Counted
<1>4. QED
  BY <1>1, <1>2, <1>3 DEF CountInv

LEMMA CountStep ==
    ASSUME FdInv, CountInv, Next
    PROVE  CountInv'
<1> USE DEF clientVars, acceptVars, threadVars, tableVars
<1>1. pc \in [Conn -> PC] /\ connectionCount \in Int
  BY DEF FdInv, TypeOK
<1>2. CASE ClientStep \/ sig_handler \/ OpenListener \/ TestRunning \/ Cleanup \/ Exit
           \/ Accept
           \/ \E t \in Conn : Sigpipe(t)
  <2>1. pc' = pc /\ quit' = quit /\ connectionCount' = connectionCount
    BY <1>2 DEF ClientStep, Connect, HangUp, Send, sig_handler, OpenListener, TestRunning, Cleanup,
                Exit, Accept, Sigpipe
  <2>2. Up' => Up /\ (acc' = "create" <=> acc = "create")
    BY <1>2 DEF ClientStep, Connect, HangUp, Send, sig_handler, OpenListener, TestRunning, Cleanup,
                Exit, Accept, Sigpipe, Up
  <2>3. QED
    BY <2>1, <2>2, CountFrame DEF Admitted
<1>3. ASSUME NEW t \in Conn,
             \/ StartRead(t) \/ ReadLine(t) \/ ReadEof(t) \/ Register(t) \/ Bind(t)
             \/ QuitClose(t) \/ FindNode(t) \/ DeleteNode(t) \/ DeleteStale(t)
             \/ CloseDescriptor(t)
      PROVE  CountInv'
  <2>1. /\ connectionCount' = connectionCount
        /\ acc' \in {acc, "killed"}
        /\ quit' = quit \/ quit' = quit \union {t}
        /\ pc[t] \notin {"none", "done"}
    BY <1>3 DEF StartRead, ReadLine, ReadEof, Register, Bind, QuitClose, FindNode,
                DeleteNode, DeleteStale, CloseDescriptor
  <2>2. /\ pc'[t] \notin {"none", "done"}
        /\ pc'[t] = "quit_count" => t \in quit'
        /\ \A d \in Conn \ {t} : pc'[d] = pc[d]
    BY <1>1, <1>3 DEF StartRead, ReadLine, ReadEof, Register, Bind, QuitClose, FindNode,
                DeleteNode, DeleteStale, CloseDescriptor, Goto
  <2>3. Up' => Up /\ (acc' = "create" <=> acc = "create")
    BY <2>1 DEF Up
  <2>4. \A d \in Conn : Admitted(d)' <=> Admitted(d)
    BY <2>1, <2>2 DEF Admitted
  <2>5. quit \subseteq quit'
    BY <2>1
  <2>6. QED
    BY <2>1, <2>2, <2>3, <2>4, <2>5, CountFrame
<1>4. CASE CountAccepted
  <2>1. /\ pc' = pc /\ quit' = quit /\ connectionCount' = connectionCount + 1
        /\ acc = "count" /\ acc' = "create"
    BY <1>4 DEF CountAccepted
  <2>2. Counted' = Counted
    BY <2>1 DEF Counted, Admitted
  <2>3. Cardinality(Counted) \in Nat
    BY FS_CardinalityType DEF CountInv
  <2>4. quit = {} => connectionCount = Cardinality(Counted) + 0
    BY <2>1 DEF CountInv, CountExact, Up
  <2>5. CountExact'
    BY <1>1, <2>1, <2>2, <2>3, <2>4 DEF CountExact
  <2>6. QED
    BY <2>1, <2>2, <2>5 DEF CountInv
<1>5. CASE CreateThread \/ CreateFails
  <2>1. /\ quit' = quit /\ connectionCount' = connectionCount
        /\ acc = "create" /\ acc' \in {"test", "killed"}
        /\ cur \in Conn /\ pc[cur] = "none"
        /\ \E p \in {"read", "failed"} : pc' = [pc EXCEPT ![cur] = p]
    BY <1>5 DEF CreateThread, CreateFails, Goto, FdInv, FdParts, AcceptOK
  <2>2. Counted' = Counted \union {cur} /\ cur \notin Counted
    BY <1>1, <2>1 DEF Counted, Admitted
  <2>3. /\ IsFiniteSet(Counted')
        /\ Cardinality(Counted') = Cardinality(Counted) + 1
        /\ Cardinality(Counted) \in Nat
    BY <2>2, FS_AddElement, FS_CardinalityType DEF CountInv
  <2>4. quit = {} => connectionCount = Cardinality(Counted) + 1
    BY <2>1 DEF CountInv, CountExact, Up
  <2>5. CountExact'
    BY <1>1, <2>1, <2>3, <2>4 DEF CountExact
  <2>6. \A t \in Conn : pc'[t] = "quit_count" => t \in quit'
    BY <1>1, <2>1 DEF CountInv
  <2>7. QED
    BY <2>3, <2>5, <2>6 DEF CountInv
<1>6. ASSUME NEW t \in Conn, QuitCount(t) PROVE CountInv'
  <2>1. /\ quit' = quit /\ t \in quit /\ acc' = acc
        /\ pc[t] = "quit_count" /\ pc' = [pc EXCEPT ![t] = "read"]
    BY <1>6 DEF QuitCount, Goto, CountInv
  <2>2. Counted' = Counted
    BY <1>1, <2>1 DEF Counted, Admitted
  <2>3. CountExact'
    BY <2>1 DEF CountExact
  <2>4. \A d \in Conn : pc'[d] = "quit_count" => d \in quit'
    BY <1>1, <2>1 DEF CountInv
  <2>5. QED
    BY <2>2, <2>3, <2>4 DEF CountInv
<1>7. ASSUME NEW t \in Conn, CountClosed(t) PROVE CountInv'
  <2>1. /\ quit' = quit /\ acc' = acc /\ connectionCount' = connectionCount - 1 /\ Up
        /\ pc[t] = "count" /\ pc' = [pc EXCEPT ![t] = "done"]
    BY <1>7 DEF CountClosed, Goto
  <2>2. Counted' = Counted \ {t} /\ t \in Counted
    BY <1>1, <2>1 DEF Counted, Admitted
  <2>3. /\ IsFiniteSet(Counted')
        /\ Cardinality(Counted') = Cardinality(Counted) - 1
        /\ Cardinality(Counted) \in Nat
    BY <2>2, FS_RemoveElement, FS_CardinalityType DEF CountInv
  <2>4. quit = {} => connectionCount = Cardinality(Counted)
                                       + (IF acc = "create" THEN 1 ELSE 0)
    BY <2>1 DEF CountInv, CountExact
  <2>5. CountExact'
    BY <1>1, <2>1, <2>3, <2>4 DEF CountExact
  <2>6. \A d \in Conn : pc'[d] = "quit_count" => d \in quit'
    BY <1>1, <2>1 DEF CountInv
  <2>7. QED
    BY <2>3, <2>5, <2>6 DEF CountInv
<1>8. QED
  BY <1>2, <1>3, <1>4, <1>5, <1>6, <1>7 DEF Next, AcceptStep, ThreadStep

\* Without a QUIT, connection_count is exact at every moment.
THEOREM CountCorrect == Spec => []CountExact
<1>1. Init => CountInv
  <2> SUFFICES ASSUME Init PROVE CountInv
    OBVIOUS
  <2>1. Counted = {}
    BY DEF Init, Counted, Admitted
  <2>2. QED
    BY <2>1, FS_EmptySet DEF Init, CountInv, CountExact
<1>2. FdInv /\ CountInv /\ [Next]_vars => CountInv'
  <2>1. ASSUME CountInv, UNCHANGED vars PROVE CountInv'
    BY <2>1 DEF vars, acceptVars, threadVars, CountInv, CountExact, Counted, Admitted, Up
  <2>2. QED
    BY <2>1, CountStep
<1>3. CountInv => CountExact
  BY DEF CountInv
<1>4. QED
  BY <1>1, <1>2, <1>3, FdCorrect, PTL DEF Spec

-----------------------------------------------------------------------------
(* The nodes of sockfd_nick_hash: who deletes which, and whose they are *)

\* The clean-up has begun, or the process is gone.
Ending == acc \in {"exit", "down", "killed"}

\* A thread inside read or a branch got its socket from its own descriptor number.
SameNumber ==
    \A t \in Conn : pc[t] \in {"blocked", "register", "bind"} => fd[reading[t]] = fd[t]

\* The node a thread is to delete has the number the thread holds.
FoundOK == \A t \in Conn : pc[t] = "del" /\ found[t] # None => found[t].fd = fd[t]

\* A node names the client whose line made it by the number of its connection.
NodesOK ==
    \A e \in sockfdNick : e.fd = fd[e.by] /\ e.nth =< bound[e.by] /\ bound[e.by] >= 1

\* Two nodes for one client mean two registrations.
SingleOK == \A e, n \in sockfdNick : e.by = n.by /\ e # n => bound[e.by] > 1

\* A thread that has searched has its client's node, and then has deleted it.
LeavingOK ==
    \A e \in sockfdNick :
        /\ pc[e.by] = "del" => e = found[e.by] \/ QuitShared(e.by) \/ RegisteredTwice(e.fd)
        /\ pc[e.by] = "close" => QuitShared(e.by) \/ RegisteredTwice(e.fd)

NodeParts ==
    /\ SameNumber
    /\ FoundOK
    /\ NodesOK
    /\ SingleOK
    /\ LeavingOK
    /\ BindingCurrent
    /\ DeletesLive

NodeInv == FdInv /\ NodeParts

-----------------------------------------------------------------------------
(* What every step keeps *)

\* A client's number is given once, and neither a QUIT nor a second registration on it
\* is ever forgotten.
LEMMA NumbersKept ==
    ASSUME FdInv, Next
    PROVE  /\ \A c \in Conn : fd[c] # 0 => fd'[c] = fd[c]
           /\ \A c \in Conn : QuitShared(c) => QuitShared(c)'
           /\ \A f \in Fd : RegisteredTwice(f) => RegisteredTwice(f)'
<1> USE DEF clientVars, acceptVars, threadVars, tableVars
<1>1. quit \subseteq quit'
  BY DEF Next, ClientStep, Connect, HangUp, Send, sig_handler, AcceptStep, OpenListener,
         TestRunning, Accept, CountAccepted, CreateThread, CreateFails, Cleanup, Exit,
         ThreadStep, StartRead, ReadLine, ReadEof, Register, Bind, QuitClose, QuitCount,
         FindNode, DeleteNode, DeleteStale, CloseDescriptor, CountClosed, Sigpipe
<1>2. \A c \in Conn : fd[c] # 0 => fd'[c] = fd[c]
  <2>1. CASE Accept
    <3>1. CASE fd' = fd
      BY <3>1
    <3>2. CASE fd' # fd
      <4>1. PICK f \in Fd : fd' = [fd EXCEPT ![Head(backlog)] = f]
        BY <2>1, <3>2 DEF Accept
      <4>2. backlog # <<>> /\ backlog \in Seq(Conn)
        BY <2>1 DEF Accept, FdInv, TypeOK
      <4>3. 1 \in DOMAIN backlog /\ Head(backlog) = backlog[1]
        BY <4>2
      <4>4. fd[Head(backlog)] = 0
        BY <4>3 DEF FdInv, FdParts, BacklogOK
      <4>5. QED
        BY <4>1, <4>4 DEF FdInv, TypeOK
    <3>3. QED
      BY <3>1, <3>2
  <2>2. CASE ~Accept
    <3>1. fd' = fd
      BY <2>2 DEF Next, ClientStep, Connect, HangUp, Send, sig_handler, AcceptStep,
             OpenListener, TestRunning, CountAccepted, CreateThread, CreateFails, Cleanup,
             Exit, ThreadStep, StartRead, ReadLine, ReadEof, Register, Bind, QuitClose,
             QuitCount, FindNode, DeleteNode, DeleteStale, CloseDescriptor, CountClosed,
             Sigpipe
    <3>2. QED
      BY <3>1
  <2>3. QED
    BY <2>1, <2>2
<1>3. ASSUME NEW c \in Conn, QuitShared(c) PROVE QuitShared(c)'
  <2>1. PICK u \in quit : fd[u] = fd[c]
    BY <1>3 DEF QuitShared
  <2>2. u \in Conn /\ fd[u] # 0
    BY <2>1 DEF FdInv, FdParts, TypeOK, FreshOK
  <2>3. fd'[u] = fd'[c]
    BY <1>2, <2>1, <2>2
  <2>4. QED
    BY <1>1, <2>3 DEF QuitShared
<1>4. bound \in [Conn -> Nat] /\ bound' \in [Conn -> Nat]
      /\ \A c \in Conn : bound'[c] >= bound[c]
  <2>1. CASE bound' = bound
    BY <2>1 DEF FdInv, TypeOK
  <2>2. CASE bound' # bound
    <3>1. PICK t \in Conn : Bind(t)
      BY <2>2 DEF Next, ClientStep, Connect, HangUp, Send, sig_handler, AcceptStep,
             OpenListener, TestRunning, Accept, CountAccepted, CreateThread, CreateFails,
             Cleanup, Exit, ThreadStep, StartRead, ReadLine, ReadEof, Register, QuitClose,
             QuitCount, FindNode, DeleteNode, DeleteStale, CloseDescriptor, CountClosed,
             Sigpipe
    <3>2. bound' = [bound EXCEPT ![reading[t]] = @ + 1]
      BY <3>1 DEF Bind
    <3>3. bound \in [Conn -> Nat] /\ reading[t] \in Conn
      BY <3>1 DEF FdInv, FdParts, TypeOK, ReadingOK, Bind
    <3>4. bound' \in [Conn -> Nat]
      BY <3>2, <3>3
    <3>5. \A c \in Conn : bound'[c] = IF c = reading[t] THEN bound[c] + 1 ELSE bound[c]
      BY <3>2, <3>3
    <3>6. QED
      BY <3>3, <3>4, <3>5
  <2>3. QED
    BY <2>1, <2>2
<1>5. ASSUME NEW f \in Fd, RegisteredTwice(f) PROVE RegisteredTwice(f)'
  <2>1. PICK c \in Conn : fd[c] = f /\ bound[c] > 1
    BY <1>5 DEF RegisteredTwice
  <2>2. fd'[c] = f
    BY <1>2, <2>1 DEF Fd
  <2>3. bound'[c] > 1
    BY <1>4, <2>1
  <2>4. QED
    BY <2>2, <2>3 DEF RegisteredTwice
<1>6. QED
  BY <1>2, <1>3, <1>5

\* A thread that holds its number shares it with nobody whose connection it stands
\* for, unless a QUIT was handled on it.
LEMMA SharedHold ==
    ASSUME FdInv, NEW t \in Conn, Holds(t), NEW c \in Conn, c # t, fd[c] = fd[t],
           fds[fd[t]] = c \/ Holds(c)
    PROVE  QuitShared(t) /\ QuitShared(c)
<1>1. QuitShared(t) <=> QuitShared(c)
  BY DEF QuitShared
<1>2. CASE fds[fd[t]] = c
  BY <1>1, <1>2 DEF FdInv, FdParts, HoldsOK
<1>3. CASE Holds(c)
  BY <1>1, <1>3 DEF FdInv, FdParts, HoldsOK
<1>4. QED
  BY <1>2, <1>3

\* The nodes and what is said of them do not change, whatever else does.
LEMMA NodesFrame ==
    ASSUME FdInv, NodeParts, Next,
           sockfdNick' \subseteq sockfdNick, bound' = bound,
           \A e \in sockfdNick : fds'[e.fd] = e.by => fds[e.fd] = e.by
    PROVE  NodesOK' /\ SingleOK'
<1> USE NumbersKept DEF NodeParts
<1>1. \A e \in sockfdNick : e.by \in Conn /\ e.fd = fd[e.by] /\ fd'[e.by] = fd[e.by]
  BY SMTT(30) DEF FdInv, TypeOK, NickNode, NodesOK, Fd
<1>2. NodesOK'
  BY <1>1 DEF NodesOK
<1>3. SingleOK'
  BY DEF SingleOK
<1>4. QED
  BY <1>2, <1>3

LEMMA SameNumberStep ==
    ASSUME FdInv, NodeParts, Next
    PROVE  SameNumber'
<1> SUFFICES ASSUME NEW t \in Conn, pc'[t] \in {"blocked", "register", "bind"}
             PROVE  fd'[reading'[t]] = fd'[t]
  BY DEF SameNumber
<1> USE DEF clientVars, acceptVars, threadVars, tableVars
<1>1. CASE StartRead(t)
  <2>1. /\ reading'[t] = fds[fd[t]] /\ fds[fd[t]] # None /\ fd' = fd
        /\ pc[t] = "read"
    BY <1>1 DEF StartRead, Goto, FdInv, TypeOK
  <2>2. fd[t] \in Fd
    BY <2>1, HoldsFd DEF Holds, FdInv, FdParts
  <2>3. QED
    BY <2>1, <2>2 DEF FdInv, FdParts, NoLeak
<1>2. CASE ~StartRead(t)
  <2>1. pc[t] \in {"blocked", "register", "bind"} /\ reading'[t] = reading[t]
    <3>1. CASE CreateThread \/ CreateFails
      BY <3>1 DEF CreateThread, CreateFails, Goto, FdInv, FdParts, TypeOK, AcceptOK
    <3>2. CASE ClientStep \/ sig_handler \/ OpenListener \/ TestRunning \/ Accept
               \/ CountAccepted \/ Cleanup \/ Exit \/ \E u \in Conn : Sigpipe(u)
      BY <3>2 DEF ClientStep, Connect, HangUp, Send, sig_handler, OpenListener, TestRunning,
                  Accept, CountAccepted, Cleanup, Exit, Sigpipe
    <3>3. ASSUME NEW u \in Conn, ThreadStep(u)
          PROVE  pc[t] \in {"blocked", "register", "bind"} /\ reading'[t] = reading[t]
      BY <1>2, <3>3 DEF ThreadStep, StartRead, ReadLine, ReadEof, Register, Bind, QuitClose,
             QuitCount, FindNode, DeleteNode, DeleteStale, CloseDescriptor, CountClosed,
             Goto, FdInv, TypeOK
    <3>4. QED
      BY <3>1, <3>2, <3>3 DEF Next, AcceptStep
  <2>2. reading[t] \in Conn /\ fd[reading[t]] = fd[t] /\ fd[t] # 0
    BY <2>1 DEF FdInv, FdParts, TypeOK, ReadingOK, FreshOK, NodeParts, SameNumber
  <2>3. QED
    BY <2>1, <2>2, NumbersKept
<1>3. QED
  BY <1>1, <1>2

-----------------------------------------------------------------------------
(* The steps that leave the table and the descriptors alone *)

LEMMA NodeFrame ==
    ASSUME FdInv, NodeParts, Next,
           sockfdNick' = sockfdNick, bound' = bound, found' = found,
           \A e \in sockfdNick : fds'[e.fd] = e.by <=> fds[e.fd] = e.by,
           \A t \in Conn : pc'[t] = "del" => pc[t] = "del",
           \A t \in Conn : pc'[t] = "close" => pc[t] = "close",
           Ending => Ending'
    PROVE  NodeParts'
<1> USE DEF NodeParts
<1>1. NodesOK' /\ SingleOK'
  BY NodesFrame
<1>2. \A e \in sockfdNick : e.by \in Conn /\ e.fd \in Fd
  BY DEF FdInv, TypeOK, NickNode
<1>3. FoundOK'
  <2>1. ASSUME NEW t \in Conn, pc[t] = "del" PROVE fd'[t] = fd[t]
    BY <2>1, NumbersKept DEF FdInv, FdParts, FreshOK
  <2>2. QED
    BY <2>1 DEF FoundOK
<1>4. LeavingOK'
  BY <1>2, NumbersKept DEF LeavingOK
<1>5. BindingCurrent'
  BY <1>2, NumbersKept DEF BindingCurrent
<1>6. DeletesLive'
  BY NumbersKept DEF DeletesLive, Ending
<1>7. QED
  BY <1>1, <1>3, <1>4, <1>5, <1>6, SameNumberStep

LEMMA QuietNodeSteps ==
    ASSUME FdInv, NodeParts,
           \/ ClientStep \/ sig_handler \/ OpenListener \/ TestRunning \/ CountAccepted
           \/ CreateThread \/ CreateFails \/ Exit
           \/ \E t \in Conn : \/ Sigpipe(t) \/ StartRead(t) \/ ReadLine(t) \/ ReadEof(t)
                              \/ Register(t) \/ QuitCount(t) \/ CountClosed(t)
    PROVE  NodeParts'
<1> USE DEF clientVars, acceptVars, threadVars, tableVars
<1>1. Next
  BY DEF Next, AcceptStep, ThreadStep
<1>2. /\ sockfdNick' = sockfdNick /\ bound' = bound /\ found' = found
      /\ fds' = fds
  BY DEF ClientStep, Connect, HangUp, Send, sig_handler, OpenListener, TestRunning,
         CountAccepted, CreateThread, CreateFails, Exit, Sigpipe, StartRead, ReadLine, ReadEof,
         Register, QuitCount, CountClosed
<1>3. Ending => Ending'
  BY DEF ClientStep, Connect, HangUp, Send, sig_handler, OpenListener, TestRunning,
         CountAccepted, CreateThread, CreateFails, Exit, Sigpipe, StartRead, ReadLine, ReadEof,
         Register, QuitCount, CountClosed, Ending
<1>4. \A t \in Conn : pc'[t] \in {"del", "close"} => pc'[t] = pc[t]
  <2>1. CASE pc' = pc
    BY <2>1
  <2>2. CASE pc' # pc
    <3>1. \/ \E label \in {"read", "failed"} : pc' = [pc EXCEPT ![cur] = label]
          \/ \E t \in Conn : \E label \in PC \ {"del", "close"} : pc' = [pc EXCEPT ![t] = label]
      BY <2>2 DEF ClientStep, Connect, HangUp, Send, sig_handler, OpenListener, TestRunning,
         CountAccepted, CreateThread, CreateFails, Exit, Sigpipe, StartRead, ReadLine, ReadEof,
         Register, QuitCount, CountClosed, Goto, PC
    <3>2. QED
      BY <3>1 DEF FdInv, TypeOK
  <2>3. QED
    BY <2>1, <2>2
<1>5. QED
  BY <1>1, <1>2, <1>3, <1>4, NodeFrame

\* accept gives a free number to a client that has no node.
LEMMA AcceptNode ==
    ASSUME FdInv, NodeParts, Accept
    PROVE  NodeParts'
<1> USE DEF clientVars, acceptVars, threadVars, tableVars
<1>1. Next
  BY DEF Next, AcceptStep
<1>2. /\ sockfdNick' = sockfdNick /\ bound' = bound /\ found' = found
      /\ pc' = pc /\ ~Ending
  BY DEF Accept, Ending
<1>3. ASSUME NEW e \in sockfdNick PROVE fds'[e.fd] = e.by <=> fds[e.fd] = e.by
  <2>1. e.by \in Conn /\ e.fd \in Fd /\ fd[e.by] = e.fd /\ e.fd # 0
    BY DEF FdInv, TypeOK, NickNode, NodeParts, NodesOK, Fd
  <2>2. CASE fds' = fds
    BY <2>2
  <2>3. ASSUME NEW f \in Fd, LowestFree(f), fds' = [fds EXCEPT ![f] = Head(backlog)]
        PROVE  fds'[e.fd] = e.by <=> fds[e.fd] = e.by
    <3>1. backlog # <<>> /\ backlog \in Seq(Conn)
      BY DEF Accept, FdInv, TypeOK
    <3>2. 1 \in DOMAIN backlog /\ Head(backlog) = backlog[1]
      BY <3>1
    <3>3. fd[Head(backlog)] = 0
      BY <3>2 DEF FdInv, FdParts, BacklogOK
    <3>4. fds[f] = None
      BY <2>3 DEF LowestFree, FreeFds
    <3>5. QED
      BY <2>1, <2>3, <3>3, <3>4, NoneAssumption DEF FdInv, TypeOK
  <2>4. QED
    BY <2>2, <2>3 DEF Accept
<1>4. QED
  BY <1>1, <1>2, <1>3, NodeFrame

\* The clean-up empties the table.
LEMMA CleanupNode ==
    ASSUME FdInv, NodeParts, Cleanup
    PROVE  NodeParts'
<1> USE DEF clientVars, acceptVars, threadVars, tableVars, NodeParts
<1>1. /\ sockfdNick' = {} /\ acc' = "exit" /\ pc' = pc /\ found' = found /\ fd' = fd
  BY DEF Cleanup
<1>2. SameNumber'
  BY SameNumberStep DEF Next, AcceptStep
<1>3. NodesOK' /\ SingleOK' /\ LeavingOK' /\ BindingCurrent' /\ DeletesLive'
  BY <1>1 DEF NodesOK, SingleOK, LeavingOK, BindingCurrent, DeletesLive
<1>4. FoundOK'
  BY <1>1 DEF FoundOK
<1>5. QED
  BY <1>2, <1>3, <1>4

-----------------------------------------------------------------------------
(* The steps on nodes and descriptors *)

\* A registration puts a node in: for the thread's own client, unless a QUIT was
\* handled on the number.
LEMMA BindNode ==
    ASSUME FdInv, NodeParts, NEW t \in Conn, Bind(t)
    PROVE  NodeParts'
<1> DEFINE r == reading[t]
           new == [fd |-> fd[t], by |-> r, nth |-> bound[r] + 1]
<1> USE DEF clientVars, acceptVars, threadVars, tableVars, NodeParts
<1>1. /\ sockfdNick' = sockfdNick \union {new}
      /\ bound' = [bound EXCEPT ![r] = @ + 1]
      /\ fd' = fd /\ fds' = fds /\ quit' = quit /\ found' = found /\ acc' = acc
      /\ pc[t] = "bind" /\ pc' = [pc EXCEPT ![t] = "read"]
  BY DEF Bind, Goto
<1>2. /\ r \in Conn /\ fd[r] = fd[t] /\ Holds(t) /\ fd[t] \in Fd
  BY <1>1, HoldsFd DEF FdInv, FdParts, TypeOK, ReadingOK, SameNumber, Holds
<1>3. \A c \in Conn : QuitShared(c)' <=> QuitShared(c)
  BY <1>1 DEF QuitShared
<1>4. /\ bound \in [Conn -> Nat] /\ sockfdNick \subseteq NickNode
      /\ pc \in [Conn -> PC]
  BY DEF FdInv, TypeOK
<1>5. /\ bound'[r] = bound[r] + 1
      /\ \A c \in Conn : bound'[c] >= bound[c]
      /\ bound \in [Conn -> Nat] /\ bound' \in [Conn -> Nat]
  BY <1>1, <1>2, <1>4
<1>6. \A e \in sockfdNick : e.by \in Conn /\ e.fd \in Fd /\ e.nth \in Nat
  BY <1>4 DEF NickNode
<1>7. new.fd = fd[t] /\ new.by = r /\ new.nth = bound[r] + 1
  OBVIOUS
<1>8. r # t => QuitShared(t) /\ QuitShared(r)
  BY <1>2, NoneAssumption DEF FdInv, FdParts, ReadsOwn, QuitShared
<1> HIDE DEF r, new
<1>9. SameNumber'
  BY SameNumberStep DEF Next, ThreadStep
<1>10. FoundOK'
  BY <1>1, <1>4 DEF FoundOK
<1>11. NodesOK'
  <2>1. ASSUME NEW e \in sockfdNick PROVE e.fd = fd[e.by] /\ e.nth =< bound'[e.by]
                                          /\ bound'[e.by] >= 1
    BY <1>4, <1>5, <1>6 DEF NodesOK
  <2>2. bound'[r] >= 1
    BY <1>2, <1>5
  <2>3. QED
    BY <1>1, <1>2, <1>4, <1>7, <2>1, <2>2 DEF NodesOK
<1>12. SingleOK'
  <2>1. ASSUME NEW e \in sockfdNick, e.by = r PROVE bound'[r] > 1
    BY <1>2, <1>5, <2>1 DEF NodesOK
  <2>2. ASSUME NEW e \in sockfdNick, NEW n \in sockfdNick, e.by = n.by, e # n
        PROVE  bound'[e.by] > 1
    BY <1>5, <1>6, <2>2 DEF SingleOK
  <2>3. QED
    BY <1>1, <1>7, <2>1, <2>2 DEF SingleOK
<1>13. LeavingOK'
  <2>1. ASSUME NEW c \in Conn, pc'[c] \in {"del", "close"} PROVE pc[c] = pc'[c] /\ c # t
    BY <1>1, <1>4, <2>1
  <2>2. \A f \in Fd : RegisteredTwice(f) => RegisteredTwice(f)'
    BY NumbersKept DEF Next, ThreadStep
  <2>3. QED
    BY <1>1, <1>2, <1>3, <1>6, <1>7, <1>8, <2>1, <2>2 DEF LeavingOK
<1>14. BindingCurrent'
  <2>1. fds[new.fd] = new.by \/ QuitShared(new.by)
    BY <1>2, <1>7, <1>8 DEF FdInv, FdParts, HoldsOK
  <2>2. \A f \in Fd : RegisteredTwice(f) => RegisteredTwice(f)'
    BY NumbersKept DEF Next, ThreadStep
  <2>3. QED
    BY <1>1, <1>2, <1>3, <1>6, <1>7, <2>1, <2>2 DEF BindingCurrent
<1>15. DeletesLive'
  BY <1>1, <1>3, <1>4 DEF DeletesLive
<1>16. QED
  BY <1>9, <1>10, <1>11, <1>12, <1>13, <1>14, <1>15

\* Closing a number leaves no node behind, but for a QUIT or a second registration.
LEMMA CloseNode ==
    ASSUME FdInv, NodeParts, NEW t \in Conn, QuitClose(t) \/ CloseDescriptor(t)
    PROVE  NodeParts'
<1> USE DEF clientVars, acceptVars, threadVars, tableVars, NodeParts
<1>1. /\ sockfdNick' = sockfdNick /\ bound' = bound /\ found' = found
      /\ fds' = [fds EXCEPT ![fd[t]] = None]
      /\ fd' = fd /\ acc' = acc
      /\ pc[t] \in {"quit_close", "close"}
      /\ QuitClose(t) => t \in quit'
      /\ CloseDescriptor(t) => pc[t] = "close"
  BY DEF QuitClose, CloseDescriptor, Close
<1>2. Holds(t) /\ fd[t] \in Fd
  BY <1>1, HoldsFd DEF FdInv, FdParts, Holds
<1>3. \A e \in sockfdNick : e.by \in Conn /\ e.fd \in Fd /\ e.fd = fd[e.by]
  BY DEF FdInv, TypeOK, NickNode, NodesOK
<1>4. ASSUME NEW d \in Conn, pc'[d] \in {"del", "close"} PROVE pc[d] = pc'[d]
  BY <1>4 DEF QuitClose, CloseDescriptor, Goto, FdInv, TypeOK
<1>5. Next
  BY DEF Next, ThreadStep
<1>6. \A e \in sockfdNick : fds'[e.fd] = e.by => fds[e.fd] = e.by
  BY <1>1, <1>2, <1>3, NoneAssumption DEF FdInv, TypeOK
<1>7. NodesOK' /\ SingleOK'
  BY <1>1, <1>5, <1>6, NodesFrame
<1>8. FoundOK'
  BY <1>1, <1>4 DEF FoundOK
<1>9. LeavingOK'
  BY <1>1, <1>3, <1>4, <1>5, NumbersKept DEF LeavingOK
<1>10. DeletesLive'
  BY <1>1, <1>4, <1>5, NumbersKept DEF DeletesLive
<1>11. BindingCurrent'
  <2> SUFFICES ASSUME NEW e \in sockfdNick
               PROVE  \/ fds'[e.fd] = e.by \/ QuitShared(e.by)'
                      \/ RegisteredTwice(e.fd)'
    BY <1>1 DEF BindingCurrent
  <2>1. fds[e.fd] = e.by \/ QuitShared(e.by) \/ RegisteredTwice(e.fd)
    BY DEF BindingCurrent
  <2>8. RegisteredTwice(e.fd) => RegisteredTwice(e.fd)'
    BY <1>3, <1>5, NumbersKept
  <2>2. CASE QuitShared(e.by)
    BY <1>3, <1>5, <2>2, NumbersKept
  <2>3. CASE fds[e.fd] = e.by /\ e.fd # fd[t]
    BY <1>1, <1>3, <2>3 DEF FdInv, TypeOK
  <2>4. CASE fds[e.fd] = e.by /\ e.fd = fd[t] /\ QuitClose(t)
    BY <1>1, <1>3, <2>4 DEF QuitShared
  <2>5. CASE fds[e.fd] = e.by /\ e.fd = fd[t] /\ e.by # t
    <3>1. QuitShared(e.by)
      BY <1>2, <1>3, <2>5, SharedHold
    <3>2. QED
      BY <2>2, <3>1
  <2>6. CASE fds[e.fd] = e.by /\ e.by = t /\ CloseDescriptor(t)
    <3>1. QuitShared(e.by) \/ RegisteredTwice(e.fd)
      BY <1>1, <2>6 DEF LeavingOK
    <3>2. QED
      BY <2>2, <2>8, <3>1
  <2>7. QED
    BY <2>1, <2>2, <2>3, <2>4, <2>5, <2>6, <2>8
<1>12. QED
  BY <1>5, <1>7, <1>8, <1>9, <1>10, <1>11, SameNumberStep

\* The search finds the client's own node, if there is one and neither a QUIT nor a
\* second registration happened on the number: no former owner has left a node.
LEMMA FindNodeStep ==
    ASSUME FdInv, NodeParts, NEW t \in Conn, FindNode(t)
    PROVE  NodeParts'
<1> USE DEF clientVars, acceptVars, threadVars, tableVars, NodeParts
<1>1. /\ sockfdNick' = sockfdNick /\ bound' = bound /\ fds' = fds
      /\ fd' = fd /\ acc' = acc /\ quit' = quit
      /\ pc[t] = "find" /\ pc' = [pc EXCEPT ![t] = "del"]
  BY DEF FindNode, Goto
<1>2. PICK n \in sockfdNick \union {None} : /\ find_sockfd_nick_map_node(fd[t], n)
                                            /\ found' = [found EXCEPT ![t] = n]
  BY DEF FindNode
<1>3. Holds(t) /\ fd[t] \in Fd
  BY <1>1, HoldsFd DEF FdInv, FdParts, Holds
<1>4. \A e \in sockfdNick : e.by \in Conn /\ e.fd \in Fd /\ e.fd = fd[e.by]
  BY DEF FdInv, TypeOK, NickNode, NodesOK
<1>5. /\ found'[t] = n /\ pc'[t] = "del"
      /\ \A d \in Conn \ {t} : pc'[d] = pc[d] /\ found'[d] = found[d]
  BY <1>1, <1>2 DEF FdInv, TypeOK
<1>6. Next
  BY DEF Next, ThreadStep
<1>7. NodesOK' /\ SingleOK'
  BY <1>1, <1>6, NodesFrame
<1>8. FoundOK'
  <2>1. n # None => n.fd = fd[t]
    BY <1>2 DEF find_sockfd_nick_map_node
  <2>2. QED
    BY <1>1, <1>5, <2>1 DEF FoundOK
<1>9. LeavingOK'
  <2>1. ASSUME NEW e \in sockfdNick, e.by = t
        PROVE  e = n \/ QuitShared(t) \/ RegisteredTwice(e.fd)
    <3>1. e.fd = fd[t]
      BY <1>4, <2>1
    <3>2. n \in sockfdNick /\ n.fd = fd[t]
      BY <1>2, <3>1 DEF find_sockfd_nick_map_node
    <3>3. CASE n.by = t
      BY <1>4, <2>1, <3>1, <3>2, <3>3 DEF SingleOK, RegisteredTwice
    <3>4. CASE n.by # t
      <4>1. fds[n.fd] = t \/ QuitShared(t)
        BY <1>3, <3>2 DEF FdInv, FdParts, HoldsOK
      <4>2. QuitShared(n.by) => QuitShared(t)
        BY <1>4, <3>2 DEF QuitShared
      <4>3. QED
        BY <3>1, <3>2, <3>4, <4>1, <4>2 DEF BindingCurrent
    <3>5. QED
      BY <3>3, <3>4
  <2>2. QuitShared(t)' <=> QuitShared(t)
    BY <1>1 DEF QuitShared
  <2>3. ASSUME NEW e \in sockfdNick, e.by # t
        PROVE  /\ pc'[e.by] = pc[e.by] /\ found'[e.by] = found[e.by]
               /\ QuitShared(e.by) => QuitShared(e.by)'
    BY <1>4, <1>5, <1>6, <2>3, NumbersKept
  <2>4. \A e \in sockfdNick : RegisteredTwice(e.fd) => RegisteredTwice(e.fd)'
    BY <1>4, <1>6, NumbersKept
  <2>5. QED
    BY <1>1, <1>5, <2>1, <2>2, <2>3, <2>4 DEF LeavingOK
<1>10. BindingCurrent'
  BY <1>1, <1>4, <1>6, NumbersKept DEF BindingCurrent
<1>11. DeletesLive'
  BY <1>1, <1>5, <1>6, NumbersKept DEF DeletesLive
<1>12. QED
  BY <1>6, <1>7, <1>8, <1>9, <1>10, <1>11, SameNumberStep

\* A deletion takes no node that another thread is to delete, unless a QUIT was
\* handled on their number.
LEMMA DeleteNodeStep ==
    ASSUME FdInv, NodeParts, NEW t \in Conn, DeleteNode(t) \/ DeleteStale(t)
    PROVE  NodeParts'
<1> USE DEF clientVars, acceptVars, threadVars, tableVars, NodeParts
<1>1. /\ bound' = bound /\ fds' = fds
      /\ fd' = fd /\ quit' = quit /\ found' = found /\ acc' \in {acc, "killed"}
      /\ pc[t] = "del" /\ pc' = [pc EXCEPT ![t] = "close"]
  BY DEF DeleteNode, DeleteStale, Goto
<1>2. sockfdNick' = sockfdNick \ {found[t]}
  BY DEF DeleteNode, DeleteStale
<1>3. Holds(t) /\ fd[t] \in Fd
  BY <1>1, HoldsFd DEF FdInv, FdParts, Holds
<1>4. \A e \in sockfdNick : e.by \in Conn /\ e.fd \in Fd /\ e.fd = fd[e.by]
  BY DEF FdInv, TypeOK, NickNode, NodesOK
<1>5. pc'[t] = "close" /\ \A d \in Conn \ {t} : pc'[d] = pc[d]
  BY <1>1 DEF FdInv, TypeOK
<1>6. Next
  BY DEF Next, ThreadStep
<1>7. NodesOK' /\ SingleOK'
  BY <1>1, <1>2, <1>6, NodesFrame
<1>8. FoundOK'
  BY <1>1, <1>5 DEF FoundOK
<1>9. LeavingOK'
  <2> SUFFICES ASSUME NEW e \in sockfdNick, e # found[t]
               PROVE  /\ pc'[e.by] = "del" => \/ e = found[e.by] \/ QuitShared(e.by)'
                                              \/ RegisteredTwice(e.fd)'
                      /\ pc'[e.by] = "close" => QuitShared(e.by)' \/ RegisteredTwice(e.fd)'
    BY <1>1, <1>2 DEF LeavingOK
  <2>1. /\ QuitShared(e.by) => QuitShared(e.by)'
        /\ RegisteredTwice(e.fd) => RegisteredTwice(e.fd)'
    BY <1>4, <1>6, NumbersKept
  <2>2. CASE e.by = t
    BY <1>1, <1>5, <2>1, <2>2 DEF LeavingOK
  <2>3. CASE e.by # t
    BY <1>4, <1>5, <2>1, <2>3 DEF LeavingOK
  <2>4. QED
    BY <2>2, <2>3
<1>10. BindingCurrent'
  BY <1>1, <1>2, <1>4, <1>6, NumbersKept DEF BindingCurrent
<1>11. DeletesLive'
  <2> SUFFICES ASSUME NEW d \in Conn, pc'[d] = "del", found[d] # None,
                      acc \notin {"exit", "down", "killed"}
               PROVE  found[d] \in sockfdNick' \/ QuitShared(d)'
    BY <1>1 DEF DeletesLive
  <2>1. d # t /\ pc[d] = "del"
    BY <1>5
  <2>2. found[d] \in sockfdNick \/ QuitShared(d)
    BY <2>1 DEF DeletesLive
  <2>3. CASE found[d] # found[t]
    BY <1>2, <1>6, <2>2, <2>3, NumbersKept
  <2>4. CASE found[d] = found[t]
    <3>1. fd[d] = fd[t]
      BY <1>1, <2>1, <2>4 DEF FoundOK
    <3>2. Holds(d)
      BY <2>1 DEF Holds
    <3>3. QED
      BY <1>3, <1>6, <2>1, <3>1, <3>2, SharedHold, NumbersKept
  <2>5. QED
    BY <2>3, <2>4
<1>12. QED
  BY <1>6, <1>7, <1>8, <1>9, <1>10, <1>11, SameNumberStep

-----------------------------------------------------------------------------
(* Theorems *)

LEMMA NodeInvCorrect == Spec => []NodeInv
<1>1. Init => NodeParts
  BY DEF Init, NodeParts, SameNumber, FoundOK, NodesOK, SingleOK, LeavingOK,
         BindingCurrent, DeletesLive
<1>2. FdInv /\ NodeParts /\ [Next]_vars => NodeParts'
  <2>1. ASSUME NodeParts, UNCHANGED vars PROVE NodeParts'
    BY <2>1 DEF vars, acceptVars, threadVars, tableVars, NodeParts, SameNumber, FoundOK,
       NodesOK, SingleOK, LeavingOK, BindingCurrent, DeletesLive, QuitShared,
       RegisteredTwice
  <2>2. ASSUME FdInv, NodeParts, Next PROVE NodeParts'
    BY <2>2, QuietNodeSteps, AcceptNode, CleanupNode, BindNode, CloseNode, FindNodeStep,
       DeleteNodeStep DEF Next, AcceptStep, ThreadStep
  <2>3. QED
    BY <2>1, <2>2
<1>3. QED
  BY <1>1, <1>2, FdCorrect, PTL DEF Spec, NodeInv

\* The node a thread has found is still in the table when it deletes it, unless a
\* QUIT was handled on its number or the server is cleaning up.
THEOREM DeletesLiveCorrect == Spec => []DeletesLive
<1>1. NodeInv => DeletesLive
  BY DEF NodeInv, NodeParts
<1>2. QED
  BY <1>1, NodeInvCorrect, PTL

\* A node that outlives its connection comes from a QUIT or from a second
\* registration, for any number of clients and descriptors.
THEOREM BindingCurrentCorrect == Spec => []BindingCurrent
<1>1. NodeInv => BindingCurrent
  BY DEF NodeInv, NodeParts
<1>2. QED
  BY <1>1, NodeInvCorrect, PTL

=============================================================================
