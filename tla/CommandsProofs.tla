----------------------------- MODULE CommandsProofs -----------------------------
(***************************************************************************)
(* UndefinedJustified, LusersCounts and ParsesAsGrammar, for any           *)
(* connections, lines, sizes and bounds, and the types of the variables    *)
(* that they rest on.                                                      *)
(***************************************************************************)
EXTENDS Commands, SequenceLemmas

-----------------------------------------------------------------------------
(* The inductive invariant *)

OnConn(f) == f = [d \in Conn |-> f[d]]
IsSequence(s) == s \in Seq({s[i] : i \in DOMAIN s})

\* Each local variable has a value for each thread.
Shape ==
    /\ OnConn(pc) /\ OnConn(msg) /\ OnConn(loaded) /\ OnConn(target)
    /\ OnConn(iter) /\ OnConn(opened) /\ OnConn(started)

\* The nodes of connections: who registers has been accepted, and a name is
\* registered once, after both lists have it.
TablesOK ==
    /\ IsSequence(connections) /\ IsSequence(sockfdNick)
    /\ IsSequence(nick_head) /\ IsSequence(user_head)
    /\ nodes \in Nat /\ Len(sockfdNick) =< nodes /\ connection_count \in Int
    /\ \A i \in DOMAIN sockfdNick : sockfdNick[i].fd \in Conn /\ sockfdNick[i].node \in 0..(nodes - 1)
    /\ \A i \in DOMAIN connections :
          /\ DOMAIN connections[i] = {"name", "fd", "msg", "live"}
          /\ connections[i].fd \in Conn /\ connections[i].live \in BOOLEAN
          /\ pc[connections[i].fd] # "none"
          /\ find_user_node(nick_head, connections[i].name)
          /\ find_user_node(user_head, connections[i].name)
    /\ \A i, j \in DOMAIN connections : connections[i].name = connections[j].name => i = j

HistoryOK ==
    /\ again \subseteq sent
    /\ \A p \in sent : p = <<p[1], p[2]>> /\ p[1] \in Conn /\ p[2] # NULL /\ p[2].rc \in {0, -1}

\* The thread counts users as a part of a registration, whose bind is still to come.
Binding(c) ==
    pc[c] \in {"users", "users_iter", "unknown_iter", "clients", "bind"} /\ Registering(c)

OwnTypes(c) ==
    /\ pc[c] \in PCs
    /\ loaded[c] \in Nat \union {NULL}
    /\ target[c] \in 0..Len(connections)
    /\ iter[c] \in (0..Len(connections)) \X BOOLEAN
    /\ opened[c] \in Int \union {NULL}
    /\ started[c] \in 0..nodes

MsgOK(c) ==
    /\ msg[c] # NULL => <<c, msg[c]>> \in sent /\ msg[c].rc = 0
    /\ pc[c] \in {"users", "bind"} => Registering(c)

\* The node WHOIS has found is the one it was asked for.
TargetOK(c) ==
    target[c] # 0 => /\ pc[c] \in {"whois", "find", "free"}
                     /\ Handles(c, "WHOIS") /\ nparams(c) = 1
                     /\ connections[target[c]].name = name(c)

\* The head that is searched from is in the list, unless another client has left;
\* there is none only when the client has no name.
LoadedOK(c) ==
    pc[c] \in {"find", "delete"} =>
        IF loaded[c] = NULL THEN pc[c] = "find" => NamesOf(c) = {}
        ELSE \/ \E i \in DOMAIN sockfdNick : sockfdNick[i].node = loaded[c]
             \/ \E d \in Conn \ {c} : pc[d] = "gone"

\* A client with a name has its descriptor in the table, until it has left.
NickOK(c) ==
    NamesOf(c) # {} /\ pc[c] # "gone" /\ ~Binding(c) =>
        \E i \in DOMAIN sockfdNick : sockfdNick[i].fd = c

\* The count does not end before it has met the users there were.
CountOK(c) ==
    /\ iter[c][2] => iter[c][1] < Len(connections)
    /\ started[c] =< Len(connections)
    /\ pc[c] = "users_iter" /\ ~iter[c][2] => started[c] =< iter[c][1]

Own(c) == OwnTypes(c) /\ MsgOK(c) /\ TargetOK(c) /\ LoadedOK(c) /\ NickOK(c) /\ CountOK(c)

\* A message is freed by the thread of a WHOIS that is over, or has been repeated.
DeadOK ==
    \A i \in DOMAIN connections :
        ~connections[i].live => \E p \in Asking(connections[i].name) :
                                    p \in again \/ msg[p[1]] # p[2]

Binders == {c \in Conn : Binding(c)}
Accepted == {c \in Conn : pc[c] # "none"}

\* There is a node of connections for each descriptor with a nick, and for each that
\* is about to get one.
RoomOK ==
    /\ IsFiniteSet(Binders) /\ IsFiniteSet(Accepted)
    /\ Len(sockfdNick) + Cardinality(Binders) =< Len(connections)

CommandsInv ==
    /\ Shape /\ TablesOK /\ HistoryOK /\ DeadOK /\ RoomOK
    /\ \A c \in Conn : Own(c)

-----------------------------------------------------------------------------
(* The local variables *)

\* A step of c leaves the local variables of the other threads alone.
Frame(c) ==
    /\ Shape'
    /\ \A d \in Conn \ {c} :
          /\ pc'[d] = pc[d] /\ msg'[d] = msg[d] /\ loaded'[d] = loaded[d] /\ target'[d] = target[d]
          /\ iter'[d] = iter[d] /\ opened'[d] = opened[d] /\ started'[d] = started[d]

LEMMA ExceptConn ==
    ASSUME NEW f, OnConn(f), NEW c \in Conn, NEW v, NEW g, g = [f EXCEPT ![c] = v]
    PROVE  OnConn(g) /\ g[c] = v /\ \A d \in Conn \ {c} : g[d] = f[d]
  BY DEF OnConn

LEMMA GotoFrame ==
    ASSUME OnConn(pc), NEW c \in Conn, NEW label, Goto(c, label)
    PROVE  OnConn(pc)' /\ pc'[c] = label /\ \A d \in Conn \ {c} : pc'[d] = pc[d]
<1>1. pc' = [pc EXCEPT ![c] = label]
  BY DEF Goto
<1>2. QED
  BY <1>1 DEF OnConn

\* What is left when a handler is done.
LEMMA DoneFrame ==
    ASSUME Shape, NEW c \in Conn, Done(c)
    PROVE  /\ Frame(c)
           /\ pc'[c] = "read" /\ msg'[c] = NULL /\ loaded'[c] = NULL /\ target'[c] = 0
           /\ iter'[c] = <<0, FALSE>> /\ opened'[c] = NULL /\ started'[c] = 0
<1>1. OnConn(pc)' /\ pc'[c] = "read" /\ \A d \in Conn \ {c} : pc'[d] = pc[d]
  BY GotoFrame DEF Done, Shape
<1>2. OnConn(msg)' /\ msg'[c] = NULL /\ \A d \in Conn \ {c} : msg'[d] = msg[d]
  BY DEF Done, Shape, OnConn
<1>3. OnConn(loaded)' /\ loaded'[c] = NULL /\ \A d \in Conn \ {c} : loaded'[d] = loaded[d]
  BY DEF Done, Shape, OnConn
<1>4. OnConn(target)' /\ target'[c] = 0 /\ \A d \in Conn \ {c} : target'[d] = target[d]
  BY DEF Done, Shape, OnConn
<1>5. OnConn(iter)' /\ iter'[c] = <<0, FALSE>> /\ \A d \in Conn \ {c} : iter'[d] = iter[d]
  BY DEF Done, Shape, OnConn
<1>6. OnConn(opened)' /\ opened'[c] = NULL /\ \A d \in Conn \ {c} : opened'[d] = opened[d]
  BY DEF Done, Shape, OnConn
<1>7. OnConn(started)' /\ started'[c] = 0 /\ \A d \in Conn \ {c} : started'[d] = started[d]
  BY DEF Done, Shape, OnConn
<1>8. QED
  BY <1>1, <1>2, <1>3, <1>4, <1>5, <1>6, <1>7, Zenon DEF Frame, Shape

-----------------------------------------------------------------------------
(* Sequences and numbers *)

\* t is s and x behind it.
Appended(s, x, t) ==
    /\ IsSequence(t) /\ Len(t) = Len(s) + 1 /\ t[Len(s) + 1] = x /\ Len(s) \in Nat
    /\ DOMAIN s = 1..Len(s) /\ DOMAIN t = 1..Len(s) + 1
    /\ \A i \in 1..Len(s) : t[i] = s[i]

LEMMA AppendSeq ==
    ASSUME NEW s, IsSequence(s), NEW x, NEW t, t = Append(s, x)
    PROVE  Appended(s, x, t)
<1> DEFINE S == {s[i] : i \in DOMAIN s}
           T == S \union {x}
<1>1. s \in Seq(T)
  BY DEF IsSequence
<1>2. x \in T
  OBVIOUS
<1> HIDE DEF S, T
<1>3. /\ t \in Seq(T) /\ Len(t) = Len(s) + 1 /\ t[Len(s) + 1] = x /\ Len(s) \in Nat
      /\ DOMAIN s = 1..Len(s) /\ DOMAIN t = 1..Len(t)
      /\ \A i \in 1..Len(s) : t[i] = s[i]
  BY <1>1, <1>2
<1>4. t \in Seq({t[i] : i \in DOMAIN t})
  BY <1>3
<1>5. QED
  BY <1>3, <1>4 DEF IsSequence, Appended

LEMMA SequenceLen ==
    ASSUME NEW s, IsSequence(s)
    PROVE  Len(s) \in Nat /\ DOMAIN s = 1..Len(s)
<1> DEFINE S == {s[i] : i \in DOMAIN s}
<1>1. s \in Seq(S)
  BY DEF IsSequence
<1> HIDE DEF S
<1>2. QED
  BY <1>1

-----------------------------------------------------------------------------
(* What a step of one thread does to the others *)

\* The tables keep what the other threads know of them: nodes of connections stay
\* where they are, and no descriptor but that of a client that leaves loses its nick.
Grows(c) ==
    /\ Len(connections) =< Len(connections')
    /\ DOMAIN connections \subseteq DOMAIN connections'
    /\ \A i \in DOMAIN connections : /\ connections'[i].name = connections[i].name
                                     /\ connections'[i].fd = connections[i].fd
    /\ \A i \in DOMAIN connections' \ DOMAIN connections : connections'[i].fd = c
    /\ \A i \in DOMAIN sockfdNick :
          \/ \E j \in DOMAIN sockfdNick' : /\ sockfdNick'[j].fd = sockfdNick[i].fd
                                           /\ sockfdNick'[j].node = sockfdNick[i].node
          \/ sockfdNick[i].fd = c /\ pc'[c] = "gone"
    /\ nodes =< nodes' /\ nodes' \in Nat /\ Len(connections') \in Nat
    /\ sent \subseteq sent' /\ again \subseteq again'
    /\ pc[c] = "gone" => pc'[c] = "gone"

LEMMA NamesKept ==
    ASSUME NEW c \in Conn, NEW d \in Conn \ {c}, Grows(c)
    PROVE  NamesOf(d)' = NamesOf(d)
<1>1. \A i : i \in DOMAIN connections' /\ connections'[i].fd = d
             <=> i \in DOMAIN connections /\ connections[i].fd = d
  BY DEF Grows
<1>2. \A i \in DOMAIN connections : connections'[i].name = connections[i].name
  BY DEF Grows
<1>3. QED
  BY <1>1, <1>2 DEF NamesOf

LEMMA OwnKept ==
    ASSUME CommandsInv, NEW c \in Conn, NEW d \in Conn \ {c}, Frame(c), Grows(c)
    PROVE  Own(d)'
<1>1. /\ pc'[d] = pc[d] /\ msg'[d] = msg[d] /\ loaded'[d] = loaded[d] /\ target'[d] = target[d]
      /\ iter'[d] = iter[d] /\ opened'[d] = opened[d] /\ started'[d] = started[d]
  BY DEF Frame
<1>2. Own(d) /\ nodes \in Nat /\ Len(connections) \in Nat /\ DOMAIN connections = 1..Len(connections)
  BY SequenceLen DEF CommandsInv, TablesOK
<1>3. OwnTypes(d)'
  BY <1>1, <1>2 DEF Own, OwnTypes, Grows
<1>4. (Registering(d)' <=> Registering(d)) /\ (Handles(d, "WHOIS")' <=> Handles(d, "WHOIS"))
      /\ nparams(d)' = nparams(d) /\ name(d)' = name(d)
  BY <1>1 DEF Registering, Handles, nparams, name, params
<1>5. MsgOK(d)'
  BY <1>1, <1>2, <1>4 DEF Own, MsgOK, Grows
<1>6. TargetOK(d)'
  <2> SUFFICES ASSUME target'[d] # 0 PROVE TargetOK(d)'
    BY DEF TargetOK
  <2>1. target[d] \in DOMAIN connections
    BY <1>1, <1>2 DEF Own, OwnTypes
  <2>2. connections'[target'[d]].name = connections[target[d]].name
    BY <1>1, <2>1 DEF Grows
  <2>3. QED
    BY <1>1, <1>2, <1>4, <2>2 DEF Own, TargetOK
<1>7. NamesOf(d)' = NamesOf(d)
  BY NamesKept
<1>8. LoadedOK(d)'
  <2> SUFFICES ASSUME pc[d] \in {"find", "delete"} PROVE LoadedOK(d)'
    BY <1>1 DEF LoadedOK
  <2>1. CASE loaded[d] = NULL
    BY <1>1, <1>2, <1>7, <2>1 DEF Own, LoadedOK
  <2>2. ASSUME loaded[d] # NULL, NEW i \in DOMAIN sockfdNick, sockfdNick[i].node = loaded[d]
        PROVE  LoadedOK(d)'
    <3>1. CASE \E j \in DOMAIN sockfdNick' : sockfdNick'[j].node = loaded[d]
      BY <1>1, <2>2, <3>1 DEF LoadedOK
    <3>2. CASE pc'[c] = "gone"
      BY <1>1, <2>2, <3>2 DEF LoadedOK
    <3>3. QED
      BY <2>2, <3>1, <3>2 DEF Grows
  <2>3. ASSUME loaded[d] # NULL, NEW e \in Conn \ {d}, pc[e] = "gone" PROVE LoadedOK(d)'
    <3>1. pc'[e] = "gone"
      BY <2>3 DEF Frame, Grows
    <3>2. QED
      BY <1>1, <2>3, <3>1 DEF LoadedOK
  <2>4. QED
    BY <1>2, <2>1, <2>2, <2>3 DEF Own, LoadedOK
<1>9. NickOK(d)'
  <2>1. Binding(d)' <=> Binding(d)
    BY <1>1, <1>4 DEF Binding
  <2>2. \A i \in DOMAIN sockfdNick :
            sockfdNick[i].fd = d => \E j \in DOMAIN sockfdNick' : sockfdNick'[j].fd = d
    BY DEF Grows
  <2>3. QED
    BY <1>1, <1>2, <1>7, <2>1, <2>2 DEF Own, NickOK
<1>10. CountOK(d)'
  BY <1>1, <1>2 DEF Own, CountOK, OwnTypes, Grows
<1>11. QED
  BY <1>3, <1>5, <1>6, <1>8, <1>9, <1>10 DEF Own

\* A message stays as it is, or is freed by a thread that holds a WHOIS.
LEMMA DeadKept ==
    ASSUME CommandsInv, NEW c \in Conn, Grows(c),
           \A i \in DOMAIN connections : connections[i].live => connections'[i].live,
           \A i \in DOMAIN connections' \ DOMAIN connections : connections'[i].live,
           \A p \in sent : msg[p[1]] # p[2] => msg'[p[1]] # p[2] \/ p \in again'
    PROVE  DeadOK'
<1> SUFFICES ASSUME NEW i \in DOMAIN connections', ~connections'[i].live,
                    NEW n, n = connections'[i].name
             PROVE  \E p \in Asking(n)' : p \in again' \/ msg'[p[1]] # p[2]
  BY DEF DeadOK, Asking
<1>1. i \in DOMAIN connections /\ ~connections[i].live
  OBVIOUS
<1>2. PICK p \in Asking(connections[i].name) : p \in again \/ msg[p[1]] # p[2]
  BY <1>1 DEF CommandsInv, DeadOK
<1>3. p \in Asking(n)' /\ p \in sent
  BY <1>1, <1>2 DEF Asking, Grows
<1>4. p \in again' \/ msg'[p[1]] # p[2]
  BY <1>2, <1>3 DEF Grows
<1>5. QED
  BY <1>3, <1>4

\* The names in the two lists stay there.
HeadsGrow ==
    /\ IsSequence(nick_head)' /\ IsSequence(user_head)'
    /\ \A i \in DOMAIN connections :
          /\ find_user_node(nick_head', connections[i].name)
          /\ find_user_node(user_head', connections[i].name)

LEMMA HeadsKept ==
    ASSUME CommandsInv, UNCHANGED <<nick_head, user_head>>
    PROVE  HeadsGrow
  BY DEF CommandsInv, TablesOK, HeadsGrow

\* A step that leaves the hash tables and the history alone.
LEMMA LocalStep ==
    ASSUME CommandsInv, NEW c \in Conn, Frame(c),
           UNCHANGED <<connections, sockfdNick, nodes, sent, again>>, HeadsGrow,
           connection_count' \in Int,
           msg'[c] \in {msg[c], NULL}, pc[c] # "none", pc'[c] # "none", pc[c] # "gone",
           Binding(c)' <=> Binding(c), Own(c)'
    PROVE  CommandsInv'
<1>1. Shape' /\ TablesOK /\ HistoryOK /\ DeadOK /\ RoomOK
  BY DEF Frame, CommandsInv
<1>2. Grows(c)
  BY <1>1, SequenceLen DEF TablesOK, Grows
<1>3. \A d \in Conn : Own(d)'
  <2> TAKE d \in Conn
  <2>1. CASE d = c
    BY <2>1
  <2>2. CASE d # c
    BY <1>2, <2>2, OwnKept
  <2>3. QED
    BY <2>1, <2>2
<1>4. TablesOK'
  BY <1>1 DEF TablesOK, Frame, HeadsGrow, find_user_node
<1>5. HistoryOK'
  BY <1>1 DEF HistoryOK
<1>6. DeadOK'
  <2>1. \A p \in sent : msg[p[1]] # p[2] => msg'[p[1]] # p[2]
    BY <1>1 DEF HistoryOK, Frame
  <2>2. QED
    BY <1>2, <2>1, DeadKept
<1>7. RoomOK'
  <2>1. \A d \in Conn : Binding(d)' <=> Binding(d)
    <3> TAKE d \in Conn
    <3>1. CASE d # c
      BY <3>1 DEF Frame, Binding, Registering, Handles
    <3>2. QED
      BY <3>1
  <2>2. Binders' = Binders
    BY <2>1 DEF Binders
  <2>3. Accepted' = Accepted
    BY DEF Accepted, Frame
  <2>4. QED
    BY <1>1, <2>2, <2>3 DEF RoomOK
<1>8. QED
  BY <1>1, <1>3, <1>4, <1>5, <1>6, <1>7 DEF CommandsInv

LEMMA Unmoved ==
    ASSUME CommandsInv, UNCHANGED <<tables, pc, local, sent, again>>
    PROVE  CommandsInv'
<1>1. /\ UNCHANGED <<msg, loaded, self, target, iter, opened, started>>
      /\ UNCHANGED <<nick_head, user_head, connections, sockfdNick, nodes, connection_count>>
  BY DEF local, tables
<1>2. Shape' /\ TablesOK' /\ HistoryOK' /\ DeadOK'
  BY <1>1 DEF CommandsInv, Shape, OnConn, TablesOK, HistoryOK, DeadOK, Asking, find_user_node
<1>3. RoomOK'
  BY <1>1 DEF CommandsInv, RoomOK, Binders, Binding, Registering, Handles, Accepted
<1>4. ASSUME NEW c \in Conn PROVE Own(c)'
  <2>1. Own(c)
    BY DEF CommandsInv
  <2>2. OwnTypes(c)' /\ CountOK(c)'
    BY <1>1, <2>1 DEF Own, OwnTypes, CountOK
  <2>3. MsgOK(c)' /\ TargetOK(c)'
    BY <1>1, <2>1 DEF Own, MsgOK, TargetOK, Registering, Handles, nparams, params, name
  <2>4. LoadedOK(c)' /\ NickOK(c)'
    BY <1>1, <2>1 DEF Own, LoadedOK, NickOK, NamesOf, Binding, Registering, Handles
  <2>5. QED
    BY <2>2, <2>3, <2>4 DEF Own
<1>5. QED
  BY <1>2, <1>3, <1>4 DEF CommandsInv

KeptHash ==
    /\ UNCHANGED <<connections, sockfdNick, nodes, sent, again>>
    /\ connection_count' \in Int

Kept ==
    /\ UNCHANGED <<nick_head, user_head, connections, sockfdNick, nodes, sent, again>>
    /\ connection_count' \in Int

\* A thread that waits for a line keeps nothing of the last one.
LEMMA RestTypes ==
    ASSUME NEW c \in Conn, Len(connections') \in Nat, nodes' \in Nat,
           pc'[c] = "read", loaded'[c] = NULL, target'[c] = 0,
           iter'[c] = <<0, FALSE>>, opened'[c] = NULL, started'[c] = 0
    PROVE  OwnTypes(c)' /\ CountOK(c)'
<1>1. iter'[c] \in (0..Len(connections')) \X BOOLEAN /\ iter'[c][2] = FALSE
  <2>1. 0 \in 0..Len(connections')
    OBVIOUS
  <2>2. <<0, FALSE>>[2] = FALSE
    OBVIOUS
  <2>3. iter'[c] = <<0, FALSE>>
    OBVIOUS
  <2>4. <<0, FALSE>> \in (0..Len(connections')) \X BOOLEAN
    BY <2>1
  <2>5. QED
    BY <2>2, <2>3, <2>4
<1>2. pc'[c] \in PCs /\ target'[c] \in 0..Len(connections') /\ started'[c] \in 0..nodes'
      /\ started'[c] =< Len(connections')
  BY DEF PCs
<1>3. OwnTypes(c)'
  BY <1>1, <1>2 DEF OwnTypes
<1>4. CountOK(c)'
  BY <1>1, <1>2 DEF CountOK
<1>5. QED
  BY <1>3, <1>4

\* A handler that ends and has changed none of the tables.
LEMMA DoneStep ==
    ASSUME CommandsInv, NEW c \in Conn, Done(c), KeptHash, HeadsGrow,
           pc[c] # "none", pc[c] # "gone", ~Binding(c)
    PROVE  CommandsInv'
<1>1. /\ Frame(c)
      /\ pc'[c] = "read" /\ msg'[c] = NULL /\ loaded'[c] = NULL /\ target'[c] = 0
      /\ iter'[c] = <<0, FALSE>> /\ opened'[c] = NULL /\ started'[c] = 0
  BY DoneFrame DEF CommandsInv
<1>2. /\ Own(c) /\ nodes \in Nat /\ Len(connections) \in Nat
      /\ UNCHANGED <<connections, sockfdNick, nodes, sent, again>>
      /\ connection_count' \in Int
  BY SequenceLen DEF CommandsInv, TablesOK, KeptHash
<1>3. ~Binding(c)'
  BY <1>1 DEF Binding
<1>4. OwnTypes(c)' /\ CountOK(c)'
  BY <1>1, <1>2, RestTypes
<1>5. MsgOK(c)' /\ TargetOK(c)' /\ LoadedOK(c)'
  BY <1>1 DEF MsgOK, TargetOK, LoadedOK
<1>6. NickOK(c)'
  BY <1>1, <1>2 DEF Own, NickOK, NamesOf
<1>7. Own(c)'
  BY <1>4, <1>5, <1>6 DEF Own
<1>8. QED
  BY <1>1, <1>2, <1>3, <1>7, LocalStep

LEMMA EndSteps ==
    ASSUME CommandsInv, NEW c \in Conn,
           \/ response_PING(c) \/ Pong(c) \/ MotdFound(c) \/ UnknownFound(c)
           \/ WhoisIgnored(c) \/ WhoisNone(c) \/ PrivmsgKnown(c) \/ PrivmsgUnknown(c)
           \/ NickRefused(c) \/ UserRefused(c)
    PROVE  CommandsInv'
<1>0. connection_count \in Int
  BY DEF CommandsInv, TablesOK
<1>1. Done(c) /\ Kept /\ pc[c] \in {"dispatch", "find"}
  <2>1. CASE response_PING(c) \/ Pong(c) \/ WhoisIgnored(c)
    BY <1>0, <2>1 DEF response_PING, Pong, WhoisIgnored, Dispatched, At, Kept, tables, history
  <2>2. CASE MotdFound(c) \/ UnknownFound(c) \/ WhoisNone(c)
    BY <1>0, <2>2 DEF MotdFound, UnknownFound, WhoisNone, AtFind, At, Kept, tables, history
  <2>3. CASE PrivmsgKnown(c) \/ PrivmsgUnknown(c)
    BY <1>0, <2>3 DEF PrivmsgKnown, PrivmsgUnknown, Dispatched, At, Kept, tables, history
  <2>4. CASE NickRefused(c) \/ UserRefused(c)
    BY <1>0, <2>4 DEF NickRefused, UserRefused, Dispatched, At, Kept, tables, history
  <2>5. QED
    BY <2>1, <2>2, <2>3, <2>4
<1>2. ~Binding(c)
  BY <1>1 DEF Binding
<1>3. QED
  BY <1>1, <1>2, DoneStep, HeadsKept DEF Kept, KeptHash

\* A step inside a handler, up to its effect on the thread itself.
LEMMA WithinStep ==
    ASSUME CommandsInv, NEW c \in Conn, Frame(c), Kept, msg'[c] \in {msg[c], NULL},
           pc[c] \notin {"none", "gone"}, pc'[c] \notin {"none", "gone"},
           Binding(c)' <=> Binding(c),
           OwnTypes(c)', MsgOK(c)', TargetOK(c)', LoadedOK(c)', CountOK(c)'
    PROVE  CommandsInv'
<1>1. Own(c)
  BY DEF CommandsInv
<1>2. NamesOf(c)' = NamesOf(c) /\ sockfdNick' = sockfdNick
  BY DEF Kept, NamesOf
<1>3. NickOK(c)'
  BY <1>1, <1>2 DEF Own, NickOK
<1>4. Own(c)'
  BY <1>3 DEF Own
<1>5. QED
  BY <1>4, LocalStep, HeadsKept DEF Kept

\* What an action finds.
LEMMA Found ==
    ASSUME CommandsInv, NEW c \in Conn
    PROVE  /\ Own(c) /\ Shape /\ nodes \in Nat /\ Len(connections) \in Nat
           /\ DOMAIN connections = 1..Len(connections) /\ Len(sockfdNick) \in Nat
           /\ DOMAIN sockfdNick = 1..Len(sockfdNick) /\ connection_count \in Int
  BY SequenceLen DEF CommandsInv, TablesOK

LEMMA LeaveSteps ==
    ASSUME CommandsInv, NEW c \in Conn, Quit(c) \/ HangUp(c)
    PROVE  CommandsInv'
<1>1. /\ Frame(c) /\ Kept /\ msg'[c] \in {msg[c], NULL} /\ pc[c] \in {"read", "dispatch"}
      /\ pc'[c] = "closing" /\ loaded'[c] = loaded[c] /\ target'[c] = target[c]
      /\ iter'[c] = iter[c] /\ opened'[c] = opened[c] /\ started'[c] = started[c]
  <2>1. Shape /\ connection_count \in Int
    BY Found
  <2>2. CASE Quit(c)
    <3>1. /\ pc[c] = "dispatch" /\ connection_count' = connection_count - 1
          /\ msg' = [msg EXCEPT ![c] = NULL] /\ pc' = [pc EXCEPT ![c] = "closing"]
          /\ UNCHANGED <<nick_head, user_head, connections, sockfdNick, nodes, loaded, target,
                         iter, opened, started, sent, again>>
      BY <2>2 DEF Quit, Dispatched, At, Goto, history
    <3>2. connection_count' \in Int
      BY <2>1, <3>1
    <3>3. QED
      BY <2>1, <3>1, <3>2 DEF Shape, OnConn, Frame, Kept
  <2>3. CASE HangUp(c)
    BY <2>1, <2>3 DEF HangUp, At, Goto, Shape, OnConn, Frame, Kept, tables, local, history
  <2>4. QED
    BY <2>2, <2>3
<1>2. /\ Own(c) /\ UNCHANGED <<connections, sockfdNick, nodes, sent>>
  BY <1>1, Found DEF Kept
<1>3. (Binding(c)' <=> Binding(c)) /\ target'[c] = 0
  BY <1>1, <1>2 DEF Binding, Own, TargetOK
<1>4. OwnTypes(c)' /\ CountOK(c)'
  BY <1>1, <1>2 DEF Own, OwnTypes, CountOK, PCs
<1>5. MsgOK(c)' /\ TargetOK(c)' /\ LoadedOK(c)'
  BY <1>1, <1>2, <1>3 DEF Own, MsgOK, TargetOK, LoadedOK
<1>6. QED
  BY <1>1, <1>3, <1>4, <1>5, WithinStep

LEMMA HeadStep ==
    ASSUME CommandsInv, NEW c \in Conn, LoadHead(c)
    PROVE  CommandsInv'
<1>0. Own(c) /\ Shape /\ connection_count \in Int /\ DOMAIN sockfdNick = 1..Len(sockfdNick) /\ Len(sockfdNick) \in Nat
      /\ IsSequence(sockfdNick)
  BY Found DEF CommandsInv, TablesOK
<1>1. /\ Frame(c) /\ Kept /\ msg'[c] = msg[c] /\ pc[c] \in {"dispatch", "whois", "closing"}
      /\ pc'[c] = (IF pc[c] = "closing" THEN "delete" ELSE "find")
      /\ loaded'[c] = (IF sockfdNick = <<>> THEN NULL ELSE sockfdNick[1].node)
      /\ target'[c] = target[c]
      /\ iter'[c] = iter[c] /\ opened'[c] = opened[c] /\ started'[c] = started[c]
  BY <1>0 DEF LoadHead, Searches, Goto, Shape, OnConn, Frame, Kept, tables, history
<1>2. /\ UNCHANGED <<connections, sockfdNick, nodes, sent>>
  BY <1>1 DEF Kept
<1>3. Binding(c)' <=> Binding(c)
  BY <1>1 DEF Binding
<1>4. sockfdNick # <<>> => /\ 1 \in DOMAIN sockfdNick /\ loaded'[c] = sockfdNick[1].node
                           /\ loaded'[c] \in Nat /\ loaded'[c] # NULL
  <2> SUFFICES ASSUME sockfdNick # <<>>
               PROVE  /\ 1 \in DOMAIN sockfdNick /\ loaded'[c] = sockfdNick[1].node
                      /\ loaded'[c] \in Nat /\ loaded'[c] # NULL
    OBVIOUS
  <2>1. 1 \in DOMAIN sockfdNick
    BY <1>0 DEF IsSequence
  <2>2. loaded'[c] = sockfdNick[1].node
    BY <1>1
  <2>3. sockfdNick[1].node \in 0..(nodes - 1) /\ nodes \in Nat
    BY <2>1 DEF CommandsInv, TablesOK
  <2>4. QED
    BY <2>1, <2>2, <2>3, NullAssumption
<1>5. OwnTypes(c)' /\ CountOK(c)'
  BY <1>0, <1>1, <1>2, <1>4 DEF Own, OwnTypes, CountOK, PCs
<1>6. MsgOK(c)'
  BY <1>0, <1>1, <1>2 DEF Own, MsgOK
<1>7. TargetOK(c)'
  BY <1>0, <1>1, <1>2 DEF Own, TargetOK, Handles, nparams, name, params
<1>8. LoadedOK(c)'
  <2>1. CASE sockfdNick = <<>>
    <3>1. DOMAIN sockfdNick = {}
      BY <2>1
    <3>2. NamesOf(c) = {}
      BY <1>0, <1>1, <3>1 DEF Own, NickOK, Binding
    <3>3. NamesOf(c)' = {}
      BY <1>2, <3>2 DEF NamesOf
    <3>4. QED
      BY <1>1, <2>1, <3>3 DEF LoadedOK
  <2>2. CASE sockfdNick # <<>>
    BY <1>2, <1>4, <2>2 DEF LoadedOK
  <2>3. QED
    BY <2>1, <2>2
<1>9. QED
  BY <1>1, <1>3, <1>5, <1>6, <1>7, <1>8, WithinStep

LEMMA FindNode ==
    ASSUME CommandsInv, NEW n
    PROVE  /\ find_connection_map_node(n) \in 0..Len(connections)
           /\ find_connection_map_node(n) # 0 =>
                 connections[find_connection_map_node(n)].name = n
           /\ find_connection_map_node(n) = 0 =>
                 \A i \in DOMAIN connections : connections[i].name # n
<1>1. Len(connections) \in Nat /\ DOMAIN connections = 1..Len(connections)
  BY SequenceLen DEF CommandsInv, TablesOK
<1>2. CASE Indices(n) = {}
  BY <1>1, <1>2 DEF find_connection_map_node, Indices
<1>3. CASE Indices(n) # {}
  <2>1. Indices(n) \subseteq 1..Len(connections)
    BY <1>1 DEF Indices
  <2>2. find_connection_map_node(n) \in Indices(n)
    BY <1>3 DEF find_connection_map_node
  <2>3. QED
    BY <1>1, <2>1, <2>2 DEF Indices
<1>4. QED
  BY <1>2, <1>3

LEMMA TargetStep ==
    ASSUME CommandsInv, NEW c \in Conn, WhoisTarget(c)
    PROVE  CommandsInv'
<1>0. Own(c) /\ Shape /\ connection_count \in Int
  BY Found
<1>1. /\ Frame(c) /\ Kept /\ msg'[c] = msg[c] /\ pc[c] = "dispatch" /\ pc'[c] = "whois"
      /\ loaded'[c] = loaded[c] /\ target'[c] = find_connection_map_node(name(c))
      /\ iter'[c] = iter[c] /\ opened'[c] = opened[c] /\ started'[c] = started[c]
      /\ Handles(c, "WHOIS") /\ nparams(c) = 1
  BY <1>0 DEF WhoisTarget, Dispatched, At, Goto, Shape, OnConn, Frame, Kept, tables, history
<1>2. /\ UNCHANGED <<connections, sockfdNick, nodes, sent>>
  BY <1>1 DEF Kept
<1>3. Binding(c)' <=> Binding(c)
  BY <1>1 DEF Binding
<1>4. /\ target'[c] \in 0..Len(connections)
      /\ target'[c] # 0 => connections[target'[c]].name = name(c)
  BY <1>1, FindNode
<1>5. OwnTypes(c)' /\ CountOK(c)'
  BY <1>0, <1>1, <1>2, <1>4 DEF Own, OwnTypes, CountOK, PCs
<1>6. MsgOK(c)' /\ LoadedOK(c)'
  BY <1>0, <1>1, <1>2 DEF Own, MsgOK, LoadedOK
<1>7. TargetOK(c)'
  BY <1>1, <1>2, <1>4 DEF TargetOK, Handles, nparams, name, params
<1>8. QED
  BY <1>1, <1>3, <1>5, <1>6, <1>7, WithinStep

LEMMA WhoisUserStep ==
    ASSUME CommandsInv, NEW c \in Conn, WhoisUser(c)
    PROVE  CommandsInv'
<1>0. Own(c) /\ Shape /\ connection_count \in Int
  BY Found
<1>1. /\ Frame(c) /\ Kept /\ msg'[c] = msg[c] /\ pc[c] = "find" /\ pc'[c] = "free"
      /\ loaded'[c] = loaded[c] /\ target'[c] = target[c]
      /\ iter'[c] = iter[c] /\ opened'[c] = opened[c] /\ started'[c] = started[c]
  BY <1>0 DEF WhoisUser, AtFind, At, Goto, Shape, OnConn, Frame, Kept, tables, history
<1>2. /\ UNCHANGED <<connections, sockfdNick, nodes, sent>>
  BY <1>1 DEF Kept
<1>3. Binding(c)' <=> Binding(c)
  BY <1>1 DEF Binding
<1>5. OwnTypes(c)' /\ CountOK(c)'
  BY <1>0, <1>1, <1>2 DEF Own, OwnTypes, CountOK, PCs
<1>6. MsgOK(c)' /\ LoadedOK(c)'
  BY <1>0, <1>1, <1>2 DEF Own, MsgOK, LoadedOK
<1>7. TargetOK(c)'
  BY <1>0, <1>1, <1>2 DEF Own, TargetOK, Handles, nparams, name, params
<1>8. QED
  BY <1>1, <1>3, <1>5, <1>6, <1>7, WithinStep

\* The words of WHOIS, LUSERS, NICK and USER differ.
LEMMA Apart ==
    ASSUME NEW c
    PROVE  /\ Handles(c, "WHOIS") => ~Handles(c, "LUSERS") /\ ~Registering(c)
           /\ Handles(c, "LUSERS") => ~Registering(c)
  BY DEF Handles, Registering, Is, Letter, Exact

LEMMA PairOf ==
    ASSUME NEW S, NEW x \in S, NEW b \in BOOLEAN, NEW p, p = <<x, b>>
    PROVE  p \in S \X BOOLEAN /\ p[1] = x /\ p[2] = b
  OBVIOUS

\* The first element is in the table, and the one behind it is known.
LEMMA StartOK ==
    ASSUME IsSequence(connections)
    PROVE  /\ IterStart \in (0..Len(connections)) \X BOOLEAN
           /\ IterStart[2] => IterStart[1] < Len(connections)
           /\ ~IterStart[2] => IterStart[1] = Len(connections)
<1>1. Len(connections) \in Nat /\ DOMAIN connections = 1..Len(connections)
  BY SequenceLen
<1>2. CASE connections = <<>>
  <2>1. Len(connections) = 0 /\ IterStart = <<0, FALSE>>
    BY <1>2 DEF IterStart
  <2>2. 0 \in 0..Len(connections) /\ FALSE \in BOOLEAN
    BY <1>1
  <2>3. IterStart \in (0..Len(connections)) \X BOOLEAN /\ IterStart[1] = 0 /\ IterStart[2] = FALSE
    BY <2>1, <2>2, PairOf, Zenon
  <2>4. QED
    BY <2>1, <2>3
<1>3. CASE connections # <<>>
  <2>1. Len(connections) # 0
    BY <1>3 DEF IsSequence
  <2>2. IterStart = <<1, Len(connections) >= 2>>
    BY <1>3 DEF IterStart
  <2>3. 1 \in 0..Len(connections) /\ (Len(connections) >= 2) \in BOOLEAN
    BY <1>1, <2>1
  <2>4. /\ IterStart \in (0..Len(connections)) \X BOOLEAN /\ IterStart[1] = 1
        /\ IterStart[2] = (Len(connections) >= 2)
    BY <2>2, <2>3, PairOf, Zenon
  <2>5. (Len(connections) >= 2 => 1 < Len(connections))
        /\ (~(Len(connections) >= 2) => Len(connections) = 1)
    BY <1>1, <2>1
  <2>6. QED
    BY <2>4, <2>5, Zenon
<1>4. QED
  BY <1>2, <1>3

LEMMA CountStep ==
    ASSUME CommandsInv, NEW c \in Conn, CountOne(c)
    PROVE  CommandsInv'
<1>0. Own(c) /\ Shape /\ connection_count \in Int /\ Len(connections) \in Nat
  BY Found
<1>1. /\ Frame(c) /\ Kept /\ msg'[c] = msg[c] /\ pc[c] \in {"users_iter", "unknown_iter"}
      /\ pc'[c] = pc[c]
      /\ loaded'[c] = loaded[c] /\ target'[c] = target[c]
      /\ iter[c][2] /\ iter'[c] = IterNext(iter[c])
      /\ opened'[c] = opened[c] /\ started'[c] = started[c]
  BY <1>0 DEF CountOne, At, Shape, OnConn, Frame, Kept, tables, history
<1>2. /\ UNCHANGED <<connections, sockfdNick, nodes, sent>>
  BY <1>1 DEF Kept
<1>3. Binding(c)' <=> Binding(c)
  BY <1>1 DEF Binding, Registering, Handles
<1>4. /\ iter[c][1] \in Nat /\ iter[c][1] < Len(connections)
      /\ iter'[c] = <<iter[c][1] + 1, Len(connections) >= iter[c][1] + 2>>
  BY <1>0, <1>1 DEF Own, OwnTypes, CountOK, IterNext
<1>5. /\ iter'[c] \in (0..Len(connections)) \X BOOLEAN
      /\ iter'[c][2] => iter'[c][1] < Len(connections)
      /\ ~iter'[c][2] => iter'[c][1] = Len(connections)
  <2> DEFINE x == iter[c][1]
  <2>1. x + 1 \in 0..Len(connections) /\ (Len(connections) >= x + 2) \in BOOLEAN
    BY <1>0, <1>4
  <2>2. iter'[c] = <<x + 1, Len(connections) >= x + 2>>
    BY <1>4
  <2>3. (Len(connections) >= x + 2 => x + 1 < Len(connections))
        /\ (~(Len(connections) >= x + 2) => x + 1 = Len(connections))
    BY <1>0, <1>4
  <2> HIDE DEF x
  <2>4. /\ iter'[c] \in (0..Len(connections)) \X BOOLEAN /\ iter'[c][1] = x + 1
        /\ iter'[c][2] = (Len(connections) >= x + 2)
    <3>1. PICK S, p, b : /\ S = 0..Len(connections) /\ p = iter'[c]
                         /\ b = (Len(connections) >= x + 2)
      OBVIOUS
    <3>2. x + 1 \in S /\ b \in BOOLEAN /\ p = <<x + 1, b>>
      BY <2>1, <2>2, <3>1, Zenon
    <3>3. p \in S \X BOOLEAN /\ p[1] = x + 1 /\ p[2] = b
      BY <3>2, PairOf, Zenon
    <3>4. QED
      BY <3>1, <3>3, Zenon
  <2>5. QED
    BY <2>3, <2>4, Zenon
<1>6. OwnTypes(c)'
  BY <1>0, <1>1, <1>2, <1>5 DEF Own, OwnTypes
<1>7. CountOK(c)'
  BY <1>0, <1>1, <1>2, <1>5 DEF Own, CountOK
<1>8. MsgOK(c)' /\ TargetOK(c)' /\ LoadedOK(c)'
  BY <1>0, <1>1, <1>2 DEF Own, MsgOK, TargetOK, LoadedOK, Registering, Handles
<1>9. QED
  BY <1>1, <1>3, <1>6, <1>7, <1>8, WithinStep

\* There are not more descriptors with a nick than nodes of connections.
LEMMA Room ==
    ASSUME CommandsInv
    PROVE  Len(sockfdNick) =< Len(connections) /\ Len(sockfdNick) =< nodes
<1>1. Cardinality(Binders) \in Nat
  BY FS_CardinalityType DEF CommandsInv, RoomOK
<1>2. Len(sockfdNick) \in Nat /\ Len(connections) \in Nat
  BY SequenceLen DEF CommandsInv, TablesOK
<1>3. QED
  BY <1>1, <1>2 DEF CommandsInv, RoomOK, TablesOK

LEMMA StartStep ==
    ASSUME CommandsInv, NEW c \in Conn, UsersStart(c)
    PROVE  CommandsInv'
<1>0. Own(c) /\ Shape /\ connection_count \in Int /\ Len(connections) \in Nat /\ Len(sockfdNick) \in Nat /\ nodes \in Nat
      /\ IsSequence(connections)
  BY Found DEF CommandsInv, TablesOK
<1>1. /\ Frame(c) /\ Kept /\ msg'[c] = msg[c] /\ pc'[c] = "users_iter"
      /\ pc[c] = "users" \/ (pc[c] = "find" /\ Handles(c, "LUSERS"))
      /\ loaded'[c] = loaded[c] /\ target'[c] = target[c]
      /\ iter'[c] = IterStart /\ opened'[c] = opened[c] /\ started'[c] = Len(sockfdNick)
  <2>1. pc[c] = "users" \/ (pc[c] = "find" /\ Handles(c, "LUSERS"))
    BY DEF UsersStart, AtFind, At
  <2>2. /\ iter' = [iter EXCEPT ![c] = IterStart] /\ started' = [started EXCEPT ![c] = Len(sockfdNick)]
        /\ pc' = [pc EXCEPT ![c] = "users_iter"]
        /\ UNCHANGED <<tables, msg, loaded, target, opened, history>>
    BY DEF UsersStart, Goto
  <2>3. QED
    BY <1>0, <2>1, <2>2 DEF Shape, OnConn, Frame, Kept, tables, history
<1>2. /\ UNCHANGED <<connections, sockfdNick, nodes, sent>>
  BY <1>1 DEF Kept
<1>3. Binding(c)' <=> Binding(c)
  <2>1. CASE pc[c] = "users"
    BY <1>1, <2>1 DEF Binding, Registering, Handles
  <2>2. CASE pc[c] = "find" /\ Handles(c, "LUSERS")
    <3>1. ~Registering(c)
      BY <2>2, Apart
    <3>2. ~Registering(c)'
      BY <1>1, <3>1 DEF Registering, Handles
    <3>3. QED
      BY <3>1, <3>2 DEF Binding
  <2>3. QED
    BY <1>1, <2>1, <2>2
<1>4. target[c] = 0
  BY <1>0, <1>1, Apart DEF Own, TargetOK
<1>5. /\ iter'[c] \in (0..Len(connections)) \X BOOLEAN
      /\ iter'[c][2] => iter'[c][1] < Len(connections)
      /\ ~iter'[c][2] => iter'[c][1] = Len(connections)
  BY <1>0, <1>1, StartOK
<1>6. started'[c] =< Len(connections) /\ started'[c] \in 0..nodes
  BY <1>0, <1>1, Room
<1>7. OwnTypes(c)'
  BY <1>0, <1>1, <1>2, <1>5, <1>6 DEF Own, OwnTypes, PCs
<1>8. CountOK(c)'
  BY <1>0, <1>1, <1>2, <1>5, <1>6 DEF CountOK
<1>9. MsgOK(c)'
  BY <1>0, <1>1, <1>2 DEF Own, MsgOK
<1>10. TargetOK(c)' /\ LoadedOK(c)'
  BY <1>1, <1>4 DEF TargetOK, LoadedOK
<1>11. QED
  BY <1>1, <1>3, <1>7, <1>8, <1>9, <1>10, WithinStep

LEMMA CountedSteps ==
    ASSUME CommandsInv, NEW c \in Conn, UsersCounted(c) \/ UnknownCounted(c)
    PROVE  CommandsInv'
<1>0. Own(c) /\ Shape /\ connection_count \in Int /\ Len(connections) \in Nat /\ IsSequence(connections)
  BY Found DEF CommandsInv, TablesOK
<1>1. /\ Frame(c) /\ Kept /\ msg'[c] = msg[c]
      /\ pc[c] \in {"users_iter", "unknown_iter"} /\ pc'[c] \in {"unknown_iter", "clients"}
      /\ loaded'[c] = loaded[c] /\ target'[c] = target[c] /\ started'[c] = started[c]
      /\ iter'[c] = IterStart \/ iter'[c] = iter[c]
      /\ opened'[c] = opened[c] \/ opened'[c] = connection_count
  <2>1. CASE UsersCounted(c)
    <3>1. pc[c] = "users_iter"
      BY <2>1 DEF UsersCounted, At
    <3>2. /\ pc' = [pc EXCEPT ![c] = "unknown_iter"] /\ iter' = [iter EXCEPT ![c] = IterStart]
          /\ opened' = [opened EXCEPT ![c] = connection_count] \/ UNCHANGED opened
          /\ UNCHANGED <<tables, msg, loaded, target, started, history>>
      BY <2>1 DEF UsersCounted, Goto
    <3>3. QED
      BY <1>0, <3>1, <3>2 DEF Shape, OnConn, Frame, Kept, tables, history
  <2>2. CASE UnknownCounted(c)
    <3>1. pc[c] = "unknown_iter"
      BY <2>2 DEF UnknownCounted, At
    <3>2. pc' = [pc EXCEPT ![c] = "clients"] /\ UNCHANGED <<tables, local, history>>
      BY <2>2 DEF UnknownCounted, Goto
    <3>3. QED
      BY <1>0, <3>1, <3>2 DEF Shape, OnConn, Frame, Kept, tables, history, local
  <2>3. QED
    BY <2>1, <2>2
<1>2. /\ UNCHANGED <<connections, sockfdNick, nodes, sent>>
  BY <1>1 DEF Kept
<1>3. Binding(c)' <=> Binding(c)
  BY <1>1 DEF Binding, Registering, Handles
<1>4. /\ iter'[c] \in (0..Len(connections)) \X BOOLEAN
      /\ iter'[c][2] => iter'[c][1] < Len(connections)
  <2>1. CASE iter'[c] = IterStart
    BY <1>0, <2>1, StartOK
  <2>2. CASE iter'[c] = iter[c]
    BY <1>0, <2>2 DEF Own, OwnTypes, CountOK
  <2>3. QED
    BY <1>1, <2>1, <2>2
<1>5. connection_count \in Int
  BY DEF CommandsInv, TablesOK
<1>6. OwnTypes(c)'
  BY <1>0, <1>1, <1>2, <1>4, <1>5 DEF Own, OwnTypes, PCs
<1>7. CountOK(c)'
  BY <1>0, <1>1, <1>2, <1>4 DEF Own, CountOK
<1>8. MsgOK(c)' /\ TargetOK(c)' /\ LoadedOK(c)'
  BY <1>0, <1>1, <1>2 DEF Own, MsgOK, TargetOK, LoadedOK
<1>9. QED
  BY <1>1, <1>3, <1>6, <1>7, <1>8, WithinStep

LEMMA ClientsStep ==
    ASSUME CommandsInv, NEW c \in Conn, Clients(c)
    PROVE  CommandsInv'
<1>0. Own(c) /\ Shape /\ connection_count \in Int
  BY Found
<1>1. pc[c] = "clients" /\ UNCHANGED <<tables, history>>
  BY DEF Clients, At
<1>2. CASE Registering(c) /\ Goto(c, "bind") /\ UNCHANGED local
  <2>1. /\ Frame(c) /\ Kept /\ msg'[c] = msg[c] /\ pc'[c] = "bind"
        /\ loaded'[c] = loaded[c] /\ target'[c] = target[c]
        /\ iter'[c] = iter[c] /\ opened'[c] = opened[c] /\ started'[c] = started[c]
    BY <1>0, <1>1, <1>2 DEF Goto, Shape, OnConn, Frame, Kept, tables, history, local
  <2>2. /\ UNCHANGED <<connections, sockfdNick, nodes, sent>>
    BY <2>1 DEF Kept
  <2>3. Binding(c)' <=> Binding(c)
    BY <1>1, <2>1 DEF Binding, Registering, Handles
  <2>4. OwnTypes(c)' /\ CountOK(c)'
    BY <1>0, <2>1, <2>2 DEF Own, OwnTypes, CountOK, PCs
  <2>5. MsgOK(c)'
    BY <1>0, <1>2, <2>1, <2>2 DEF Own, MsgOK, Registering, Handles
  <2>6. TargetOK(c)' /\ LoadedOK(c)'
    BY <1>0, <1>1, <2>1, <2>2 DEF Own, TargetOK, LoadedOK
  <2>7. QED
    BY <1>1, <2>1, <2>3, <2>4, <2>5, <2>6, WithinStep
<1>3. CASE ~Registering(c) /\ Done(c)
  <2>1. Kept /\ ~Binding(c)
    BY <1>0, <1>1, <1>3 DEF Kept, tables, history, Binding
  <2>2. QED
    BY <1>1, <1>3, <2>1, DoneStep, HeadsKept DEF Kept, KeptHash
<1>4. QED
  BY <1>2, <1>3 DEF Clients

-----------------------------------------------------------------------------
(* Steps that change a table or the history *)

LEMMA RemoveSeq ==
    ASSUME NEW s, IsSequence(s), NEW k \in 1..Len(s), NEW t, t = RemoveAt(s, k)
    PROVE  /\ IsSequence(t) /\ Len(t) = Len(s) - 1
           /\ \A i \in DOMAIN t : \E j \in DOMAIN s : t[i] = s[j]
           /\ \A j \in DOMAIN s \ {k} : \E i \in DOMAIN t : t[i] = s[j]
<1> DEFINE S == {s[i] : i \in DOMAIN s}
<1>1. s \in Seq(S)
  BY DEF IsSequence
<1> HIDE DEF S
<1>2. Len(s) \in Nat /\ DOMAIN s = 1..Len(s) /\ \A i \in 1..Len(s) : s[i] \in S
  BY <1>1
<1> DEFINE a == SubSeq(s, 1, k - 1)
           b == SubSeq(s, k + 1, Len(s))
<1>3. a \in Seq(S) /\ Len(a) = k - 1 /\ \A i \in 1..k - 1 : a[i] = s[i]
  BY <1>1, <1>2
<1>4. b \in Seq(S) /\ Len(b) = Len(s) - k /\ \A i \in 1..Len(s) - k : b[i] = s[k + i]
  <2>1. \A i \in k + 1..Len(s) : s[i] \in S
    BY <1>2
  <2>2. k + 1 \in Int /\ Len(s) \in Int
    BY <1>2
  <2>3. /\ b \in Seq(S) /\ Len(b) = IF k + 1 =< Len(s) THEN Len(s) - (k + 1) + 1 ELSE 0
        /\ \A i \in 1..Len(s) - (k + 1) + 1 : b[i] = s[(k + 1) + i - 1]
    BY <2>1, <2>2, SubSeqProperties
  <2> HIDE DEF b
  <2>4. \A i \in 1..Len(s) - k : b[i] = s[k + i]
    <3> TAKE i \in 1..Len(s) - k
    <3>1. i \in 1..Len(s) - (k + 1) + 1 /\ (k + 1) + i - 1 = k + i
      BY <1>2
    <3>2. QED
      BY <2>3, <3>1
  <2>5. Len(b) = Len(s) - k
    <3>1. PICK l : l = Len(s)
      OBVIOUS
    <3>2. l \in Nat /\ k \in 1..l /\ Len(b) = IF k + 1 =< l THEN l - (k + 1) + 1 ELSE 0
      BY <1>2, <2>3, <3>1
    <3>3. (k + 1 =< l => l - (k + 1) + 1 = l - k) /\ (~(k + 1 =< l) => l - k = 0)
      BY <3>2
    <3>4. QED
      BY <3>1, <3>2, <3>3, Zenon
  <2>6. QED
    BY <2>3, <2>4, <2>5
<1>5. t = a \o b
  BY DEF RemoveAt
<1> HIDE DEF a, b
<1>6. /\ t \in Seq(S) /\ Len(t) = Len(a) + Len(b) /\ DOMAIN t = 1..Len(t)
      /\ \A i \in 1..Len(t) : t[i] = IF i =< Len(a) THEN a[i] ELSE b[i - Len(a)]
  <2>0. a \in Seq(S) /\ b \in Seq(S)
    BY <1>3, <1>4
  <2>1. /\ t \in Seq(S) /\ Len(t) = Len(a) + Len(b)
        /\ \A i \in 1..Len(a) + Len(b) : t[i] = IF i <= Len(a) THEN a[i] ELSE b[i - Len(a)]
    BY <1>5, <2>0, ConcatProperties, Zenon
  <2>2. DOMAIN t = 1..Len(t)
    BY <2>1
  <2>3. QED
    BY <2>1, <2>2, Zenon
<1>7. Len(t) = Len(s) - 1
  BY <1>2, <1>3, <1>4, <1>6
<1>8. \A i \in DOMAIN t : t[i] = IF i =< k - 1 THEN s[i] ELSE s[i + 1]
  <2> TAKE i \in DOMAIN t
  <2>1. CASE i =< k - 1
    BY <1>2, <1>3, <1>6, <2>1
  <2>2. CASE ~(i =< k - 1)
    <3>1. i - (k - 1) \in 1..Len(s) - k /\ k + (i - (k - 1)) = i + 1
      BY <1>2, <1>6, <1>7, <2>2
    <3>2. t[i] = b[i - (k - 1)]
      BY <1>3, <1>6, <2>2
    <3>3. QED
      BY <1>4, <2>2, <3>1, <3>2
  <2>3. QED
    BY <2>1, <2>2
<1>9. \A i \in DOMAIN t : \E j \in DOMAIN s : t[i] = s[j]
  <2> TAKE i \in DOMAIN t
  <2>1. i \in DOMAIN s /\ i + 1 \in DOMAIN s
    BY <1>2, <1>6, <1>7
  <2>2. QED
    BY <1>8, <2>1
<1>10. \A j \in DOMAIN s \ {k} : \E i \in DOMAIN t : t[i] = s[j]
  <2> TAKE j \in DOMAIN s \ {k}
  <2>1. CASE j =< k - 1
    <3>1. j \in DOMAIN t /\ t[j] = s[j]
      BY <1>2, <1>6, <1>7, <1>8, <2>1
    <3>2. QED
      BY <3>1
  <2>2. CASE ~(j =< k - 1)
    <3>1. j - 1 \in DOMAIN t /\ ~(j - 1 =< k - 1) /\ (j - 1) + 1 = j
      BY <1>2, <1>6, <1>7, <2>2
    <3>2. t[j - 1] = s[j]
      BY <1>8, <3>1
    <3>3. QED
      BY <3>1, <3>2
  <2>3. QED
    BY <2>1, <2>2
<1>11. t \in Seq({t[i] : i \in DOMAIN t})
  BY <1>6
<1>12. QED
  BY <1>7, <1>9, <1>10, <1>11 DEF IsSequence

LEMMA AcceptStep ==
    ASSUME CommandsInv, NEW c \in Conn, Accept(c)
    PROVE  CommandsInv'
<1>0. Own(c) /\ Shape /\ connection_count \in Int /\ TablesOK /\ HistoryOK /\ RoomOK
  BY Found DEF CommandsInv
<1>1. /\ Frame(c) /\ pc[c] = "none" /\ pc'[c] = "read" /\ msg' = msg
      /\ loaded'[c] = loaded[c] /\ target'[c] = target[c]
      /\ iter'[c] = iter[c] /\ opened'[c] = opened[c] /\ started'[c] = started[c]
      /\ UNCHANGED <<nick_head, user_head, connections, sockfdNick, nodes, sent, again>>
      /\ connection_count' = connection_count + 1
  BY <1>0 DEF Accept, At, Goto, Shape, OnConn, Frame, local, history
<1>2. Grows(c)
  BY <1>0, <1>1, SequenceLen DEF Grows, TablesOK
<1>3. NamesOf(c)' = {} /\ target[c] = 0
  BY <1>0, <1>1 DEF NamesOf, TablesOK, Own, TargetOK
<1>4. OwnTypes(c)' /\ CountOK(c)'
  BY <1>0, <1>1 DEF Own, OwnTypes, CountOK, PCs
<1>5. MsgOK(c)' /\ TargetOK(c)' /\ LoadedOK(c)' /\ NickOK(c)'
  BY <1>0, <1>1, <1>3 DEF Own, MsgOK, TargetOK, LoadedOK, NickOK
<1>6. \A d \in Conn : Own(d)'
  BY <1>1, <1>2, <1>4, <1>5, OwnKept DEF Own
<1>7. TablesOK'
  BY <1>0, <1>1 DEF TablesOK, Frame
<1>8. HistoryOK' /\ DeadOK'
  BY <1>1 DEF CommandsInv, HistoryOK, DeadOK, Asking
<1>9. RoomOK'
  <2>1. Binders' = Binders
    BY <1>1 DEF Binders, Binding, Registering, Handles, Frame
  <2>2. Accepted' = Accepted \union {c}
    BY <1>1 DEF Accepted, Frame
  <2>3. IsFiniteSet(Accepted')
    BY <1>0, <2>2, FS_AddElement DEF RoomOK
  <2>4. QED
    BY <1>0, <1>1, <2>1, <2>3 DEF RoomOK
<1>10. QED
  BY <1>1, <1>6, <1>7, <1>8, <1>9 DEF CommandsInv, Frame

\* What the parser returns is 0 or -1, and `overflow` is what it says.
LEMMA ParsedShape ==
    ASSUME NEW s, NEW m, m = chirc_message_from_string(s)
    PROVE  /\ m.rc \in {0, -1}
           /\ m.rc = 0 /\ m.overflow => Len(m.params) > ParamsSize
<1>1. \A t, k : /\ Parsed(s, t, k).rc \in {0, -1}
                /\ Parsed(s, t, k).rc = 0 /\ Parsed(s, t, k).overflow =>
                      Len(Parsed(s, t, k).params) > ParamsSize
  <2> TAKE t, k
  <2>1. CASE Len(t) < k
    BY <2>1 DEF Parsed
  <2>2. CASE ~(Len(t) < k)
    BY <2>2 DEF Parsed
  <2>3. QED
    BY <2>1, <2>2
<1>2. PICK t, k : m = Parsed(s, t, k)
  BY DEF chirc_message_from_string, ParsedFrom
<1>3. QED
  BY <1>1, <1>2

\* What a line that arrives does, whatever the parser makes of it.
LEMMA Arrives ==
    ASSUME CommandsInv, NEW c \in Conn, NEW s \in Lines[c], Receive(c, s),
           NEW m, m = chirc_message_from_string(s)
    PROVE  /\ Frame(c) /\ pc[c] = "read"
           /\ \/ pc'[c] = "dispatch" /\ msg'[c] = m /\ m.rc = 0 /\ undefined' = undefined
              \/ /\ pc'[c] = "read" /\ msg'[c] = msg[c]
                 /\ \/ m.rc = -1 /\ undefined' = [conn |-> c, cause |-> "command"]
                    \/ /\ m.rc = 0 /\ m.overflow
                       /\ undefined' = [conn |-> c, cause |-> "params"]
           /\ loaded'[c] = loaded[c] /\ target'[c] = target[c]
           /\ iter'[c] = iter[c] /\ opened'[c] = opened[c] /\ started'[c] = started[c]
           /\ UNCHANGED tables /\ sent' = sent \union {<<c, m>>}
           /\ again' = IF <<c, m>> \in sent THEN again \union {<<c, m>>} ELSE again
           /\ undefined = NULL /\ m.rc \in {0, -1} /\ m # NULL
<1>0. Shape
  BY Found
<1>1. /\ pc[c] = "read" /\ undefined = NULL
      /\ UNCHANGED <<tables, loaded, self, target, iter, opened, started>>
      /\ sent' = sent \union {<<c, m>>}
      /\ again' = IF <<c, m>> \in sent THEN again \union {<<c, m>>} ELSE again
  BY DEF Receive, At
<1>2. m.rc \in {0, -1} /\ m # NULL
  BY ParsedShape, MessageAssumption
<1>3. CASE m.rc = 0 /\ msg' = [msg EXCEPT ![c] = m] /\ Goto(c, "dispatch") /\ undefined' = undefined
  BY <1>0, <1>1, <1>2, <1>3 DEF Goto, Shape, OnConn, Frame
<1>4. CASE /\ \/ m.rc = -1 /\ undefined' = [conn |-> c, cause |-> "command"]
              \/ m.rc = 0 /\ m.overflow /\ undefined' = [conn |-> c, cause |-> "params"]
           /\ UNCHANGED <<pc, msg>>
  BY <1>0, <1>1, <1>2, <1>4 DEF Shape, OnConn, Frame
<1>5. QED
  BY <1>3, <1>4 DEF Receive

LEMMA ReceiveStep ==
    ASSUME CommandsInv, NEW c \in Conn, NEW s \in Lines[c], Receive(c, s)
    PROVE  CommandsInv'
<1> PICK m : m = chirc_message_from_string(s)
  OBVIOUS
<1>0. Own(c) /\ TablesOK /\ HistoryOK /\ RoomOK
  BY Found DEF CommandsInv
<1>1. /\ Frame(c) /\ pc[c] = "read"
      /\ \/ pc'[c] = "dispatch" /\ msg'[c] = m /\ m.rc = 0
         \/ pc'[c] = "read" /\ msg'[c] = msg[c]
      /\ loaded'[c] = loaded[c] /\ target'[c] = target[c]
      /\ iter'[c] = iter[c] /\ opened'[c] = opened[c] /\ started'[c] = started[c]
      /\ sent' = sent \union {<<c, m>>}
      /\ again' = IF <<c, m>> \in sent THEN again \union {<<c, m>>} ELSE again
      /\ m.rc \in {0, -1} /\ m # NULL
  BY Arrives
<1>2. UNCHANGED <<nick_head, user_head, connections, sockfdNick, nodes, connection_count>>
  BY Arrives DEF tables
<1>3. Grows(c)
  BY <1>0, <1>1, <1>2, SequenceLen DEF Grows, TablesOK
<1>4. target[c] = 0 /\ ~Binding(c) /\ ~Binding(c)' /\ NamesOf(c)' = NamesOf(c)
  BY <1>0, <1>1, <1>2 DEF Own, TargetOK, Binding, NamesOf
<1>5. OwnTypes(c)' /\ CountOK(c)'
  BY <1>0, <1>1, <1>2 DEF Own, OwnTypes, CountOK, PCs
<1>6. MsgOK(c)'
  BY <1>0, <1>1 DEF Own, MsgOK
<1>7. TargetOK(c)' /\ LoadedOK(c)' /\ NickOK(c)'
  BY <1>0, <1>1, <1>2, <1>4 DEF Own, TargetOK, LoadedOK, NickOK
<1>8. \A d \in Conn : Own(d)'
  BY <1>1, <1>3, <1>5, <1>6, <1>7, OwnKept DEF Own
<1>9. TablesOK'
  BY <1>0, <1>1, <1>2 DEF TablesOK, Frame
<1>10. HistoryOK'
  BY <1>0, <1>1 DEF HistoryOK
<1>11. DeadOK'
  <2>1. ASSUME NEW p \in sent, msg[p[1]] # p[2] PROVE msg'[p[1]] # p[2] \/ p \in again'
    <3>1. p = <<p[1], p[2]>> /\ p[1] \in Conn
      BY <1>0 DEF HistoryOK
    <3>2. CASE p[1] # c
      BY <2>1, <3>1, <3>2, <1>1 DEF Frame
    <3>3. CASE p[1] = c
      BY <1>1, <2>1, <3>1, <3>3
    <3>4. QED
      BY <3>2, <3>3
  <2>2. QED
    BY <1>2, <1>3, <2>1, DeadKept
<1>12. RoomOK'
  <2>1. Binders' = Binders
    BY <1>1, <1>4 DEF Binders, Binding, Registering, Handles, Frame
  <2>2. Accepted' = Accepted
    BY <1>1 DEF Accepted, Frame
  <2>3. QED
    BY <1>0, <1>2, <2>1, <2>2 DEF RoomOK
<1>13. QED
  BY <1>1, <1>8, <1>9, <1>10, <1>11, <1>12 DEF CommandsInv, Frame

LEMMA FreeStep ==
    ASSUME CommandsInv, NEW c \in Conn, WhoisFree(c)
    PROVE  CommandsInv'
<1> DEFINE t == target[c]
<1>0. Own(c) /\ Shape /\ TablesOK /\ HistoryOK /\ RoomOK /\ DeadOK
      /\ Len(connections) \in Nat /\ DOMAIN connections = 1..Len(connections)
  BY Found DEF CommandsInv
<1>1. /\ Frame(c) /\ pc[c] = "free"
      /\ pc'[c] = "read" /\ msg'[c] = NULL /\ loaded'[c] = NULL /\ target'[c] = 0
      /\ iter'[c] = <<0, FALSE>> /\ opened'[c] = NULL /\ started'[c] = 0
  BY <1>0, DoneFrame DEF WhoisFree, At
<1>2. /\ connections' = [connections EXCEPT ![t].live = FALSE]
      /\ UNCHANGED <<nick_head, user_head, sockfdNick, nodes, connection_count, sent, again>>
  BY DEF WhoisFree, history
<1> HIDE DEF t
<1>3. /\ DOMAIN connections' = DOMAIN connections /\ Len(connections') = Len(connections)
      /\ IsSequence(connections')
      /\ \A i \in DOMAIN connections :
            /\ DOMAIN connections'[i] = {"name", "fd", "msg", "live"}
            /\ connections'[i].name = connections[i].name
            /\ connections'[i].fd = connections[i].fd
            /\ connections'[i].live \in BOOLEAN
            /\ i # t => connections'[i].live = connections[i].live
  <2>1. DOMAIN connections' = DOMAIN connections
    BY <1>2
  <2>2. \A i \in DOMAIN connections :
            connections'[i] = IF i = t THEN [connections[i] EXCEPT !.live = FALSE] ELSE connections[i]
    BY <1>2
  <2>3. \A i \in DOMAIN connections :
            /\ DOMAIN connections[i] = {"name", "fd", "msg", "live"}
            /\ connections[i].live \in BOOLEAN
    BY <1>0 DEF TablesOK
  <2>4. \A i \in DOMAIN connections :
            /\ DOMAIN connections'[i] = {"name", "fd", "msg", "live"}
            /\ connections'[i].name = connections[i].name
            /\ connections'[i].fd = connections[i].fd
            /\ connections'[i].live \in BOOLEAN
            /\ i # t => connections'[i].live = connections[i].live
    BY <2>2, <2>3
  <2>5. connections' = [i \in 1..Len(connections) |-> connections'[i]]
    BY <1>0, <1>2
  <2>6. connections' \in Seq({connections'[i] : i \in DOMAIN connections'}) /\ Len(connections') = Len(connections)
    BY <1>0, <2>1, <2>5
  <2>7. QED
    BY <2>1, <2>4, <2>6 DEF IsSequence
<1>4. Grows(c) /\ NamesOf(c)' = NamesOf(c)
  <2>1. NamesOf(c)' = NamesOf(c)
    BY <1>3 DEF NamesOf
  <2>2. Grows(c)
    BY <1>0, <1>1, <1>2, <1>3 DEF Grows, TablesOK
  <2>3. QED
    BY <2>1, <2>2
<1>5. OwnTypes(c)' /\ CountOK(c)'
  BY <1>0, <1>1, <1>2, <1>3, RestTypes DEF TablesOK
<1>6. MsgOK(c)' /\ TargetOK(c)' /\ LoadedOK(c)' /\ NickOK(c)'
  BY <1>0, <1>1, <1>2, <1>4 DEF Own, MsgOK, TargetOK, LoadedOK, NickOK, Binding
<1>7. \A d \in Conn : Own(d)'
  BY <1>1, <1>4, <1>5, <1>6, OwnKept DEF Own
<1>8. TablesOK'
  <2>1. \A i \in DOMAIN connections' :
            /\ DOMAIN connections'[i] = {"name", "fd", "msg", "live"}
            /\ connections'[i].fd \in Conn /\ connections'[i].live \in BOOLEAN
            /\ pc'[connections'[i].fd] # "none"
            /\ find_user_node(nick_head', connections'[i].name)
            /\ find_user_node(user_head', connections'[i].name)
    <3> TAKE i \in DOMAIN connections'
    <3>1. /\ i \in DOMAIN connections /\ connections[i].fd \in Conn
          /\ pc[connections[i].fd] # "none"
          /\ find_user_node(nick_head, connections[i].name)
          /\ find_user_node(user_head, connections[i].name)
      BY <1>0, <1>3 DEF TablesOK
    <3>2. pc'[connections[i].fd] # "none"
      BY <1>1, <3>1 DEF Frame
    <3>3. QED
      BY <1>2, <1>3, <3>1, <3>2
  <2>2. \A i, j \in DOMAIN connections' : connections'[i].name = connections'[j].name => i = j
    BY <1>0, <1>3 DEF TablesOK
  <2>3. QED
    BY <1>0, <1>2, <1>3, <2>1, <2>2 DEF TablesOK
<1>9. HistoryOK'
  BY <1>0, <1>2 DEF HistoryOK
<1>10. DeadOK'
  <2> SUFFICES ASSUME NEW i \in DOMAIN connections, ~connections'[i].live, NEW n, n = connections'[i].name
               PROVE  \E p \in Asking(n)' : p \in again' \/ msg'[p[1]] # p[2]
    BY <1>3 DEF DeadOK
  <2>1. Asking(n)' = Asking(n) /\ n = connections[i].name
    BY <1>2, <1>3 DEF Asking
  <2>2. CASE i = t
    <3>1. t # 0 /\ t = target[c]
      BY <1>0, <2>2 DEF t
    <3>2. /\ msg[c] # NULL /\ Is(msg[c].cmd, "WHOIS") /\ Len(msg[c].params) = 1
          /\ connections[t].name = msg[c].params[1]
      BY <1>0, <3>1 DEF Own, TargetOK, Handles, nparams, name, params
    <3>3. <<c, msg[c]>> \in sent /\ msg[c].rc = 0
      BY <1>0, <3>2 DEF Own, MsgOK
    <3>4. <<c, msg[c]>> \in Asking(n)
      BY <2>1, <2>2, <3>2, <3>3 DEF Asking
    <3>5. msg'[c] # msg[c]
      BY <1>1, <3>2
    <3>6. QED
      BY <2>1, <3>4, <3>5
  <2>3. CASE i # t
    <3>1. PICK p \in Asking(n) : p \in again \/ msg[p[1]] # p[2]
      BY <1>0, <1>3, <2>1, <2>3 DEF DeadOK
    <3>2. p[1] \in Conn /\ p[2] # NULL
      BY <1>0 DEF HistoryOK, Asking
    <3>3. p \in again' \/ msg'[p[1]] # p[2]
      BY <1>1, <1>2, <3>1, <3>2 DEF Frame
    <3>4. QED
      BY <2>1, <3>1, <3>3
  <2>4. QED
    BY <2>2, <2>3
<1>11. RoomOK'
  <2>1. Binders' = Binders
    BY <1>1 DEF Binders, Binding, Registering, Handles, Frame
  <2>2. Accepted' = Accepted
    BY <1>1 DEF Accepted, Frame
  <2>3. QED
    BY <1>0, <1>2, <1>3, <2>1, <2>2 DEF RoomOK
<1>12. QED
  BY <1>1, <1>7, <1>8, <1>9, <1>10, <1>11 DEF CommandsInv, Frame

LEMMA BindStep ==
    ASSUME CommandsInv, NEW c \in Conn, Bind(c)
    PROVE  CommandsInv'
<1>0. Own(c) /\ Shape /\ TablesOK /\ HistoryOK /\ RoomOK /\ DeadOK
      /\ Len(connections) \in Nat /\ DOMAIN connections = 1..Len(connections) /\ nodes \in Nat
  BY Found DEF CommandsInv
<1>1. /\ Frame(c) /\ pc[c] = "bind"
      /\ pc'[c] = "read" /\ msg'[c] = NULL /\ loaded'[c] = NULL /\ target'[c] = 0
      /\ iter'[c] = <<0, FALSE>> /\ opened'[c] = NULL /\ started'[c] = 0
  BY <1>0, DoneFrame DEF Bind, At
<1>2. /\ sockfdNick' = Append(sockfdNick, [fd |-> c, name |-> self[c], node |-> nodes])
      /\ nodes' = nodes + 1
      /\ UNCHANGED <<nick_head, user_head, connections, connection_count, sent, again>>
  BY DEF Bind, history
<1> DEFINE x == [fd |-> c, name |-> self[c], node |-> nodes]
           l == Len(sockfdNick)
<1>3. /\ IsSequence(sockfdNick') /\ Len(sockfdNick') = l + 1 /\ sockfdNick'[l + 1] = x /\ l \in Nat
      /\ DOMAIN sockfdNick = 1..l /\ DOMAIN sockfdNick' = 1..l + 1
      /\ \A i \in 1..l : sockfdNick'[i] = sockfdNick[i]
  <2>1. IsSequence(sockfdNick)
    BY <1>0 DEF TablesOK
  <2>2. sockfdNick' = Append(sockfdNick, x)
    BY <1>2
  <2> HIDE DEF x, l
  <2>3. QED
    <3>1. Appended(sockfdNick, x, sockfdNick')
      BY <2>1, <2>2, AppendSeq, Zenon
    <3>2. QED
      BY <3>1 DEF Appended, l
<1>4. sockfdNick'[l + 1].fd = c /\ sockfdNick'[l + 1].node = nodes
  BY <1>3
<1> HIDE DEF x, l
<1>5. \A i \in 1..l : i \in 1..l + 1
  BY <1>3
<1>6. Grows(c)
  BY <1>0, <1>1, <1>2, <1>3, <1>5 DEF Grows
<1>7. OwnTypes(c)' /\ CountOK(c)'
  <2>1. Len(connections') \in Nat /\ nodes' \in Nat
    BY <1>0, <1>2
  <2>2. QED
    BY <1>1, <2>1, RestTypes
<1>8. MsgOK(c)' /\ TargetOK(c)' /\ LoadedOK(c)'
  BY <1>1 DEF MsgOK, TargetOK, LoadedOK
<1>9. NickOK(c)'
  <2>1. l + 1 \in DOMAIN sockfdNick'
    BY <1>3
  <2>2. QED
    BY <1>4, <2>1 DEF NickOK
<1>10. \A d \in Conn : Own(d)'
  BY <1>1, <1>6, <1>7, <1>8, <1>9, OwnKept DEF Own
<1>11. TablesOK'
  <2>1. \A i \in DOMAIN sockfdNick' :
            sockfdNick'[i].fd \in Conn /\ sockfdNick'[i].node \in 0..(nodes' - 1)
    <3> TAKE i \in DOMAIN sockfdNick'
    <3>1. CASE i = l + 1
      BY <1>0, <1>2, <1>4, <3>1
    <3>2. CASE i \in 1..l
      <4>1. sockfdNick[i].fd \in Conn /\ sockfdNick[i].node \in 0..(nodes - 1)
        BY <1>0, <1>3, <3>2 DEF TablesOK
      <4>2. QED
        BY <1>0, <1>2, <1>3, <3>2, <4>1
    <3>3. i = l + 1 \/ i \in 1..l
      BY <1>3
    <3>4. QED
      BY <3>1, <3>2, <3>3
  <2>2. Len(sockfdNick') =< nodes' /\ nodes' \in Nat
    BY <1>0, <1>2, <1>3 DEF TablesOK, l
  <2>3. QED
    BY <1>0, <1>1, <1>2, <1>3, <2>1, <2>2 DEF TablesOK, Frame
<1>12. HistoryOK'
  BY <1>0, <1>2 DEF HistoryOK
<1>13. DeadOK'
  <2>1. \A p \in sent : msg[p[1]] # p[2] => msg'[p[1]] # p[2]
    BY <1>0, <1>1 DEF HistoryOK, Frame
  <2>2. QED
    BY <1>2, <1>6, <2>1, DeadKept
<1>14. RoomOK'
  <2>1. Binding(c) /\ ~Binding(c)'
    BY <1>0, <1>1 DEF Own, MsgOK, Binding
  <2>2. c \in Binders /\ Binders' = Binders \ {c}
    BY <1>1, <2>1 DEF Binders, Binding, Registering, Handles, Frame
  <2>3. Accepted' = Accepted
    BY <1>1 DEF Accepted, Frame
  <2>4. IsFiniteSet(Binders \ {c}) /\ Cardinality(Binders \ {c}) = Cardinality(Binders) - 1
    BY <1>0, <2>2, FS_RemoveElement DEF RoomOK
  <2>5. Cardinality(Binders) \in Nat
    BY <1>0, FS_CardinalityType DEF RoomOK
  <2>6. Len(sockfdNick') + Cardinality(Binders') =< Len(connections')
    BY <1>0, <1>2, <1>3, <2>2, <2>4, <2>5 DEF RoomOK, l
  <2>7. QED
    BY <1>0, <2>2, <2>3, <2>4, <2>6 DEF RoomOK
<1>15. QED
  BY <1>1, <1>10, <1>11, <1>12, <1>13, <1>14 DEF CommandsInv, Frame

LEMMA DisconnectStep ==
    ASSUME CommandsInv, NEW c \in Conn, Disconnect(c)
    PROVE  CommandsInv'
<1>0. Own(c) /\ Shape /\ TablesOK /\ HistoryOK /\ RoomOK /\ DeadOK
      /\ Len(connections) \in Nat /\ DOMAIN connections = 1..Len(connections) /\ nodes \in Nat
      /\ connection_count \in Int /\ Len(sockfdNick) \in Nat
  BY Found DEF CommandsInv
<1>1. /\ pc[c] = "delete" /\ connection_count' = connection_count - 1
      /\ msg' = [msg EXCEPT ![c] = NULL] /\ loaded' = [loaded EXCEPT ![c] = NULL]
      /\ pc' = [pc EXCEPT ![c] = "gone"]
      /\ UNCHANGED <<nick_head, user_head, connections, nodes, target, iter, opened, started,
                     sent, again>>
      /\ \/ sockfdNick' = sockfdNick
         \/ \E k \in NodesOf(c) : sockfdNick' = RemoveAt(sockfdNick, k)
  BY DEF Disconnect, AtFind, At, Goto, history
<1>2. /\ Frame(c) /\ pc'[c] = "gone" /\ msg'[c] = NULL /\ loaded'[c] = NULL
      /\ target'[c] = target[c] /\ iter'[c] = iter[c] /\ opened'[c] = opened[c]
      /\ started'[c] = started[c]
  BY <1>0, <1>1 DEF Shape, OnConn, Frame
<1>3. /\ IsSequence(sockfdNick') /\ Len(sockfdNick') \in Nat /\ Len(sockfdNick') =< Len(sockfdNick)
      /\ \A i \in DOMAIN sockfdNick' : \E j \in DOMAIN sockfdNick : sockfdNick'[i] = sockfdNick[j]
      /\ \A j \in DOMAIN sockfdNick :
            sockfdNick[j].fd # c => \E i \in DOMAIN sockfdNick' : sockfdNick'[i] = sockfdNick[j]
  <2>1. CASE sockfdNick' = sockfdNick
    BY <1>0, <2>1 DEF TablesOK
  <2>2. ASSUME NEW k \in NodesOf(c), sockfdNick' = RemoveAt(sockfdNick, k)
        PROVE  <1>3!:
    <3>1. DOMAIN sockfdNick = 1..Len(sockfdNick)
      BY Found
    <3>2. k \in 1..Len(sockfdNick) /\ sockfdNick[k].fd = c
      BY <3>1 DEF NodesOf
    <3>3. /\ IsSequence(sockfdNick') /\ Len(sockfdNick') = Len(sockfdNick) - 1
          /\ \A i \in DOMAIN sockfdNick' : \E j \in DOMAIN sockfdNick : sockfdNick'[i] = sockfdNick[j]
          /\ \A j \in DOMAIN sockfdNick \ {k} :
                \E i \in DOMAIN sockfdNick' : sockfdNick'[i] = sockfdNick[j]
      BY <1>0, <2>2, <3>2, RemoveSeq DEF TablesOK
    <3>4. Len(sockfdNick') \in Nat /\ Len(sockfdNick') =< Len(sockfdNick)
      BY <1>0, <3>2, <3>3
    <3>5. QED
      BY <3>2, <3>3, <3>4
  <2>3. QED
    BY <1>1, <2>1, <2>2
<1>4. Grows(c)
  <2>1. \A i \in DOMAIN sockfdNick :
            \/ \E j \in DOMAIN sockfdNick' : /\ sockfdNick'[j].fd = sockfdNick[i].fd
                                             /\ sockfdNick'[j].node = sockfdNick[i].node
            \/ sockfdNick[i].fd = c /\ pc'[c] = "gone"
    <3> TAKE i \in DOMAIN sockfdNick
    <3>1. CASE sockfdNick[i].fd = c
      BY <1>2, <3>1
    <3>2. CASE sockfdNick[i].fd # c
      <4>1. PICK j \in DOMAIN sockfdNick' : sockfdNick'[j] = sockfdNick[i]
        BY <1>3, <3>2
      <4>2. QED
        BY <4>1
    <3>3. QED
      BY <3>1, <3>2
  <2>2. QED
    BY <1>0, <1>1, <1>2, <2>1 DEF Grows
<1>5. target'[c] = 0 /\ ~Binding(c)' /\ ~Binding(c)
  BY <1>0, <1>1, <1>2 DEF Own, TargetOK, Binding
<1>6. OwnTypes(c)' /\ CountOK(c)'
  <2>1. OwnTypes(c)'
    BY <1>0, <1>1, <1>2 DEF Own, OwnTypes, PCs
  <2>2. CountOK(c)'
    BY <1>0, <1>1, <1>2 DEF Own, CountOK
  <2>3. QED
    BY <2>1, <2>2
<1>7. MsgOK(c)' /\ TargetOK(c)' /\ LoadedOK(c)' /\ NickOK(c)'
  BY <1>2, <1>5 DEF MsgOK, TargetOK, LoadedOK, NickOK
<1>8. \A d \in Conn : Own(d)'
  BY <1>2, <1>4, <1>6, <1>7, OwnKept DEF Own
<1>9. TablesOK'
  <2>1. \A i \in DOMAIN sockfdNick' :
            sockfdNick'[i].fd \in Conn /\ sockfdNick'[i].node \in 0..(nodes' - 1)
    BY <1>0, <1>1, <1>3 DEF TablesOK
  <2>2. Len(sockfdNick') =< nodes' /\ connection_count' \in Int
    BY <1>0, <1>1, <1>3 DEF TablesOK
  <2>3. \A d \in Conn : pc[d] # "none" => pc'[d] # "none"
    BY <1>2 DEF Frame
  <2>4. QED
    BY <1>0, <1>1, <1>3, <2>1, <2>2, <2>3 DEF TablesOK
<1>10. HistoryOK'
  BY <1>0, <1>1 DEF HistoryOK
<1>11. DeadOK'
  <2>1. \A p \in sent : msg[p[1]] # p[2] => msg'[p[1]] # p[2]
    BY <1>0, <1>2 DEF HistoryOK, Frame
  <2>2. QED
    BY <1>1, <1>4, <2>1, DeadKept
<1>12. RoomOK'
  <2>1. Binders' = Binders
    BY <1>2, <1>5 DEF Binders, Binding, Registering, Handles, Frame
  <2>2. Accepted' = Accepted
    BY <1>1, <1>2 DEF Accepted, Frame
  <2>3. Cardinality(Binders) \in Nat
    BY <1>0, FS_CardinalityType DEF RoomOK
  <2>4. Len(sockfdNick') + Cardinality(Binders') =< Len(connections')
    BY <1>0, <1>1, <1>3, <2>1, <2>3 DEF RoomOK
  <2>5. QED
    BY <1>0, <2>1, <2>2, <2>4 DEF RoomOK
<1>13. QED
  BY <1>2, <1>8, <1>9, <1>10, <1>11, <1>12 DEF CommandsInv, Frame

\* A connection is registered under a name that no other has.
LEMMA WelcomeStep ==
    ASSUME CommandsInv, NEW c \in Conn, NEW m, StartWelcome(c, m), pc[c] = "dispatch", Registering(c),
           HeadsGrow, NEW n, n = name(c),
           find_user_node(nick_head', n), find_user_node(user_head', n),
           \A i \in DOMAIN connections : connections[i].name # n,
           UNCHANGED <<sockfdNick, nodes, connection_count, sent, again>>
    PROVE  CommandsInv'
<1>0. Own(c) /\ Shape /\ TablesOK /\ HistoryOK /\ RoomOK /\ DeadOK
      /\ Len(connections) \in Nat /\ DOMAIN connections = 1..Len(connections) /\ nodes \in Nat
  BY Found DEF CommandsInv
<1>1. /\ Frame(c) /\ msg'[c] = msg[c] /\ pc'[c] = "users"
      /\ loaded'[c] = loaded[c] /\ target'[c] = target[c]
      /\ iter'[c] = iter[c] /\ opened'[c] = opened[c] /\ started'[c] = started[c]
  BY <1>0 DEF StartWelcome, Goto, Shape, OnConn, Frame
<1> DEFINE x == [name |-> n, fd |-> c, msg |-> m, live |-> TRUE]
           l == Len(connections)
<1>2. Appended(connections, x, connections')
  <2>1. connections' = Append(connections, x)
    BY DEF StartWelcome
  <2>2. IsSequence(connections)
    BY <1>0 DEF TablesOK
  <2>3. QED
    BY <2>1, <2>2, AppendSeq, Zenon
<1>3. /\ IsSequence(connections') /\ Len(connections') = l + 1 /\ connections'[l + 1] = x /\ l \in Nat
      /\ DOMAIN connections = 1..l /\ DOMAIN connections' = 1..l + 1
      /\ \A i \in 1..l : connections'[i] = connections[i]
  BY <1>2 DEF Appended
<1>4. /\ connections'[l + 1].fd = c /\ connections'[l + 1].name = n /\ connections'[l + 1].live = TRUE
      /\ DOMAIN connections'[l + 1] = {"name", "fd", "msg", "live"}
  BY <1>3
<1> HIDE DEF x, l
<1>5. /\ \A i \in DOMAIN connections : i \in DOMAIN connections' /\ connections'[i] = connections[i]
      /\ \A i \in DOMAIN connections' \ DOMAIN connections :
            connections'[i].fd = c /\ connections'[i].live
      /\ \A i \in DOMAIN connections' : i \in DOMAIN connections \/ i = l + 1
      /\ Len(connections) =< Len(connections') /\ Len(connections') \in Nat
      /\ Len(connections') = Len(connections) + 1
  BY <1>3, <1>4 DEF l
<1>6. Grows(c)
  BY <1>0, <1>1, <1>5 DEF Grows
<1>7. target[c] = 0 /\ Binding(c)' /\ ~Binding(c)
  BY <1>0, <1>1 DEF Own, TargetOK, Binding, Registering, Handles
<1>8. OwnTypes(c)'
  BY <1>0, <1>1, <1>5, <1>7 DEF Own, OwnTypes, PCs
<1>9. CountOK(c)'
  BY <1>0, <1>1, <1>5 DEF Own, OwnTypes, CountOK
<1>10. MsgOK(c)'
  BY <1>0, <1>1 DEF Own, MsgOK, Registering, Handles
<1>11. TargetOK(c)' /\ LoadedOK(c)' /\ NickOK(c)'
  BY <1>1, <1>7 DEF TargetOK, LoadedOK, NickOK
<1>12. \A d \in Conn : Own(d)'
  BY <1>1, <1>6, <1>8, <1>9, <1>10, <1>11, OwnKept DEF Own
<1>13. TablesOK'
  <2>1. \A i \in DOMAIN connections' :
            /\ DOMAIN connections'[i] = {"name", "fd", "msg", "live"}
            /\ connections'[i].fd \in Conn /\ connections'[i].live \in BOOLEAN
            /\ pc'[connections'[i].fd] # "none"
            /\ find_user_node(nick_head', connections'[i].name)
            /\ find_user_node(user_head', connections'[i].name)
    <3> TAKE i \in DOMAIN connections'
    <3>1. CASE i = l + 1
      BY <1>1, <1>4, <3>1
    <3>2. CASE i \in DOMAIN connections
      <4>1. /\ DOMAIN connections[i] = {"name", "fd", "msg", "live"}
            /\ connections[i].fd \in Conn /\ connections[i].live \in BOOLEAN
            /\ pc[connections[i].fd] # "none"
        BY <1>0, <3>2 DEF TablesOK
      <4>2. pc'[connections[i].fd] # "none"
        BY <1>1, <4>1 DEF Frame
      <4>3. QED
        BY <1>5, <3>2, <4>1, <4>2 DEF HeadsGrow
    <3>3. QED
      BY <1>5, <3>1, <3>2
  <2>2. \A i, j \in DOMAIN connections' : connections'[i].name = connections'[j].name => i = j
    <3> TAKE i, j \in DOMAIN connections'
    <3>1. CASE i \in DOMAIN connections /\ j \in DOMAIN connections
      BY <1>0, <1>5, <3>1 DEF TablesOK
    <3>2. CASE i \in DOMAIN connections /\ j = l + 1
      BY <1>4, <1>5, <3>2
    <3>3. CASE i = l + 1 /\ j \in DOMAIN connections
      BY <1>4, <1>5, <3>3
    <3>4. QED
      BY <1>5, <3>1, <3>2, <3>3
  <2>3. QED
    BY <1>0, <1>3, <2>1, <2>2 DEF TablesOK, HeadsGrow
<1>14. HistoryOK'
  BY <1>0 DEF HistoryOK
<1>15. DeadOK'
  <2>1. \A p \in sent : msg[p[1]] # p[2] => msg'[p[1]] # p[2]
    BY <1>0, <1>1 DEF HistoryOK, Frame
  <2>2. QED
    BY <1>5, <1>6, <2>1, DeadKept
<1>16. RoomOK'
  <2>1. c \notin Binders /\ Binders' = Binders \union {c}
    BY <1>1, <1>7 DEF Binders, Binding, Registering, Handles, Frame
  <2>2. Accepted' = Accepted
    BY <1>1 DEF Accepted, Frame
  <2>3. /\ IsFiniteSet(Binders \union {c})
        /\ Cardinality(Binders \union {c}) = Cardinality(Binders) + 1
    BY <1>0, <2>1, FS_AddElement DEF RoomOK
  <2>4. Cardinality(Binders) \in Nat /\ Len(sockfdNick) \in Nat
    BY <1>0, Found, FS_CardinalityType DEF RoomOK
  <2>5. Len(sockfdNick') + Cardinality(Binders') =< Len(connections')
    BY <1>0, <1>5, <2>1, <2>3, <2>4 DEF RoomOK
  <2>6. QED
    BY <1>0, <2>1, <2>2, <2>3, <2>5 DEF RoomOK
<1>17. QED
  BY <1>1, <1>12, <1>13, <1>14, <1>15, <1>16 DEF CommandsInv, Frame

\* A list has the names it had, and the one behind them.
LEMMA HeadAppended ==
    ASSUME NEW h, NEW x, NEW g, Appended(h, x, g)
    PROVE  /\ \A n : find_user_node(h, n) => find_user_node(g, n)
           /\ find_user_node(g, x.name)
  BY DEF Appended, find_user_node

LEMMA NickStep ==
    ASSUME CommandsInv, NEW c \in Conn, Nick(c)
    PROVE  CommandsInv'
<1> PICK n : n = name(c)
  OBVIOUS
<1>0. TablesOK /\ connection_count \in Int
  BY Found DEF CommandsInv
<1>1. /\ pc[c] = "dispatch" /\ Handles(c, "NICK") /\ find_connection_map_node(n) = 0
      /\ nick_head' = Append(nick_head, [name |-> n])
      /\ UNCHANGED <<user_head, sockfdNick, nodes, connection_count, sent, again>>
  BY DEF Nick, NickNew, Dispatched, At, history
<1>2. Appended(nick_head, [name |-> n], nick_head')
  <2>1. IsSequence(nick_head)
    BY <1>0 DEF TablesOK
  <2>2. QED
    BY <1>1, <2>1, AppendSeq, Zenon
<1>3. /\ \A k : find_user_node(nick_head, k) => find_user_node(nick_head', k)
      /\ find_user_node(nick_head', n)
  <2>1. [name |-> n].name = n
    OBVIOUS
  <2>2. QED
    BY <1>2, <2>1, HeadAppended, Zenon
<1>4. HeadsGrow
  BY <1>0, <1>1, <1>2, <1>3 DEF HeadsGrow, TablesOK, Appended
<1>5. CASE find_user_node(user_head, n) /\ \E m : StartWelcome(c, m)
  <2>1. PICK m : StartWelcome(c, m)
    BY <1>5
  <2>2. \A i \in DOMAIN connections : connections[i].name # n
    BY <1>1, FindNode
  <2>3. find_user_node(user_head', n)
    BY <1>1, <1>5
  <2>4. Registering(c)
    BY <1>1 DEF Registering
  <2>5. QED
    BY <1>1, <1>3, <1>4, <2>1, <2>2, <2>3, <2>4, WelcomeStep
<1>6. CASE NoWelcome(c)
  <2>1. Done(c) /\ KeptHash /\ ~Binding(c)
    BY <1>0, <1>1, <1>6 DEF NoWelcome, KeptHash, Binding
  <2>2. QED
    BY <1>1, <1>4, <2>1, DoneStep
<1>7. QED
  BY <1>5, <1>6 DEF Nick

LEMMA UserStep ==
    ASSUME CommandsInv, NEW c \in Conn, User(c)
    PROVE  CommandsInv'
<1> PICK n, m : n = name(c) /\ m = [cmd |-> msg[c].cmd, params |-> params(c)]
  OBVIOUS
<1>0. TablesOK /\ connection_count \in Int
  BY Found DEF CommandsInv
<1>1. /\ pc[c] = "dispatch" /\ Handles(c, "USER") /\ ~find_user_node(user_head, n)
      /\ user_head' = Append(user_head, [name |-> n, msg |-> m])
      /\ UNCHANGED <<nick_head, sockfdNick, nodes, connection_count, sent, again>>
  BY DEF User, UserNew, Dispatched, At, history
<1>2. Appended(user_head, [name |-> n, msg |-> m], user_head')
  <2>1. IsSequence(user_head)
    BY <1>0 DEF TablesOK
  <2>2. QED
    BY <1>1, <2>1, AppendSeq, Zenon
<1>3. /\ \A k : find_user_node(user_head, k) => find_user_node(user_head', k)
      /\ find_user_node(user_head', n)
  <2>1. [name |-> n, msg |-> m].name = n
    OBVIOUS
  <2>2. QED
    BY <1>2, <2>1, HeadAppended, Zenon
<1>4. HeadsGrow
  BY <1>0, <1>1, <1>2, <1>3 DEF HeadsGrow, TablesOK, Appended
<1>5. CASE find_user_node(nick_head, n) /\ StartWelcome(c, m)
  <2>1. \A i \in DOMAIN connections : connections[i].name # n
    BY <1>0, <1>1 DEF TablesOK
  <2>2. find_user_node(nick_head', n)
    BY <1>1, <1>5
  <2>3. Registering(c)
    BY <1>1 DEF Registering
  <2>4. QED
    BY <1>1, <1>3, <1>4, <1>5, <2>1, <2>2, <2>3, WelcomeStep
<1>6. CASE NoWelcome(c)
  <2>1. Done(c) /\ KeptHash /\ ~Binding(c)
    BY <1>0, <1>1, <1>6 DEF NoWelcome, KeptHash, Binding
  <2>2. QED
    BY <1>1, <1>4, <2>1, DoneStep
<1>7. QED
  BY <1>5, <1>6 DEF User

-----------------------------------------------------------------------------
(* The invariant *)

LEMMA CommandsInit == Init => CommandsInv
<1> SUFFICES ASSUME Init PROVE CommandsInv
  OBVIOUS
<1>1. /\ nick_head = <<>> /\ user_head = <<>> /\ connections = <<>> /\ sockfdNick = <<>>
      /\ nodes = 0 /\ connection_count = 0 /\ sent = {} /\ again = {}
      /\ pc = [c \in Conn |-> "none"] /\ msg = [c \in Conn |-> NULL]
      /\ loaded = [c \in Conn |-> NULL] /\ target = [c \in Conn |-> 0]
      /\ iter = [c \in Conn |-> <<0, FALSE>>] /\ opened = [c \in Conn |-> NULL]
      /\ started = [c \in Conn |-> 0]
  BY DEF Init
<1>2. IsSequence(<<>>) /\ Len(<<>>) = 0 /\ DOMAIN <<>> = {}
  BY DEF IsSequence
<1>3. Shape
  BY <1>1 DEF Shape, OnConn
<1>4. TablesOK /\ HistoryOK /\ DeadOK
  BY <1>1, <1>2 DEF TablesOK, HistoryOK, DeadOK
<1>5. Binders = {} /\ Accepted = {}
  BY <1>1 DEF Binders, Binding, Accepted
<1>6. RoomOK
  BY <1>1, <1>2, <1>5, FS_EmptySet DEF RoomOK
<1>7. ASSUME NEW c \in Conn PROVE Own(c)
  <2>1. /\ pc[c] = "none" /\ msg[c] = NULL /\ loaded[c] = NULL /\ target[c] = 0
        /\ iter[c] = <<0, FALSE>> /\ opened[c] = NULL /\ started[c] = 0
    BY <1>1
  <2>2. 0 \in 0..Len(connections) /\ Len(connections) = 0
    BY <1>1, <1>2
  <2>3. iter[c] \in (0..Len(connections)) \X BOOLEAN /\ iter[c][1] = 0 /\ iter[c][2] = FALSE
    <3>1. PICK S, p : S = 0..Len(connections) /\ p = iter[c]
      OBVIOUS
    <3>2. 0 \in S /\ FALSE \in BOOLEAN /\ p = <<0, FALSE>>
      BY <2>1, <2>2, <3>1
    <3>3. p \in S \X BOOLEAN /\ p[1] = 0 /\ p[2] = FALSE
      BY <3>2, PairOf, Zenon
    <3>4. QED
      BY <3>1, <3>3, Zenon
  <2>4. NamesOf(c) = {}
    BY <1>1, <1>2 DEF NamesOf
  <2>5. OwnTypes(c)
    BY <1>1, <2>1, <2>2, <2>3 DEF OwnTypes, PCs
  <2>6. CountOK(c)
    BY <2>1, <2>2, <2>3 DEF CountOK
  <2>7. MsgOK(c) /\ TargetOK(c) /\ LoadedOK(c) /\ NickOK(c)
    BY <2>1, <2>4 DEF MsgOK, TargetOK, LoadedOK, NickOK
  <2>8. QED
    BY <2>5, <2>6, <2>7 DEF Own
<1>8. QED
  BY <1>3, <1>4, <1>6, <1>7 DEF CommandsInv

\* The steps that run into undefined behaviour change nothing else.
LEMMA UndefinedSteps ==
    ASSUME CommandsInv, NEW c \in Conn,
           \/ FindUndefined(c) \/ WhoisNull(c) \/ WhoisUndefined(c)
           \/ NameUndefined(c) \/ NameTooLong(c)
    PROVE  CommandsInv'
<1>1. UNCHANGED <<tables, pc, local, history>>
  BY DEF FindUndefined, WhoisNull, WhoisUndefined, NameUndefined, NameTooLong, Undefined
<1>2. UNCHANGED <<tables, pc, local, sent, again>>
  BY <1>1 DEF history
<1>3. QED
  BY <1>2, Unmoved

LEMMA CommandsStep == CommandsInv /\ [Next]_vars => CommandsInv'
<1> SUFFICES ASSUME CommandsInv, [Next]_vars PROVE CommandsInv'
  OBVIOUS
<1>1. CASE UNCHANGED vars
  <2>1. UNCHANGED <<tables, pc, local, sent, again>>
    BY <1>1 DEF vars, history
  <2>2. QED
    BY <2>1, Unmoved
<1>2. ASSUME NEW c \in Conn,
             \/ Accept(c) \/ (\E s \in Lines[c] : Receive(c, s))
             \/ LoadHead(c) \/ FindUndefined(c)
             \/ response_PING(c) \/ Pong(c) \/ MotdFound(c) \/ UnknownFound(c)
             \/ Quit(c) \/ HangUp(c) \/ Disconnect(c)
             \/ WhoisTarget(c) \/ WhoisIgnored(c) \/ WhoisNull(c) \/ WhoisNone(c)
             \/ WhoisUser(c) \/ WhoisFree(c) \/ WhoisUndefined(c)
             \/ PrivmsgKnown(c) \/ PrivmsgUnknown(c) \/ NameUndefined(c)
             \/ UsersStart(c) \/ CountOne(c) \/ UsersCounted(c) \/ UnknownCounted(c) \/ Clients(c)
             \/ NickRefused(c) \/ Nick(c) \/ UserRefused(c) \/ User(c) \/ NameTooLong(c)
             \/ Bind(c)
      PROVE  CommandsInv'
  <2>1. CASE Accept(c) \/ \E s \in Lines[c] : Receive(c, s)
    BY <2>1, AcceptStep, ReceiveStep
  <2>2. CASE LoadHead(c) \/ Quit(c) \/ HangUp(c) \/ Disconnect(c)
    BY <2>2, HeadStep, LeaveSteps, DisconnectStep
  <2>3. CASE \/ FindUndefined(c) \/ WhoisNull(c) \/ WhoisUndefined(c)
             \/ NameUndefined(c) \/ NameTooLong(c)
    BY <2>3, UndefinedSteps
  <2>4. CASE \/ response_PING(c) \/ Pong(c) \/ MotdFound(c) \/ UnknownFound(c)
             \/ WhoisIgnored(c) \/ WhoisNone(c) \/ PrivmsgKnown(c) \/ PrivmsgUnknown(c)
             \/ NickRefused(c) \/ UserRefused(c)
    BY <2>4, EndSteps
  <2>5. CASE WhoisTarget(c) \/ WhoisUser(c) \/ WhoisFree(c)
    BY <2>5, TargetStep, WhoisUserStep, FreeStep
  <2>6. CASE UsersStart(c) \/ CountOne(c) \/ UsersCounted(c) \/ UnknownCounted(c) \/ Clients(c)
    BY <2>6, StartStep, CountStep, CountedSteps, ClientsStep
  <2>7. CASE Nick(c) \/ User(c) \/ Bind(c)
    BY <2>7, NickStep, UserStep, BindStep
  <2>8. QED
    BY <1>2, <2>1, <2>2, <2>3, <2>4, <2>5, <2>6, <2>7, Zenon
<1>3. QED
  BY <1>1, <1>2, Zenon DEF Next

LEMMA CommandsCorrect == Spec => []CommandsInv
  BY CommandsInit, CommandsStep, PTL DEF Spec
-----------------------------------------------------------------------------
(* What a number of LUSERS is, when it is reported *)

\* A client's names are the names of its nodes of connections.
LEMMA NamesFinite ==
    ASSUME CommandsInv, NEW d \in Conn
    PROVE  IsFiniteSet(NamesOf(d))
<1> DEFINE mine == {j \in DOMAIN connections : connections[j].fd = d}
           f == [j \in mine |-> connections[j].name]
<1>1. Len(connections) \in Nat /\ DOMAIN connections = 1..Len(connections)
  BY Found
<1>2. IsFiniteSet(1..Len(connections))
  BY <1>1, FS_Interval
<1>3. IsFiniteSet(mine)
  <2>1. mine \in SUBSET (1..Len(connections))
    BY <1>1
  <2> HIDE DEF mine
  <2>2. QED
    BY <1>2, <2>1, FS_Subset
<1>4. f \in Surjection(mine, NamesOf(d))
  BY DEF Surjection, NamesOf
<1> HIDE DEF mine, f
<1>5. QED
  BY <1>3, <1>4, FS_Surjection

\* Clients that have registered once each are not more than the clients accepted.
LEMMA OneNameEach ==
    ASSUME CommandsInv, \A d \in Conn : ~(Cardinality(NamesOf(d)) > 1)
    PROVE  Len(connections) =< Cardinality(Accepted) /\ Cardinality(Accepted) \in Nat
<1> DEFINE f == [i \in 1..Len(connections) |-> connections[i].fd]
<1>1. Len(connections) \in Nat /\ DOMAIN connections = 1..Len(connections)
  BY Found
<1>2. /\ IsFiniteSet(1..Len(connections))
      /\ Cardinality(1..Len(connections)) = Len(connections)
  <2>1. 1 \in Int /\ Len(connections) \in Int
    BY <1>1
  <2>2. /\ IsFiniteSet(1..Len(connections))
        /\ Cardinality(1..Len(connections)) =
              IF 1 > Len(connections) THEN 0 ELSE Len(connections) - 1 + 1
    BY <2>1, FS_Interval, Zenon
  <2>3. QED
    BY <1>1, <2>2
<1>3. IsFiniteSet(Accepted) /\ Cardinality(Accepted) \in Nat
  BY FS_CardinalityType DEF CommandsInv, RoomOK
<1>4. f \in [1..Len(connections) -> Accepted]
  BY <1>1 DEF CommandsInv, TablesOK, Accepted
<1>5. ASSUME Cardinality(Accepted) < Len(connections) PROVE FALSE
  <2> HIDE DEF f
  <2>1. PICK i, j \in 1..Len(connections) : i # j /\ f[i] = f[j]
    <3>1. Cardinality(Accepted) < Cardinality(1..Len(connections))
      BY <1>2, <1>5
    <3>2. QED
      BY <1>2, <1>3, <1>4, <3>1, FS_PigeonHole
  <2>2. connections[i].fd = connections[j].fd /\ connections[i].fd \in Conn
    BY <1>1, <2>1 DEF f, CommandsInv, TablesOK
  <2>3. connections[i].name # connections[j].name
    BY <1>1, <2>1 DEF CommandsInv, TablesOK
  <2>4. PICK d, a, b : d = connections[i].fd /\ a = connections[i].name /\ b = connections[j].name
    OBVIOUS
  <2>5. d \in Conn /\ a # b /\ {a, b} \subseteq NamesOf(d)
    BY <1>1, <2>1, <2>2, <2>3, <2>4 DEF NamesOf
  <2>6. Cardinality({a, b}) = 2
    <3>1. IsFiniteSet({a}) /\ Cardinality({a}) = 1
      BY FS_Singleton
    <3>2. Cardinality({a} \union {b}) = Cardinality({a}) + 1
      BY <2>5, <3>1, FS_AddElement
    <3>3. {a} \union {b} = {a, b}
      OBVIOUS
    <3>4. QED
      BY <3>1, <3>2, <3>3
  <2>7. Cardinality({a, b}) =< Cardinality(NamesOf(d)) /\ Cardinality(NamesOf(d)) \in Nat
    BY <2>5, NamesFinite, FS_Subset, FS_CardinalityType
  <2>8. QED
    BY <2>5, <2>6, <2>7
<1>6. QED
  BY <1>1, <1>3, <1>5

LEMMA UsersReport ==
    ASSUME CommandsInv, NEW c \in Conn, UsersCounted(c)
    PROVE  LusersCounts'
<1>0. Own(c) /\ Len(connections) \in Nat /\ nodes \in Nat
  BY Found
<1>1. /\ pc[c] = "users_iter" /\ ~iter[c][2] /\ connections' = connections
      /\ report' = [what |-> "users", number |-> iter[c][1], since |-> started[c]]
  BY DEF UsersCounted, At, WriteReport, tables
<1>2. iter[c][1] \in 0..Len(connections) /\ started[c] \in 0..nodes /\ started[c] =< iter[c][1]
  BY <1>0, <1>1 DEF Own, OwnTypes, CountOK
<1>3. iter[c][1] \in started[c]..Len(connections)
  BY <1>0, <1>2
<1>4. QED
  BY <1>1, <1>3 DEF LusersCounts

LEMMA UnknownReport ==
    ASSUME CommandsInv, NEW c \in Conn, UnknownCounted(c)
    PROVE  LusersCounts'
<1> DEFINE open == IF opened[c] = NULL THEN connection_count ELSE opened[c]
<1>0. Own(c) /\ Shape /\ Len(connections) \in Nat /\ connection_count \in Int
  BY Found
<1>1. /\ pc[c] = "unknown_iter" /\ pc' = [pc EXCEPT ![c] = "clients"] /\ connections' = connections
      /\ report' = [what |-> "unknown", number |-> open - iter[c][1], since |-> open]
  BY DEF UnknownCounted, At, WriteReport, Goto, tables
<1>2. open \in Int /\ iter[c][1] \in 0..Len(connections)
  BY <1>0 DEF Own, OwnTypes
<1>3. PICK x, k : x = open /\ k = iter[c][1]
  OBVIOUS
<1> HIDE DEF open
<1>4. /\ report' = [what |-> "unknown", number |-> x - k, since |-> x]
      /\ x \in Int /\ k \in Nat /\ k =< Len(connections)
  BY <1>0, <1>1, <1>2, <1>3
<1>5. Accepted' = Accepted /\ \A d \in Conn : NamesOf(d)' = NamesOf(d)
  BY <1>0, <1>1 DEF Accepted, Shape, OnConn, NamesOf
<1>6. ASSUME x - k < 0, \A d \in Conn : ~(Cardinality(NamesOf(d)) > 1)
      PROVE  x < Cardinality(Accepted)
  BY <1>0, <1>4, <1>6, OneNameEach
<1>7. x - k < 0 => \/ \E d \in Conn : Cardinality(NamesOf(d)') > 1
                   \/ x < Cardinality(Accepted')
  BY <1>5, <1>6
<1>8. QED
  BY <1>4, <1>7 DEF LusersCounts, Accepted

LEMMA ClientsReport ==
    ASSUME CommandsInv, NEW c \in Conn, Clients(c)
    PROVE  LusersCounts'
<1> DEFINE size == get_sockfd_nick_map_node_size
<1>0. Own(c) /\ Len(connections) \in Nat /\ nodes \in Nat
  BY Found
<1>1. report' = [what |-> "clients", number |-> size, since |-> started[c]]
  BY DEF Clients, WriteReport
<1>2. size \in {0, 1} /\ (size = 0 => Len(connections) = 0)
  BY DEF get_sockfd_nick_map_node_size
<1>3. started[c] \in Nat /\ started[c] =< Len(connections)
  BY <1>0 DEF Own, OwnTypes, CountOK
<1> HIDE DEF size
<1>4. size =< 1 /\ (started[c] > 0 => size = 1)
  BY <1>0, <1>2, <1>3
<1>5. QED
  BY <1>1, <1>4 DEF LusersCounts

\* All other steps report no number.
LEMMA NoReport ==
    ASSUME NEW c \in Conn,
           \/ Accept(c) \/ (\E s \in Lines[c] : Receive(c, s))
           \/ LoadHead(c) \/ FindUndefined(c)
           \/ response_PING(c) \/ Pong(c) \/ MotdFound(c) \/ UnknownFound(c)
           \/ Quit(c) \/ HangUp(c) \/ Disconnect(c)
           \/ WhoisTarget(c) \/ WhoisIgnored(c) \/ WhoisNull(c) \/ WhoisNone(c)
           \/ WhoisUser(c) \/ WhoisFree(c) \/ WhoisUndefined(c)
           \/ PrivmsgKnown(c) \/ PrivmsgUnknown(c) \/ NameUndefined(c)
           \/ UsersStart(c) \/ CountOne(c)
           \/ NickRefused(c) \/ Nick(c) \/ UserRefused(c) \/ User(c) \/ NameTooLong(c)
           \/ Bind(c)
    PROVE  report' = NULL
<1>1. CASE Accept(c) \/ (\E s \in Lines[c] : Receive(c, s)) \/ LoadHead(c) \/ Quit(c)
           \/ HangUp(c) \/ Disconnect(c) \/ UsersStart(c) \/ CountOne(c) \/ Bind(c)
  BY <1>1 DEF Accept, Receive, LoadHead, Quit, HangUp, Disconnect, UsersStart, CountOne, Bind,
              Silent, Write, WriteReport
<1>2. CASE FindUndefined(c) \/ WhoisNull(c) \/ WhoisUndefined(c) \/ NameUndefined(c) \/ NameTooLong(c)
  BY <1>2 DEF FindUndefined, WhoisNull, WhoisUndefined, NameUndefined, NameTooLong, Undefined
<1>3. CASE response_PING(c) \/ Pong(c) \/ MotdFound(c) \/ UnknownFound(c) \/ PrivmsgKnown(c)
           \/ PrivmsgUnknown(c)
  BY <1>3 DEF response_PING, Pong, MotdFound, UnknownFound, PrivmsgKnown, PrivmsgUnknown,
              Silent, Write, WriteReport
<1>4. CASE WhoisTarget(c) \/ WhoisIgnored(c) \/ WhoisNone(c) \/ WhoisUser(c) \/ WhoisFree(c)
  BY <1>4 DEF WhoisTarget, WhoisIgnored, WhoisNone, WhoisUser, WhoisFree, Silent, Write, WriteReport
<1>5. CASE NickRefused(c) \/ UserRefused(c)
  BY <1>5 DEF NickRefused, UserRefused, Silent, Write, WriteReport
<1>6. CASE Nick(c) \/ User(c)
  BY <1>6 DEF Nick, User, NoWelcome, StartWelcome, Silent, Write, WriteReport
<1>7. QED
  BY <1>1, <1>2, <1>3, <1>4, <1>5, <1>6, Zenon
\* The numbers LUSERS reports, counted with no mutex held while other clients register
\* and leave (main.c:584-611, my_utils.h:230-241, 294-305): the users are not fewer than
\* had a nick when the count began and not more than are registered at its end; the
\* unknown connections are a negative number only when a client has left, has registered
\* twice or came after connection_count was read; the clients are never more than one.
THEOREM LusersCountsCorrect == Spec => []LusersCounts
<1>1. Init => LusersCounts
  BY DEF Init, LusersCounts
<1>2. CommandsInv /\ LusersCounts /\ [Next]_vars => LusersCounts'
  <2> SUFFICES ASSUME CommandsInv, LusersCounts, [Next]_vars PROVE LusersCounts'
    OBVIOUS
  <2>1. CASE UNCHANGED vars
    BY <2>1 DEF vars, tables, output, LusersCounts, Left, NamesOf
  <2>2. ASSUME NEW c \in Conn,
               \/ Accept(c) \/ (\E s \in Lines[c] : Receive(c, s))
               \/ LoadHead(c) \/ FindUndefined(c)
               \/ response_PING(c) \/ Pong(c) \/ MotdFound(c) \/ UnknownFound(c)
               \/ Quit(c) \/ HangUp(c) \/ Disconnect(c)
               \/ WhoisTarget(c) \/ WhoisIgnored(c) \/ WhoisNull(c) \/ WhoisNone(c)
               \/ WhoisUser(c) \/ WhoisFree(c) \/ WhoisUndefined(c)
               \/ PrivmsgKnown(c) \/ PrivmsgUnknown(c) \/ NameUndefined(c)
               \/ UsersStart(c) \/ CountOne(c)
               \/ NickRefused(c) \/ Nick(c) \/ UserRefused(c) \/ User(c) \/ NameTooLong(c)
               \/ Bind(c)
        PROVE  LusersCounts'
    <3>1. report' = NULL
      BY <2>2, NoReport
    <3>2. QED
      BY <3>1 DEF LusersCounts
  <2>3. ASSUME NEW c \in Conn, UsersCounted(c) \/ UnknownCounted(c) \/ Clients(c)
        PROVE  LusersCounts'
    BY <2>3, UsersReport, UnknownReport, ClientsReport
  <2>4. QED
    BY <2>1, <2>2, <2>3, Zenon DEF Next
<1>3. QED
  BY <1>1, <1>2, CommandsCorrect, PTL DEF Spec

-----------------------------------------------------------------------------
(* Types *)

CountersOK == nlines \in [Conn -> 0..MaxLines] /\ nothers \in 0..MaxOthers

LEMMA CountersStep == CountersOK /\ [Next]_vars => CountersOK'
<1> SUFFICES ASSUME CountersOK, [Next]_vars PROVE CountersOK'
  OBVIOUS
<1>1. CASE UNCHANGED <<nlines, nothers>>
  BY <1>1 DEF CountersOK
<1>2. ASSUME NEW c \in Conn, NEW s \in Lines[c], Receive(c, s) PROVE CountersOK'
  <2>1. /\ nlines[c] < MaxLines /\ nlines' = [nlines EXCEPT ![c] = nlines[c] + 1]
        /\ nothers' \in {nothers, nothers + 1} /\ nothers' =< MaxOthers
    BY <1>2 DEF Receive
  <2>2. QED
    BY <2>1, MaxLinesAssumption DEF CountersOK
<1>3. ASSUME NEW c \in Conn,
             \/ Accept(c) \/ LoadHead(c) \/ FindUndefined(c)
             \/ response_PING(c) \/ Pong(c) \/ MotdFound(c) \/ UnknownFound(c)
             \/ Quit(c) \/ HangUp(c) \/ Disconnect(c)
             \/ WhoisTarget(c) \/ WhoisIgnored(c) \/ WhoisNull(c) \/ WhoisNone(c)
             \/ WhoisUser(c) \/ WhoisFree(c) \/ WhoisUndefined(c)
             \/ PrivmsgKnown(c) \/ PrivmsgUnknown(c) \/ NameUndefined(c)
             \/ UsersStart(c) \/ CountOne(c) \/ UsersCounted(c) \/ UnknownCounted(c) \/ Clients(c)
             \/ NickRefused(c) \/ Nick(c) \/ UserRefused(c) \/ User(c) \/ NameTooLong(c)
             \/ Bind(c)
      PROVE  UNCHANGED <<nlines, nothers>>
  <2>1. CASE \/ Accept(c) \/ LoadHead(c) \/ Quit(c) \/ HangUp(c) \/ Disconnect(c) \/ Bind(c)
    BY <2>1 DEF Accept, LoadHead, Quit, HangUp, Disconnect, Bind, history
  <2>2. CASE \/ FindUndefined(c) \/ WhoisNull(c) \/ WhoisUndefined(c) \/ NameUndefined(c)
             \/ NameTooLong(c)
    BY <2>2 DEF FindUndefined, WhoisNull, WhoisUndefined, NameUndefined, NameTooLong,
                Undefined, history
  <2>3. CASE response_PING(c) \/ Pong(c) \/ MotdFound(c) \/ UnknownFound(c)
             \/ PrivmsgKnown(c) \/ PrivmsgUnknown(c)
    BY <2>3 DEF response_PING, Pong, MotdFound, UnknownFound, PrivmsgKnown, PrivmsgUnknown, history
  <2>4. CASE WhoisTarget(c) \/ WhoisIgnored(c) \/ WhoisNone(c) \/ WhoisUser(c) \/ WhoisFree(c)
    BY <2>4 DEF WhoisTarget, WhoisIgnored, WhoisNone, WhoisUser, WhoisFree, history
  <2>5. CASE UsersStart(c) \/ CountOne(c) \/ UsersCounted(c) \/ UnknownCounted(c) \/ Clients(c)
    BY <2>5 DEF UsersStart, CountOne, UsersCounted, UnknownCounted, Clients, history
  <2>6. CASE NickRefused(c) \/ Nick(c) \/ UserRefused(c) \/ User(c)
    BY <2>6 DEF NickRefused, Nick, UserRefused, User, history
  <2>7. QED
    BY <1>3, <2>1, <2>2, <2>3, <2>4, <2>5, <2>6, Zenon
<1>4. CASE UNCHANGED vars
  BY <1>1, <1>4 DEF vars, history
<1>5. QED
  BY <1>1, <1>2, <1>3, <1>4, Zenon DEF Next

LEMMA InvTypes == CommandsInv /\ CountersOK => TypeOK
<1> SUFFICES ASSUME CommandsInv, CountersOK PROVE TypeOK
  OBVIOUS
<1>1. Shape /\ TablesOK /\ HistoryOK /\ \A c \in Conn : OwnTypes(c)
  BY DEF CommandsInv, Own
<1>2. /\ pc \in [Conn -> PCs] /\ loaded \in [Conn -> Nat \union {NULL}]
      /\ target \in [Conn -> 0..Len(connections)]
      /\ opened \in [Conn -> Int \union {NULL}] /\ started \in [Conn -> 0..nodes]
  BY <1>1 DEF Shape, OnConn, OwnTypes
<1>3. iter \in [Conn -> (0..Len(connections)) \X BOOLEAN]
  BY <1>1 DEF Shape, OnConn, OwnTypes
<1>4. QED
  BY <1>1, <1>2, <1>3 DEF TypeOK, TablesOK, HistoryOK, CountersOK

\* The types of the tables, of what the threads keep between two steps of a handler
\* (main.c:751-1024, my_utils.h), and of the bounds on what clients send.
THEOREM CommandsTypeCorrect == Spec => []TypeOK
<1>1. Init => CountersOK
  BY MaxLinesAssumption DEF Init, CountersOK
<1>2. QED
  BY <1>1, CountersStep, InvTypes, CommandsCorrect, PTL DEF Spec

-----------------------------------------------------------------------------
(* The tokens of a line *)

TokenSeq == Seq(Nat \X Nat)

LEMMA GoesOnType ==
    ASSUME NEW s, NEW P, NEW t \in Seq(P \X P), NEW i \in P
    PROVE  GoesOn(s, t, i) \in Seq(P \X P)
<1>1. PICK A : A = P \X P
  OBVIOUS
<1>2. t \in Seq(A)
  BY <1>1
<1>3. <<i, i>> \in A
  BY <1>1
<1>4. PICK v : v = <<t[Len(t)][1], i>>
  OBVIOUS
<1>5. Len(t) \in DOMAIN t => v \in A
  <2> SUFFICES ASSUME Len(t) \in DOMAIN t PROVE v \in A
    OBVIOUS
  <2>1. t[Len(t)] \in A
    BY <1>2
  <2>2. QED
    BY <1>1, <1>4, <2>1
<1>6. [t EXCEPT ![Len(t)] = v] \in Seq(A)
  <2>1. PICK n \in Nat : n = Len(t)
    BY <1>2
  <2>2. DOMAIN t = 1..n /\ \A k \in 1..n : t[k] \in A
    BY <1>2, <2>1
  <2>3. [t EXCEPT ![Len(t)] = v] = [k \in 1..n |-> IF k = n THEN v ELSE t[k]]
    BY <1>2, <2>1, <2>2
  <2>4. \A k \in 1..n : (IF k = n THEN v ELSE t[k]) \in A
    BY <1>5, <2>1, <2>2
  <2>5. [k \in 1..n |-> IF k = n THEN v ELSE t[k]] \in Seq(A)
    BY <2>4
  <2>6. QED
    BY <2>3, <2>5
<1>7. Append(t, <<i, i>>) \in Seq(A)
  BY <1>2, <1>3
<1>8. GoesOn(s, t, i) \in {t, Append(t, <<i, i>>), [t EXCEPT ![Len(t)] = v]}
  BY <1>4 DEF GoesOn
<1>9. QED
  BY <1>1, <1>2, <1>6, <1>7, <1>8

TokenRounds(s, f) == f = [i \in 0..Len(s) |-> IF i = 0 THEN <<>> ELSE GoesOn(s, f[i - 1], i)]

LEMMA TokensDefined ==
    ASSUME NEW s, NEW l \in Nat, l = Len(s)
    PROVE  \E f : /\ f[0] = <<>> /\ \A i \in 1..l : f[i] = GoesOn(s, f[i - 1], i)
                  /\ Tokens(s) = f[l]
<1>1. PICK X : X = TokenSeq
  OBVIOUS
<1>2. <<>> \in X
  BY <1>1 DEF TokenSeq
<1>3. PICK G : G = [x \in (1..l) \X X |-> GoesOn(s, x[2], x[1])]
  OBVIOUS
<1>4. ASSUME NEW x \in (1..l) \X X PROVE GoesOn(s, x[2], x[1]) \in X
  <2>1. x[2] \in Seq(Nat \X Nat) /\ x[1] \in Nat
    BY <1>1 DEF TokenSeq
  <2>2. QED
    BY <1>1, <2>1, GoesOnType DEF TokenSeq
<1>5. G \in [(1..l) \X X -> X]
  BY <1>3, <1>4
<1>6. PICK g \in [0..l -> X] : \A k \in 0..l : g[k] = IF k = 0 THEN <<>> ELSE G[<<k, g[k - 1]>>]
  <2>1. \E g : RoundsOf(g, l, X, <<>>, G)
    BY <1>2, <1>5, RoundsExist
  <2>2. QED
    BY <2>1 DEF RoundsOf
<1>7. \A k \in 0..l : g[k] = IF k = 0 THEN <<>> ELSE GoesOn(s, g[k - 1], k)
  <2> SUFFICES ASSUME NEW k \in 0..l, k # 0 PROVE g[k] = GoesOn(s, g[k - 1], k)
    BY <1>6
  <2>1. k \in 1..l /\ k - 1 \in 0..l
    OBVIOUS
  <2>2. <<k, g[k - 1]>> \in (1..l) \X X
    BY <1>6, <2>1
  <2>3. QED
    BY <1>3, <1>6, <2>2
<1>8. g = [k \in 0..l |-> g[k]]
  BY <1>6
<1>9. g = [k \in 0..l |-> IF k = 0 THEN <<>> ELSE GoesOn(s, g[k - 1], k)]
  BY <1>7, <1>8
<1>10. TokenRounds(s, g)
  BY <1>9, Zenon DEF TokenRounds
<1>11. PICK f : f = CHOOSE h : TokenRounds(s, h)
  OBVIOUS
<1>12. TokenRounds(s, f)
  BY <1>10, <1>11, Zenon
<1>13. Tokens(s) = f[Len(s)]
  BY <1>11, Zenon DEF Tokens, TokenRounds
<1>14. \A k \in 0..l : f[k] = IF k = 0 THEN <<>> ELSE GoesOn(s, f[k - 1], k)
  BY <1>12, Zenon DEF TokenRounds
<1>15. \A k \in 1..l : k \in 0..l /\ k # 0
  OBVIOUS
<1>16. 0 \in 0..l
  OBVIOUS
<1>17. QED
  BY <1>13, <1>14, <1>15, <1>16

\* The tokens of the first i characters of a line without double spaces.
Spaced(s, i, t) ==
    /\ t \in TokenSeq
    /\ \A k \in 1..Len(t) : /\ t[k][1] \in 1..i /\ t[k][2] \in t[k][1]..i
                            /\ \A j \in t[k][1]..t[k][2] : s[j] # SP
    /\ t # <<>> => t[1][1] = 1
    /\ \A k \in 1..(Len(t) - 1) : t[k + 1][1] = t[k][2] + 2 /\ s[t[k][2] + 1] = SP
    /\ i # 0 => t # <<>> /\ t[Len(t)][2] = IF s[i] = SP THEN i - 1 ELSE i

LEMMA SpacedNext ==
    ASSUME NEW s, NEW l \in Nat, l = Len(s), WellSpaced(s), s # <<>>, NEW i \in 0..(l - 1), NEW t, Spaced(s, i, t)
    PROVE  Spaced(s, i + 1, GoesOn(s, t, i + 1))
<1>1. PICK m : m = i + 1
  OBVIOUS
<1>2. i \in Nat /\ m \in 1..l /\ m \in Nat /\ m - 1 = i /\ \A k \in Nat : k =< i => k =< m
  BY <1>1
<1>3. /\ t \in TokenSeq /\ t \in Seq(Nat \X Nat)
      /\ \A k \in 1..Len(t) : /\ t[k][1] \in 1..i /\ t[k][2] \in t[k][1]..i
                              /\ \A j \in t[k][1]..t[k][2] : s[j] # SP
      /\ t # <<>> => t[1][1] = 1
      /\ \A k \in 1..(Len(t) - 1) : t[k + 1][1] = t[k][2] + 2 /\ s[t[k][2] + 1] = SP
      /\ i # 0 => t # <<>> /\ t[Len(t)][2] = IF s[i] = SP THEN i - 1 ELSE i
  BY DEF Spaced, TokenSeq
<1>4. PICK n \in Nat : n = Len(t)
  BY <1>3
<1>5. /\ s[1] # SP
      /\ i # 0 => ~(s[i] = SP /\ s[m] = SP)
  <2>1. s[1] # SP
    BY DEF WellSpaced
  <2>2. i # 0 => i \in 1..(Len(s) - 1)
    BY <1>2
  <2>3. QED
    BY <1>1, <2>1, <2>2 DEF WellSpaced
<1>6. t = <<>> <=> n = 0
  BY <1>3, <1>4
<1>7. i = 0 => n = 0
  <2> SUFFICES ASSUME i = 0, n # 0 PROVE FALSE
    OBVIOUS
  <2>1. 1 \in 1..Len(t)
    BY <1>4
  <2>2. t[1][1] \in 1..0
    BY <1>3, <2>1
  <2>3. QED
    BY <2>2
<1>8. \A k \in 1..n : /\ t[k] \in Nat \X Nat /\ t[k][1] \in 1..m /\ t[k][2] \in t[k][1]..m
                      /\ \A j \in t[k][1]..t[k][2] : s[j] # SP
  BY <1>2, <1>3, <1>4
<1>9. PICK u : u = GoesOn(s, t, m)
  OBVIOUS
<1>10. u \in TokenSeq
  BY <1>2, <1>3, <1>9, GoesOnType DEF TokenSeq
<1>11. CASE s[m] = SP
  <2>1. u = t /\ i # 0
    BY <1>1, <1>5, <1>9, <1>11 DEF GoesOn
  <2>2. t # <<>> /\ t[Len(t)][2] = m - 1
    BY <1>2, <1>3, <1>5, <1>11, <2>1
  <2>3. Spaced(s, m, u)
    BY <1>3, <1>4, <1>8, <1>11, <2>1, <2>2 DEF Spaced
  <2>4. QED
    BY <1>1, <1>9, <2>3
<1>12. CASE s[m] # SP /\ (m = 1 \/ s[m - 1] = SP)
  <2>1. u = Append(t, <<m, m>>)
    BY <1>9, <1>12 DEF GoesOn
  <2>2. Len(u) = n + 1 /\ u[n + 1] = <<m, m>> /\ \A k \in 1..n : u[k] = t[k]
    BY <1>3, <1>4, <2>1
  <2>3. u # <<>> /\ u[Len(u)][2] = m /\ u[n + 1][1] = m /\ u[n + 1][2] = m
    BY <2>2
  <2>4. i # 0 => n # 0 /\ t[n][2] = i - 1 /\ s[i] = SP
    BY <1>2, <1>3, <1>4, <1>6, <1>12
  <2>5. i = 0 => m = 1
    BY <1>1
  <2>6. u[1][1] = 1
    <3>1. CASE n = 0
      BY <2>3, <2>4, <2>5, <3>1
    <3>2. CASE n # 0
      <4>1. 1 \in 1..n /\ t # <<>>
        BY <1>6, <3>2
      <4>2. QED
        BY <1>3, <2>2, <4>1
    <3>3. QED
      BY <3>1, <3>2
  <2>7. ASSUME NEW k \in 1..((n + 1) - 1) PROVE u[k + 1][1] = u[k][2] + 2 /\ s[u[k][2] + 1] = SP
    <3>1. CASE k = n
      <4>1. n # 0 /\ i # 0
        BY <1>7, <3>1
      <4>2. u[k][2] = i - 1 /\ u[k + 1][1] = m /\ (i - 1) + 1 = i /\ (i - 1) + 2 = m
        BY <1>1, <1>2, <2>2, <2>3, <2>4, <3>1, <4>1
      <4>3. QED
        BY <2>4, <4>1, <4>2
    <3>2. CASE k # n
      <4>1. k \in 1..(Len(t) - 1) /\ k \in 1..n /\ k + 1 \in 1..n
        BY <1>4, <3>2
      <4>2. QED
        BY <1>3, <2>2, <4>1
    <3>3. QED
      BY <3>1, <3>2
  <2>8. ASSUME NEW k \in 1..(n + 1)
        PROVE  /\ u[k][1] \in 1..m /\ u[k][2] \in u[k][1]..m
               /\ \A j \in u[k][1]..u[k][2] : s[j] # SP
    <3>1. CASE k = n + 1
      <4>1. u[k][1] = m /\ u[k][2] = m
        BY <2>3, <3>1
      <4>2. m \in 1..m /\ m \in m..m /\ \A j \in m..m : j = m
        BY <1>2
      <4>3. QED
        BY <1>12, <4>1, <4>2
    <3>2. CASE k # n + 1
      <4>1. k \in 1..n
        BY <3>2
      <4>2. QED
        BY <1>8, <2>2, <4>1
    <3>3. QED
      BY <3>1, <3>2
  <2>9. Spaced(s, m, u)
    BY <1>10, <1>12, <2>2, <2>3, <2>6, <2>7, <2>8 DEF Spaced
  <2>10. QED
    BY <1>1, <1>9, <2>9
<1>13. CASE s[m] # SP /\ m # 1 /\ s[m - 1] # SP
  <2>1. u = [t EXCEPT ![n] = <<t[n][1], m>>]
    BY <1>4, <1>9, <1>13 DEF GoesOn
  <2>2. i # 0 /\ s[i] # SP
    BY <1>2, <1>13
  <2>3. n # 0 /\ n \in 1..n /\ t[n][2] = i
    BY <1>3, <1>4, <1>6, <2>2
  <2>4. Len(u) = n /\ u[n] = <<t[n][1], m>> /\ \A k \in 1..n : k # n => u[k] = t[k]
    BY <1>3, <1>4, <2>1, <2>3
  <2>5. u # <<>> /\ u[Len(u)][2] = m /\ \A k \in 1..n : u[k][1] = t[k][1]
    BY <2>3, <2>4
  <2>6. u[1][1] = 1
    BY <1>3, <1>6, <2>3, <2>5
  <2>7. ASSUME NEW k \in 1..(n - 1) PROVE u[k + 1][1] = u[k][2] + 2 /\ s[u[k][2] + 1] = SP
    <3>1. k \in 1..(Len(t) - 1) /\ k \in 1..n /\ k + 1 \in 1..n /\ k # n
      BY <1>4
    <3>2. u[k] = t[k] /\ u[k + 1][1] = t[k + 1][1]
      BY <2>4, <2>5, <3>1
    <3>3. QED
      BY <1>3, <3>1, <3>2
  <2>8. ASSUME NEW k \in 1..n
        PROVE  /\ u[k][1] \in 1..m /\ u[k][2] \in u[k][1]..m
               /\ \A j \in u[k][1]..u[k][2] : s[j] # SP
    <3>1. CASE k = n
      <4>1. PICK a \in 1..m : a = t[n][1]
        BY <1>8, <2>3
      <4>2. u[k][1] = a /\ u[k][2] = m /\ m \in a..m
        BY <1>2, <2>4, <3>1, <4>1
      <4>3. \A j \in a..i : s[j] # SP
        BY <1>8, <2>3, <4>1
      <4>4. \A j \in a..m : j \in a..i \/ j = m
        BY <1>2, <4>1
      <4>5. QED
        BY <1>13, <4>2, <4>3, <4>4
    <3>2. CASE k # n
      BY <1>8, <2>4, <3>2
    <3>3. QED
      BY <3>1, <3>2
  <2>9. Spaced(s, m, u)
    BY <1>10, <1>13, <2>4, <2>5, <2>6, <2>7, <2>8 DEF Spaced
  <2>10. QED
    BY <1>1, <1>9, <2>9
<1>14. QED
  BY <1>11, <1>12, <1>13

LEMMA TokensSpaced ==
    ASSUME NEW s \in Seq(STRING), WellSpaced(s), s # <<>>
    PROVE  Spaced(s, Len(s), Tokens(s))
<1>1. PICK l \in Nat : l = Len(s)
  OBVIOUS
<1>2. PICK f : /\ f[0] = <<>> /\ \A i \in 1..l : f[i] = GoesOn(s, f[i - 1], i)
               /\ Tokens(s) = f[l]
  BY <1>1, TokensDefined
<1>3. PICK T : T = {i \in 0..l : Spaced(s, i, f[i])}
  OBVIOUS
<1>4. 0 \in T
  <2>1. Spaced(s, 0, <<>>)
    BY DEF Spaced, TokenSeq
  <2>2. 0 \in 0..l
    OBVIOUS
  <2>3. QED
    BY <1>2, <1>3, <2>1, <2>2
<1>5. \A i \in 0..(l - 1) : i \in T => i + 1 \in T
  <2> SUFFICES ASSUME NEW i \in 0..(l - 1), i \in T PROVE i + 1 \in T
    OBVIOUS
  <2>1. i + 1 \in 1..l /\ i + 1 \in 0..l /\ (i + 1) - 1 = i
    OBVIOUS
  <2>2. f[i + 1] = GoesOn(s, f[i], i + 1)
    BY <1>2, <2>1
  <2>3. PICK t : t = f[i]
    OBVIOUS
  <2>4. Spaced(s, i, t)
    BY <1>3, <2>3
  <2>5. Spaced(s, i + 1, GoesOn(s, t, i + 1))
    BY <1>1, <2>4, SpacedNext
  <2>6. QED
    BY <1>3, <2>1, <2>2, <2>3, <2>5
<1>6. l \in T
  <2>1. \A k \in 0..l : k \in T
    BY <1>4, <1>5, InductionTo
  <2>2. l \in 0..l
    OBVIOUS
  <2>3. QED
    BY <2>1, <2>2
<1>7. QED
  BY <1>1, <1>2, <1>3, <1>6

-----------------------------------------------------------------------------
(* A line is printed as it was parsed *)

SameLetter(a, b) == toupper(a) = toupper(b)

\* p spells what s has from place a + 1 to place b.
Spells(p, s, a, b) ==
    /\ a \in 0..Len(s) /\ b \in a..Len(s) /\ p \in Seq(STRING) /\ Len(p) = b - a
    /\ \A i \in 1..(b - a) : SameLetter(p[i], s[a + i])

LEMMA SpellsJoin ==
    ASSUME NEW s \in Seq(STRING), NEW p, NEW q, NEW a, NEW b, NEW d, Spells(p, s, a, b), Spells(q, s, b, d)
    PROVE  Spells(p \o q, s, a, d)
<1>1. PICK l \in Nat : l = Len(s)
  OBVIOUS
<1>2. /\ a \in 0..l /\ b \in a..l /\ p \in Seq(STRING) /\ Len(p) = b - a
      /\ \A i \in 1..(b - a) : SameLetter(p[i], s[a + i])
      /\ d \in b..l /\ q \in Seq(STRING) /\ Len(q) = d - b
      /\ \A i \in 1..(d - b) : SameLetter(q[i], s[b + i])
  BY <1>1 DEF Spells
<1>3. PICK r : r = p \o q
  OBVIOUS
<1>4. r \in Seq(STRING) /\ Len(r) = (b - a) + (d - b)
      /\ (\A n \in 1..(b - a) : r[n] = p[n]) /\ \A n \in 1..(d - b) : r[(b - a) + n] = q[n]
  <2>1. /\ r \in Seq(STRING) /\ Len(r) = Len(p) + Len(q)
        /\ \A n \in 1..Len(p) : r[n] = p[n]
        /\ \A n \in 1..Len(q) : r[Len(p) + n] = q[n]
    <3>1. PICK S : S = STRING
      OBVIOUS
    <3>2. p \in Seq(S) /\ q \in Seq(S)
      BY <1>2, <3>1
    <3>3. r \in Seq(S) /\ Len(r) = Len(p) + Len(q)
          /\ (\A n \in 1..Len(p) : r[n] = p[n])
          /\ \A n \in 1..Len(q) : r[Len(p) + n] = q[n]
      BY <1>3, <3>2, JoinedSeq
    <3>4. QED
      BY <3>1, <3>3
  <2>2. QED
    BY <1>2, <2>1
<1>5. d \in a..l /\ (b - a) + (d - b) = d - a
  BY <1>2
<1>6. ASSUME NEW i \in 1..(d - a) PROVE SameLetter(r[i], s[a + i])
  <2>1. CASE i =< b - a
    <3>1. i \in 1..(b - a)
      BY <1>2, <2>1
    <3>2. r[i] = p[i] /\ SameLetter(p[i], s[a + i])
      BY <1>2, <1>4, <3>1
    <3>3. QED
      BY <3>2
  <2>2. CASE ~(i =< b - a)
    <3>1. PICK j : j = i - (b - a)
      OBVIOUS
    <3>2. j \in 1..(d - b) /\ i = (b - a) + j /\ a + i = b + j
      BY <1>2, <2>2, <3>1
    <3>3. r[i] = q[j] /\ SameLetter(q[j], s[b + j])
      BY <1>2, <1>4, <3>2
    <3>4. QED
      BY <3>2, <3>3
  <2>3. QED
    BY <2>1, <2>2
<1>7. QED
  BY <1>1, <1>2, <1>3, <1>4, <1>5, <1>6 DEF Spells

LEMMA SpellsPart ==
    ASSUME NEW s \in Seq(STRING), NEW a \in 0..Len(s), NEW b \in a..Len(s)
    PROVE  Spells(SubSeq(s, a + 1, b), s, a, b)
<1>1. PICK l \in Nat : l = Len(s)
  OBVIOUS
<1>2. a \in 0..l /\ b \in a..l /\ a + 1 \in Int /\ b \in Int /\ b - a \in Nat /\ a =< b
  BY <1>1
<1>3. \A i \in (a + 1)..b : i \in 1..l
  BY <1>2
<1>4. \A i \in (a + 1)..b : s[i] \in STRING
  BY <1>1, <1>3
<1>5. PICK p : p = SubSeq(s, a + 1, b)
  OBVIOUS
<1>6. /\ p \in Seq(STRING) /\ Len(p) = IF a + 1 =< b THEN b - (a + 1) + 1 ELSE 0
      /\ \A i \in 1..(b - (a + 1) + 1) : p[i] = s[(a + 1) + i - 1]
  BY <1>2, <1>4, <1>5, SubSeqProperties
<1>7. b - (a + 1) + 1 = b - a /\ (IF a + 1 =< b THEN b - (a + 1) + 1 ELSE 0) = b - a
  BY <1>2
<1>8. \A i \in 1..(b - a) : (a + 1) + i - 1 = a + i
  BY <1>2
<1>9. \A i \in 1..(b - a) : p[i] = s[a + i]
  BY <1>6, <1>7, <1>8
<1>10. QED
  BY <1>1, <1>2, <1>5, <1>6, <1>7, <1>9 DEF Spells, SameLetter

LEMMA SpellsOne ==
    ASSUME NEW s \in Seq(STRING), NEW a \in 0..(Len(s) - 1), NEW c, c = s[a + 1]
    PROVE  Spells(<<c>>, s, a, a + 1)
<1>1. a \in 0..Len(s) /\ a + 1 \in a..Len(s) /\ (a + 1) - a = 1 /\ a + 1 \in 1..Len(s)
  OBVIOUS
<1>2. c \in STRING
  BY <1>1
<1>3. <<c>> \in Seq(STRING) /\ Len(<<c>>) = 1 /\ <<c>>[1] = c /\ \A i \in 1..1 : i = 1
  BY <1>2
<1>4. QED
  BY <1>1, <1>3 DEF Spells, SameLetter

LEMMA SpellsNone ==
    ASSUME NEW s \in Seq(STRING), NEW a \in 0..Len(s)
    PROVE  Spells(<<>>, s, a, a)
<1>1. a \in a..Len(s) /\ a - a = 0 /\ <<>> \in Seq(STRING) /\ Len(<<>>) = 0 /\ 1..0 = {}
  OBVIOUS
<1>2. QED
  BY <1>1 DEF Spells

\* A capital spells its letter.
LEMMA ToUpper ==
    \A c : toupper(toupper(c)) = toupper(c) /\ (c \in STRING => toupper(c) \in STRING)
           /\ (toupper(c) = SP <=> c = SP) /\ (toupper(c) = COLON <=> c = COLON)
<1> TAKE c
<1>1. CASE c \in DOMAIN Upper
  <2>1. toupper(c) = Upper[c] /\ Upper[c] \in STRING /\ Upper[c] \notin DOMAIN Upper
        /\ Upper[c] # SP /\ Upper[c] # COLON /\ c # SP /\ c # COLON
    BY <1>1, UpperAssumption DEF toupper
  <2>2. toupper(Upper[c]) = Upper[c]
    BY <2>1 DEF toupper
  <2>3. QED
    BY <2>1, <2>2
<1>2. CASE c \notin DOMAIN Upper
  BY <1>2 DEF toupper
<1>3. QED
  BY <1>1, <1>2

LEMMA SpellsCapitals ==
    ASSUME NEW s \in Seq(STRING), NEW p, NEW a, NEW b, Spells(p, s, a, b)
    PROVE  Spells(Capitals(p), s, a, b)
<1>1. /\ a \in 0..Len(s) /\ b \in a..Len(s) /\ p \in Seq(STRING) /\ Len(p) = b - a
      /\ \A i \in 1..(b - a) : SameLetter(p[i], s[a + i])
  BY DEF Spells
<1>2. PICK n \in Nat : n = b - a
  BY <1>1
<1>3. PICK q : q = Capitals(p)
  OBVIOUS
<1>4. q = [i \in 1..n |-> toupper(p[i])]
  BY <1>1, <1>2, <1>3 DEF Capitals
<1>5. \A i \in 1..n : p[i] \in STRING
  BY <1>1, <1>2
<1>6. \A i \in 1..n : toupper(p[i]) \in STRING
  BY <1>5, ToUpper
<1>7. q \in Seq(STRING) /\ Len(q) = n /\ \A i \in 1..n : q[i] = toupper(p[i])
  BY <1>4, <1>6
<1>8. \A i \in 1..n : SameLetter(q[i], s[a + i])
  BY <1>1, <1>2, <1>7, ToUpper, Zenon DEF SameLetter
<1>9. QED
  BY <1>1, <1>2, <1>3, <1>7, <1>8 DEF Spells

\* Pieces that follow each other, piece i up to place e[i].
LEMMA SpellsPieces ==
    ASSUME NEW s \in Seq(STRING), NEW n \in Nat, NEW e, e[0] \in 0..Len(s),
           NEW ss \in Seq(Seq(STRING)), Len(ss) = n,
           \A i \in 1..n : Spells(ss[i], s, e[i - 1], e[i])
    PROVE  Spells(FlattenSeq(ss), s, e[0], e[n])
<1>1. CASE n = 0
  <2>1. ss = <<>>
    BY <1>1
  <2>2. FlattenSeq(ss) = <<>>
    BY <2>1 DEF FlattenSeq
  <2>3. QED
    BY <1>1, <2>2, SpellsNone
<1>2. CASE n # 0
  <2>1. ss # <<>>
    BY <1>2
  <2>2. PICK f : Flat(f, ss) /\ FlattenSeq(ss) = f[n]
    BY <2>1, FlattenDefined
  <2>3. \A i \in 1..n : f[i] = IF i = 1 THEN ss[i] ELSE f[i - 1] \o ss[i]
    BY <2>2, Zenon DEF Flat
  <2>4. PICK T : T = {i \in 0..n : i # 0 => Spells(f[i], s, e[0], e[i])}
    OBVIOUS
  <2>5. 0 \in T
    BY <2>4
  <2>6. \A i \in 0..(n - 1) : i \in T => i + 1 \in T
    <3> SUFFICES ASSUME NEW i \in 0..(n - 1), i \in T PROVE i + 1 \in T
      OBVIOUS
    <3>1. i + 1 \in 1..n /\ i + 1 \in 0..n /\ (i + 1) - 1 = i
      OBVIOUS
    <3>2. Spells(ss[i + 1], s, e[i], e[i + 1])
      BY <3>1
    <3>3. CASE i = 0
      <4>1. f[i + 1] = ss[i + 1]
        BY <2>3, <3>1, <3>3
      <4>2. QED
        BY <2>4, <3>1, <3>2, <3>3, <4>1
    <3>4. CASE i # 0
      <4>1. f[i + 1] = f[i] \o ss[i + 1]
        <5>1. PICK j : j = i + 1
          OBVIOUS
        <5>2. j \in 1..n /\ j # 1 /\ j - 1 = i
          BY <3>4, <5>1
        <5>3. f[j] = f[j - 1] \o ss[j]
          BY <2>3, <5>2
        <5>4. QED
          BY <5>1, <5>2, <5>3
      <4>2. Spells(f[i], s, e[0], e[i])
        BY <2>4, <3>4
      <4>3. Spells(f[i + 1], s, e[0], e[i + 1])
        BY <3>2, <4>1, <4>2, SpellsJoin
      <4>4. QED
        BY <2>4, <3>1, <4>3
    <3>5. QED
      BY <3>3, <3>4
  <2>7. n \in T
    <3>1. \A i \in 0..n : i \in T
      BY <2>5, <2>6, InductionTo
    <3>2. n \in 0..n
      OBVIOUS
    <3>3. QED
      BY <3>1, <3>2
  <2>8. QED
    BY <1>2, <2>2, <2>4, <2>7
<1>3. QED
  BY <1>1, <1>2

LEMMA SpellsTail ==
    ASSUME NEW s \in Seq(STRING), NEW p, NEW a, NEW b, Spells(p, s, a, b), p # <<>>
    PROVE  Spells(Tail(p), s, a + 1, b)
<1>1. PICK l \in Nat : l = Len(s)
  OBVIOUS
<1>2. /\ a \in 0..l /\ b \in a..l /\ p \in Seq(STRING) /\ Len(p) = b - a
      /\ \A i \in 1..(b - a) : SameLetter(p[i], s[a + i])
  BY <1>1 DEF Spells
<1>3. b - a # 0
  BY <1>2
<1>4. a + 1 \in 0..l /\ b \in (a + 1)..l /\ (b - a) - 1 = b - (a + 1)
  BY <1>2, <1>3
<1>5. PICK q : q = Tail(p)
  OBVIOUS
<1>6. q \in Seq(STRING) /\ Len(q) = (b - a) - 1 /\ \A i \in 1..((b - a) - 1) : q[i] = p[i + 1]
  BY <1>2, <1>5
<1>7. \A i \in 1..((b - a) - 1) : i + 1 \in 1..(b - a) /\ a + (i + 1) = (a + 1) + i
  BY <1>2
<1>8. \A i \in 1..(b - (a + 1)) : SameLetter(q[i], s[(a + 1) + i])
  BY <1>2, <1>4, <1>6, <1>7
<1>9. QED
  BY <1>1, <1>4, <1>5, <1>6, <1>8 DEF Spells

\* The n tokens of a line without double spaces, from place F[k] to place G[k].
LaidOut(s, n, F, G) ==
    /\ n \in Nat \ {0} /\ F[1] = 1
    /\ \A k \in 1..n : /\ F[k] \in 1..Len(s) /\ G[k] \in F[k]..Len(s)
                       /\ \A j \in F[k]..G[k] : s[j] # SP
    /\ \A k \in 1..(n - 1) : F[k + 1] = G[k] + 2 /\ s[G[k] + 1] = SP
    /\ G[n] = IF s[Len(s)] = SP THEN Len(s) - 1 ELSE Len(s)

LEMMA TokensLaidOut ==
    ASSUME NEW s \in Seq(STRING), WellSpaced(s), s # <<>>, NEW t, t = Tokens(s)
    PROVE  \E F, G : /\ t \in TokenSeq /\ LaidOut(s, Len(t), F, G)
                     /\ \A k \in 1..Len(t) : t[k] = <<F[k], G[k]>>
<1>1. PICK l \in Nat : l = Len(s) /\ l # 0
  OBVIOUS
<1>2. Spaced(s, l, t)
  BY <1>1, TokensSpaced
<1>3. PICK n \in Nat : n = Len(t)
  BY <1>2 DEF Spaced, TokenSeq
<1>4. PICK F : F = [k \in 1..n |-> t[k][1]]
  OBVIOUS
<1>5. PICK G : G = [k \in 1..n |-> t[k][2]]
  OBVIOUS
<1>6. \A k \in 1..n : F[k] = t[k][1] /\ G[k] = t[k][2]
  BY <1>4, <1>5
<1>7. /\ t \in Seq(Nat \X Nat)
      /\ \A k \in 1..n : /\ t[k][1] \in 1..l /\ t[k][2] \in t[k][1]..l
                         /\ \A j \in t[k][1]..t[k][2] : s[j] # SP
      /\ t # <<>> => t[1][1] = 1
      /\ \A k \in 1..(n - 1) : t[k + 1][1] = t[k][2] + 2 /\ s[t[k][2] + 1] = SP
      /\ t # <<>> /\ t[n][2] = IF s[l] = SP THEN l - 1 ELSE l
  BY <1>1, <1>2, <1>3 DEF Spaced, TokenSeq
<1>8. n # 0 /\ 1 \in 1..n /\ n \in 1..n /\ \A k \in 1..(n - 1) : k \in 1..n /\ k + 1 \in 1..n
  BY <1>3, <1>7
<1>9. LaidOut(s, n, F, G)
  BY <1>1, <1>6, <1>7, <1>8 DEF LaidOut
<1>10. \A k \in 1..n : t[k] = <<F[k], G[k]>>
  <2> TAKE k \in 1..n
  <2>1. t[k] \in Nat \X Nat
    BY <1>3, <1>7
  <2>2. QED
    BY <1>6, <2>1
<1>11. QED
  BY <1>2, <1>3, <1>9, <1>10 DEF Spaced

\* A token, from place a to place b, as a text.
TokenIs(s, a, b, p) ==
    /\ Spells(p, s, a - 1, b) /\ p # <<>> /\ p[1] = s[a]
    /\ p \in Seq(STRING) /\ \A i \in 1..Len(p) : p[i] # SP

LEMMA TokenTextIs ==
    ASSUME NEW s \in Seq(STRING), NEW n, NEW F, NEW G, LaidOut(s, n, F, G), NEW k \in 1..n,
           NEW p, p = SubSeq(s, F[k], G[k])
    PROVE  TokenIs(s, F[k], G[k], p)
<1>1. PICK l \in Nat : l = Len(s)
  OBVIOUS
<1>2. PICK a : a = F[k]
  OBVIOUS
<1>3. PICK b : b = G[k]
  OBVIOUS
<1>4. a \in 1..l /\ b \in a..l /\ \A j \in a..b : s[j] # SP
  BY <1>1, <1>2, <1>3 DEF LaidOut
<1>5. a - 1 \in 0..l /\ b \in (a - 1)..l /\ (a - 1) + 1 = a
  BY <1>4
<1>6. Spells(p, s, a - 1, b)
  BY <1>1, <1>2, <1>3, <1>5, SpellsPart
<1>7. /\ p \in Seq(STRING) /\ Len(p) = b - (a - 1)
      /\ \A i \in 1..Len(p) : p[i] = s[a + i - 1]
  <2>1. \A i \in a..b : s[i] \in STRING
    <3>1. \A i \in a..b : i \in 1..l
      BY <1>4
    <3>2. QED
      BY <1>1, <3>1
  <2>2. a \in Int /\ b \in Int
    BY <1>4
  <2>3. /\ p \in Seq(STRING) /\ Len(p) = IF a =< b THEN b - a + 1 ELSE 0
        /\ \A i \in 1..(b - a + 1) : p[i] = s[a + i - 1]
    <3>1. p = SubSeq(s, a, b)
      BY <1>2, <1>3
    <3>2. QED
      BY <2>1, <2>2, <3>1, SubSeqProperties
  <2>4. Len(p) = b - a + 1 /\ b - a + 1 = b - (a - 1)
    BY <1>4, <2>3
  <2>5. QED
    BY <2>3, <2>4
<1>8. 1 \in 1..Len(p) /\ a + 1 - 1 = a /\ \A i \in 1..Len(p) : a + i - 1 \in a..b
  BY <1>4, <1>7
<1>9. p # <<>> /\ p[1] = s[a]
  <2>1. p # <<>>
    <3>1. Len(p) # 0
      BY <1>4, <1>7
    <3>2. Len(<<>>) = 0
      OBVIOUS
    <3>3. QED
      BY <3>1, <3>2, Zenon
  <2>2. p[1] = s[a + 1 - 1]
    BY <1>7, <1>8, Zenon
  <2>3. QED
    BY <1>8, <2>1, <2>2
<1>10. \A i \in 1..Len(p) : p[i] # SP
  BY <1>4, <1>7, <1>8
<1>11. QED
  BY <1>2, <1>3, <1>6, <1>7, <1>9, <1>10 DEF TokenIs

\* Where a long parameter is announced: before a token that begins with a colon.
LEMMA LongBehindIs ==
    ASSUME NEW s \in Seq(STRING), NEW n, NEW F, NEW G, LaidOut(s, n, F, G), NEW k \in 1..n
    PROVE  LongBehind(s, <<F[k], G[k]>>) <=> k # n /\ s[F[k + 1]] = COLON
<1>1. PICK l \in Nat : l = Len(s)
  OBVIOUS
<1>2. G[k] \in 1..l
  <2>1. F[k] \in 1..l /\ G[k] \in F[k]..l
    BY <1>1 DEF LaidOut
  <2>2. QED
    BY <2>1
<1>3. LongBehind(s, <<F[k], G[k]>>) <=> G[k] + 2 =< l /\ s[G[k] + 2] = COLON
  BY <1>1 DEF LongBehind
<1>4. CASE k = n
  <2>1. G[k] = l \/ G[k] = l - 1
    BY <1>1, <1>4 DEF LaidOut
  <2>2. ~(G[k] + 2 =< l)
    BY <2>1
  <2>3. QED
    BY <1>3, <1>4, <2>2
<1>5. CASE k # n
  <2>1. n \in Nat
    BY DEF LaidOut
  <2>2. k \in 1..(n - 1) /\ k + 1 \in 1..n
    BY <1>5, <2>1
  <2>3. F[k + 1] = G[k] + 2 /\ F[k + 1] \in 1..l
    BY <1>1, <2>2 DEF LaidOut
  <2>4. G[k] + 2 =< l
    BY <2>3
  <2>5. QED
    BY <1>3, <1>5, <2>3, <2>4
<1>6. QED
  BY <1>4, <1>5

\* A message as the parser makes it of the tokens from c on: the first of them is the command, last
\* is the one before a long parameter, or 0.
ParsedParts(s, m, n, F, G, c, last, ps) ==
    /\ LaidOut(s, n, F, G)
    /\ c = IF s[1] = COLON THEN 2 ELSE 1
    /\ c \in 1..n
    /\ \/ /\ last = 0
          /\ \A k \in c..(n - 1) : s[F[k + 1]] # COLON
       \/ /\ last \in c..(n - 1) /\ s[F[last + 1]] = COLON
          /\ \A k \in c..(last - 1) : s[F[k + 1]] # COLON
    /\ ps = IF last = 0 THEN [k \in 1..(n - c) |-> SubSeq(s, F[c + k], G[c + k])]
            ELSE Append([k \in 1..(last - c) |-> SubSeq(s, F[c + k], G[c + k])],
                        SubSeq(s, G[last] + 3, Len(s)))
    /\ m.prefix = IF c = 2 THEN Tail(SubSeq(s, F[1], G[1])) ELSE NULL
    /\ m.cmd = Capitals(SubSeq(s, F[c], G[c]))
    /\ m.params = ps /\ m.longlast = (last # 0)

LEMMA ParsedIs ==
    ASSUME NEW s \in Seq(STRING), WellSpaced(s), NEW m, m = chirc_message_from_string(s), m.rc = 0
    PROVE  \E n, F, G, c, last, ps : ParsedParts(s, m, n, F, G, c, last, ps)
<1>1. PICK t : t = Tokens(s)
  OBVIOUS
<1>2. m = Parsed(s, t, IF t # <<>> /\ s[t[1][1]] = COLON THEN 2 ELSE 1)
  BY <1>1 DEF chirc_message_from_string, ParsedFrom
<1>3. s # <<>>
  <2> SUFFICES ASSUME s = <<>> PROVE FALSE
    OBVIOUS
  <2>1. 0 = Len(s) /\ 0 \in Nat
    OBVIOUS
  <2>2. t = <<>>
    BY <1>1, <2>1, TokensDefined
  <2>3. m = [rc |-> -1]
    BY <1>2, <2>2 DEF Parsed
  <2>4. QED
    BY <2>3
<1>4. PICK F, G : /\ t \in TokenSeq /\ LaidOut(s, Len(t), F, G)
                  /\ \A k \in 1..Len(t) : t[k] = <<F[k], G[k]>>
  BY <1>1, <1>3, TokensLaidOut
<1>5. PICK n \in Nat \ {0} : n = Len(t)
  BY <1>4 DEF LaidOut
<1>6. LaidOut(s, n, F, G) /\ F[1] = 1 /\ 1 \in 1..n /\ \A k \in 1..n : t[k][1] = F[k] /\ t[k][2] = G[k]
  BY <1>4, <1>5 DEF LaidOut
<1>7. PICK c : c = IF s[1] = COLON THEN 2 ELSE 1
  OBVIOUS
<1>8. m = Parsed(s, t, c)
  <2>1. t # <<>> /\ t[1][1] = 1
    BY <1>4, <1>5, <1>6
  <2>2. QED
    BY <1>2, <1>7, <2>1
<1>9. PICK last : last = BeforeLong(s, t, c)
  OBVIOUS
<1>10. PICK ps : ps = Params(s, t, c, last)
  OBVIOUS
<1>11. c \in 1..n /\ ~(Len(t) < c)
  <2>1. ~(Len(t) < c)
    <3> SUFFICES ASSUME Len(t) < c PROVE FALSE
      OBVIOUS
    <3>1. m = [rc |-> -1]
      BY <1>8 DEF Parsed
    <3>2. QED
      BY <3>1
  <2>2. QED
    BY <1>5, <1>7, <2>1
<1>12. m = [rc |-> 0, prefix |-> IF c = 2 THEN Tail(TokenText(s, t[1])) ELSE NULL,
            cmd |-> Capitals(TokenText(s, t[c])), params |-> ps, longlast |-> last # 0,
            overflow |-> Len(ps) > ParamsSize]
  BY <1>8, <1>9, <1>10, <1>11, Zenon DEF Parsed
<1>13. \A k \in 1..n : TokenText(s, t[k]) = SubSeq(s, F[k], G[k])
  BY <1>6 DEF TokenText
<1>14. PICK longs : longs = {k \in c..n : LongBehind(s, t[k])}
  OBVIOUS
<1>15. \A k \in c..n : k \in longs <=> k # n /\ s[F[k + 1]] = COLON
  <2> TAKE k \in c..n
  <2>1. k \in 1..n
    BY <1>5, <1>11
  <2>2. t[k] = <<F[k], G[k]>>
    BY <1>4, <1>5, <2>1
  <2>3. LongBehind(s, <<F[k], G[k]>>) <=> k # n /\ s[F[k + 1]] = COLON
    BY <1>6, <2>1, LongBehindIs
  <2>4. QED
    BY <1>14, <2>2, <2>3
<1>16. last = IF longs = {} THEN 0 ELSE CHOOSE k \in longs : \A l \in longs : k =< l
  <2>1. {k \in c..Len(t) : LongBehind(s, t[k])} = longs
    BY <1>5, <1>14
  <2>2. last = FirstToken(longs)
    BY <1>9, <2>1, Zenon DEF BeforeLong
  <2>3. QED
    BY <2>2, Zenon DEF FirstToken
<1>17. \/ /\ last = 0
          /\ \A k \in c..(n - 1) : s[F[k + 1]] # COLON
       \/ /\ last \in c..(n - 1) /\ s[F[last + 1]] = COLON
          /\ \A k \in c..(last - 1) : s[F[k + 1]] # COLON
  <2>1. CASE longs = {}
    <3>1. ASSUME NEW k \in c..(n - 1) PROVE s[F[k + 1]] # COLON
      <4>1. k \in c..n /\ k # n /\ k \notin longs
        BY <1>11, <2>1
      <4>2. QED
        BY <1>15, <4>1
    <3>2. last = 0
      BY <1>16, <2>1
    <3>3. QED
      BY <3>1, <3>2
  <2>2. CASE longs # {}
    <3>1. longs \in SUBSET Nat
      BY <1>11, <1>14
    <3>2. last \in longs /\ \A l \in longs : last =< l
      <4>1. \E k \in longs : \A l \in longs : k =< l
        BY <2>2, <3>1, LeastNumber
      <4>2. QED
        BY <1>16, <2>2, <4>1
    <3>3. last \in c..n /\ last # n /\ s[F[last + 1]] = COLON
      BY <1>14, <1>15, <3>2
    <3>4. last \in c..(n - 1)
      BY <1>11, <3>3
    <3>5. ASSUME NEW k \in c..(last - 1) PROVE s[F[k + 1]] # COLON
      <4>1. k \in c..n /\ k # n /\ ~(last =< k)
        BY <1>11, <3>3
      <4>2. k \notin longs
        BY <3>2, <4>1
      <4>3. QED
        BY <1>15, <4>1, <4>2
    <3>6. QED
      BY <3>3, <3>4, <3>5
  <2>3. QED
    BY <2>1, <2>2
<1>18. ps = IF last = 0 THEN [k \in 1..(n - c) |-> SubSeq(s, F[c + k], G[c + k])]
            ELSE Append([k \in 1..(last - c) |-> SubSeq(s, F[c + k], G[c + k])],
                        SubSeq(s, G[last] + 3, Len(s)))
  <2>1. CASE last = 0
    <3>1. ps = [k \in 1..(n - c) |-> TokenText(s, t[c + k])]
      BY <1>5, <1>10, <2>1 DEF Params
    <3>2. \A k \in 1..(n - c) : c + k \in 1..n
      BY <1>11
    <3>3. QED
      BY <1>13, <2>1, <3>1, <3>2
  <2>2. CASE last # 0
    <3>1. last \in c..(n - 1)
      BY <1>17, <2>2
    <3>2. (\A k \in 1..(last - c) : c + k \in 1..n) /\ last \in 1..n
      BY <1>11, <3>1
    <3>3. ps = Append([k \in 1..(last - c) |-> TokenText(s, t[c + k])],
                      SubSeq(s, t[last][2] + 3, Len(s)))
      BY <1>10, <2>2 DEF Params
    <3>4. t[last][2] = G[last]
      BY <1>6, <3>2
    <3>5. [k \in 1..(last - c) |-> TokenText(s, t[c + k])] = [k \in 1..(last - c) |-> SubSeq(s, F[c + k], G[c + k])]
      BY <1>13, <3>2
    <3>6. QED
      BY <2>2, <3>3, <3>4, <3>5
  <2>3. QED
    BY <2>1, <2>2
<1>19. /\ m.prefix = IF c = 2 THEN Tail(SubSeq(s, F[1], G[1])) ELSE NULL
       /\ m.cmd = Capitals(SubSeq(s, F[c], G[c]))
       /\ m.params = ps /\ m.longlast = (last # 0)
  <2>1. TokenText(s, t[1]) = SubSeq(s, F[1], G[1]) /\ TokenText(s, t[c]) = SubSeq(s, F[c], G[c])
    BY <1>6, <1>11, <1>13
  <2>2. QED
    BY <1>12, <2>1
<1>20. ParsedParts(s, m, n, F, G, c, last, ps)
  BY <1>6, <1>7, <1>11, <1>17, <1>18, <1>19, Zenon DEF ParsedParts
<1>21. QED
  BY <1>20, Zenon

\* A token behind the command is a plain parameter, unless it begins with a colon.
LEMMA PlainParam ==
    ASSUME NEW s \in Seq(STRING), NEW n, NEW F, NEW G, LaidOut(s, n, F, G), NEW j \in 1..(n - 1),
           s[F[j + 1]] # COLON, NEW p, p = SubSeq(s, F[j + 1], G[j + 1])
    PROVE  Plain(p) /\ p \in Seq(STRING) /\ Spells(<<SP>> \o <<>> \o p, s, G[j], G[j + 1])
<1>1. PICK l \in Nat : l = Len(s)
  OBVIOUS
<1>2. n \in Nat
  BY DEF LaidOut
<1>3. PICK k : k = j + 1
  OBVIOUS
<1>4. k \in 1..n /\ j \in 1..n
  BY <1>2, <1>3
<1>5. /\ Spells(p, s, F[k] - 1, G[k]) /\ p # <<>> /\ p[1] = s[F[k]]
      /\ p \in Seq(STRING) /\ \A i \in 1..Len(p) : p[i] # SP
  <2>1. p = SubSeq(s, F[k], G[k])
    BY <1>3
  <2>2. TokenIs(s, F[k], G[k], p)
    BY <1>4, <2>1, TokenTextIs
  <2>3. QED
    BY <2>2, Zenon DEF TokenIs
<1>6. F[k] = G[j] + 2 /\ s[G[j] + 1] = SP /\ F[k] \in 1..l /\ F[j] \in 1..l /\ G[j] \in F[j]..l
  BY <1>1, <1>3, <1>4 DEF LaidOut
<1>7. G[j] \in 0..(l - 1) /\ F[k] - 1 = G[j] + 1 /\ G[j] + 1 \in 0..l
  BY <1>6
<1>8. Spells(<<SP>>, s, G[j], G[j] + 1)
  BY <1>1, <1>6, <1>7, SpellsOne
<1>9. Spells(<<>>, s, G[j] + 1, G[j] + 1)
  BY <1>1, <1>7, SpellsNone
<1>10. Spells(<<SP>> \o <<>>, s, G[j], G[j] + 1)
  BY <1>8, <1>9, SpellsJoin
<1>11. Spells(p, s, G[j] + 1, G[k])
  BY <1>5, <1>7
<1>12. Spells((<<SP>> \o <<>>) \o p, s, G[j], G[k])
  BY <1>10, <1>11, SpellsJoin
<1>13. Plain(p)
  BY <1>3, <1>5 DEF Plain
<1>14. QED
  BY <1>3, <1>5, <1>12, <1>13

\* A token that does is the beginning of the last parameter.
LEMMA LongParam ==
    ASSUME NEW s \in Seq(STRING), NEW n, NEW F, NEW G, LaidOut(s, n, F, G), NEW j \in 1..(n - 1),
           s[F[j + 1]] = COLON, NEW p, p = SubSeq(s, G[j] + 3, Len(s))
    PROVE  p \in Seq(STRING) /\ Spells(<<SP>> \o <<COLON>> \o p, s, G[j], Len(s))
<1>1. PICK l \in Nat : l = Len(s)
  OBVIOUS
<1>2. n \in Nat
  BY DEF LaidOut
<1>3. PICK k : k = j + 1
  OBVIOUS
<1>4. k \in 1..n /\ j \in 1..n
  BY <1>2, <1>3
<1>5. F[k] = G[j] + 2 /\ s[G[j] + 1] = SP /\ F[k] \in 1..l /\ F[j] \in 1..l /\ G[j] \in F[j]..l
  BY <1>1, <1>3, <1>4 DEF LaidOut
<1>6. PICK g \in Nat : g = G[j]
  <2>1. G[j] \in Nat
    BY <1>5
  <2>2. QED
    BY <2>1, Zenon
<1>7. /\ g \in 0..(l - 1) /\ g + 1 \in 0..(l - 1) /\ g + 2 \in 0..l /\ l \in (g + 2)..l
      /\ (g + 1) + 1 = g + 2 /\ (g + 2) + 1 = g + 3
  <2>1. PICK a : a = F[k]
    OBVIOUS
  <2>2. a = g + 2 /\ a \in 1..l
    BY <1>5, <1>6, <2>1
  <2>3. QED
    BY <2>2
<1>8. s[g + 1] = SP /\ s[(g + 1) + 1] = COLON
  BY <1>3, <1>5, <1>6, <1>7
<1>9. Spells(<<SP>>, s, g, g + 1)
  BY <1>1, <1>7, <1>8, SpellsOne
<1>10. Spells(<<COLON>>, s, g + 1, g + 2)
  <2>1. Spells(<<COLON>>, s, g + 1, (g + 1) + 1)
    BY <1>1, <1>7, <1>8, SpellsOne
  <2>2. QED
    BY <1>7, <2>1
<1>11. Spells(p, s, g + 2, l)
  <2>1. Spells(SubSeq(s, (g + 2) + 1, l), s, g + 2, l)
    BY <1>1, <1>7, SpellsPart
  <2>2. QED
    BY <1>1, <1>6, <1>7, <2>1
<1>12. Spells(<<SP>> \o <<COLON>>, s, g, g + 2)
  BY <1>9, <1>10, SpellsJoin
<1>13. Spells((<<SP>> \o <<COLON>>) \o p, s, g, l)
  BY <1>11, <1>12, SpellsJoin
<1>14. p \in Seq(STRING)
  BY <1>11 DEF Spells
<1>15. QED
  BY <1>1, <1>6, <1>13, <1>14

\* Head of a printed message.
HeadOf(m) == (IF m.prefix = NULL THEN <<>> ELSE <<COLON>> \o m.prefix \o <<SP>>) \o m.cmd

LEMMA HeadSpelled ==
    ASSUME NEW s \in Seq(STRING), NEW m, NEW n, NEW F, NEW G, NEW c, NEW last, NEW ps,
           ParsedParts(s, m, n, F, G, c, last, ps)
    PROVE  /\ Spells(HeadOf(m), s, 0, G[c])
           /\ m.prefix # NULL => \A i \in 1..Len(m.prefix) : m.prefix[i] # SP
           /\ m.prefix = NULL => Plain(m.cmd)
<1>1. PICK l \in Nat : l = Len(s)
  OBVIOUS
<1>2. /\ LaidOut(s, n, F, G)
      /\ c = IF s[1] = COLON THEN 2 ELSE 1
      /\ c \in 1..n
      /\ m.prefix = IF c = 2 THEN Tail(SubSeq(s, F[1], G[1])) ELSE NULL
      /\ m.cmd = Capitals(SubSeq(s, F[c], G[c]))
  BY DEF ParsedParts
<1>3. n \in Nat \ {0} /\ F[1] = 1 /\ 1 \in 1..n
  BY <1>2 DEF LaidOut
<1>4. PICK w : w = SubSeq(s, F[c], G[c])
  OBVIOUS
<1>5. /\ Spells(w, s, F[c] - 1, G[c]) /\ w # <<>> /\ w[1] = s[F[c]]
      /\ w \in Seq(STRING) /\ \A i \in 1..Len(w) : w[i] # SP
  <2>1. TokenIs(s, F[c], G[c], w)
    BY <1>2, <1>4, TokenTextIs
  <2>2. QED
    BY <2>1, Zenon DEF TokenIs
<1>6. Spells(m.cmd, s, F[c] - 1, G[c])
  BY <1>2, <1>4, <1>5, SpellsCapitals
<1>7. CASE s[1] # COLON
  <2>1. c = 1 /\ m.prefix = NULL
    BY <1>2, <1>7
  <2>2. Spells(m.cmd, s, 0, G[1])
    BY <1>3, <1>6, <2>1
  <2>3. Spells(<<>>, s, 0, 0)
    BY SpellsNone
  <2>4. Spells(<<>> \o m.cmd, s, 0, G[1])
    BY <2>2, <2>3, SpellsJoin
  <2>5. HeadOf(m) = <<>> \o m.cmd
    BY <2>1 DEF HeadOf
  <2>6. Plain(m.cmd)
    <3>1. PICK k \in Nat : k = Len(w)
      BY <1>5
    <3>2. k # 0 /\ w[1] # COLON /\ \A i \in 1..k : w[i] # SP
      BY <1>3, <1>5, <1>7, <2>1, <3>1
    <3>3. m.cmd = [i \in 1..k |-> toupper(w[i])]
      BY <1>2, <1>4, <3>1 DEF Capitals
    <3>4. Len(m.cmd) = k /\ 1 \in 1..k /\ \A i \in 1..k : m.cmd[i] = toupper(w[i])
      BY <3>2, <3>3
    <3>5. m.cmd # <<>>
      BY <3>2, <3>4
    <3>6. m.cmd[1] # COLON
      BY <3>2, <3>4, ToUpper, Zenon
    <3>7. \A i \in 1..Len(m.cmd) : m.cmd[i] # SP
      BY <3>2, <3>4, ToUpper, Zenon
    <3>8. QED
      BY <3>5, <3>6, <3>7 DEF Plain
  <2>7. QED
    BY <2>1, <2>4, <2>5, <2>6
<1>8. CASE s[1] = COLON
  <2>1. c = 2 /\ 1 \in 1..(n - 1)
    BY <1>2, <1>3, <1>8
  <2>2. F[2] = G[1] + 2 /\ s[G[1] + 1] = SP /\ F[2] \in 1..l /\ G[1] \in 1..l
    <3>1. F[1 + 1] = G[1] + 2 /\ s[G[1] + 1] = SP
      BY <1>2, <2>1 DEF LaidOut
    <3>2. F[2] \in 1..l /\ G[1] \in F[1]..l
      BY <1>1, <1>2, <1>3, <2>1 DEF LaidOut
    <3>3. QED
      BY <1>3, <3>1, <3>2
  <2>3. PICK v : v = SubSeq(s, F[1], G[1])
    OBVIOUS
  <2>4. /\ Spells(v, s, F[1] - 1, G[1]) /\ v # <<>>
        /\ v \in Seq(STRING) /\ \A i \in 1..Len(v) : v[i] # SP
    <3>1. TokenIs(s, F[1], G[1], v)
      BY <1>2, <1>3, <2>3, TokenTextIs
    <3>2. QED
      BY <3>1, Zenon DEF TokenIs
  <2>5. Spells(v, s, 0, G[1])
    BY <1>3, <2>4
  <2>6. PICK q : q = m.prefix
    OBVIOUS
  <2>7. q = Tail(v)
    BY <1>2, <2>1, <2>3, <2>6
  <2>8. Spells(q, s, 1, G[1])
    <3>1. Spells(q, s, 0 + 1, G[1])
      BY <2>4, <2>5, <2>7, SpellsTail
    <3>2. QED
      BY <3>1
  <2>9. q \in Seq(STRING)
    BY <2>8 DEF Spells
  <2>10. q # NULL
    BY <2>9, NoTextAssumption
  <2>11. Spells(<<COLON>>, s, 0, 1)
    <3>1. 0 \in 0..(Len(s) - 1) /\ COLON = s[0 + 1]
      BY <1>1, <1>8, <2>2
    <3>2. Spells(<<COLON>>, s, 0, 0 + 1)
      BY <3>1, SpellsOne
    <3>3. QED
      BY <3>2
  <2>12. Spells(<<SP>>, s, G[1], G[1] + 1)
    <3>1. G[1] \in 0..(Len(s) - 1)
      BY <1>1, <2>2
    <3>2. QED
      BY <2>2, <3>1, SpellsOne
  <2>13. Spells(m.cmd, s, G[1] + 1, G[2])
    <3>1. F[2] - 1 = G[1] + 1
      BY <2>2
    <3>2. QED
      BY <1>6, <2>1, <3>1
  <2>14. Spells(<<COLON>> \o q, s, 0, G[1])
    BY <2>8, <2>11, SpellsJoin
  <2>15. Spells((<<COLON>> \o q) \o <<SP>>, s, 0, G[1] + 1)
    BY <2>12, <2>14, SpellsJoin
  <2>16. Spells(((<<COLON>> \o q) \o <<SP>>) \o m.cmd, s, 0, G[2])
    BY <2>13, <2>15, SpellsJoin
  <2>17. HeadOf(m) = ((<<COLON>> \o q) \o <<SP>>) \o m.cmd
    BY <2>6, <2>10 DEF HeadOf
  <2>18. \A i \in 1..Len(q) : q[i] # SP
    <3>1. PICK k \in Nat : k = Len(v)
      BY <2>4
    <3>2. k # 0
      BY <2>4, <3>1
    <3>3. Len(q) = k - 1 /\ \A i \in 1..(k - 1) : q[i] = v[i + 1]
      BY <2>4, <2>7, <3>1, <3>2
    <3>4. \A i \in 1..(k - 1) : i + 1 \in 1..k
      OBVIOUS
    <3>5. QED
      BY <2>4, <3>1, <3>3, <3>4
  <2>19. QED
    BY <2>1, <2>6, <2>10, <2>16, <2>17, <2>18
<1>9. QED
  BY <1>7, <1>8

\* A parameter as it is printed.
Piece(m, i) ==
    <<SP>> \o (IF i = Len(m.params) /\ m.longlast THEN <<COLON>> ELSE <<>>) \o m.params[i]

ParamAt(s, G, c, m, i) ==
    /\ (i = Len(m.params) /\ m.longlast) \/ Plain(m.params[i])
    /\ Spells(Piece(m, i), s, G[c + (i - 1)],
              IF i = Len(m.params) /\ m.longlast THEN Len(s) ELSE G[c + i])

LEMMA ParamsSpelled ==
    ASSUME NEW s \in Seq(STRING), NEW m, NEW n, NEW F, NEW G, NEW c, NEW last, NEW ps,
           ParsedParts(s, m, n, F, G, c, last, ps)
    PROVE  /\ Len(m.params) \in Nat /\ (m.longlast => Len(m.params) # 0)
           /\ m.longlast \/ c + Len(m.params) = n
           /\ \A i \in 1..Len(m.params) : ParamAt(s, G, c, m, i)
<1>1. /\ LaidOut(s, n, F, G)
      /\ c \in 1..n
      /\ \/ /\ last = 0
            /\ \A k \in c..(n - 1) : s[F[k + 1]] # COLON
         \/ /\ last \in c..(n - 1) /\ s[F[last + 1]] = COLON
            /\ \A k \in c..(last - 1) : s[F[k + 1]] # COLON
      /\ ps = IF last = 0 THEN [k \in 1..(n - c) |-> SubSeq(s, F[c + k], G[c + k])]
              ELSE Append([k \in 1..(last - c) |-> SubSeq(s, F[c + k], G[c + k])],
                          SubSeq(s, G[last] + 3, Len(s)))
      /\ m.params = ps /\ m.longlast = (last # 0)
  BY Zenon DEF ParsedParts
<1>2. n \in Nat \ {0} /\ c \in Nat \ {0}
  <2>1. n \in Nat \ {0}
    BY <1>1 DEF LaidOut
  <2>2. QED
    BY <1>1, <2>1
<1>3. PICK e \in Nat : e = (IF last = 0 THEN n - c ELSE last - c)
  BY <1>1, <1>2
<1>4. \A k \in 1..e : c + (k - 1) \in 1..(n - 1) /\ s[F[(c + (k - 1)) + 1]] # COLON
                      /\ (c + (k - 1)) + 1 = c + k
  <2> TAKE k \in 1..e
  <2>1. PICK j : j = c + (k - 1)
    OBVIOUS
  <2>2. CASE last = 0
    <3>1. j \in c..(n - 1) /\ j \in 1..(n - 1) /\ j + 1 = c + k
      BY <1>1, <1>2, <1>3, <2>1, <2>2
    <3>2. s[F[j + 1]] # COLON
      BY <1>1, <1>2, <2>2, <3>1
    <3>3. QED
      BY <2>1, <3>1, <3>2
  <2>3. CASE last # 0
    <3>1. j \in c..(last - 1) /\ j \in 1..(n - 1) /\ j + 1 = c + k
      BY <1>1, <1>2, <1>3, <2>1, <2>3
    <3>2. s[F[j + 1]] # COLON
      BY <1>1, <2>3, <3>1
    <3>3. QED
      BY <2>1, <3>1, <3>2
  <2>4. QED
    BY <2>2, <2>3
<1>5. PICK qs : qs = [k \in 1..e |-> SubSeq(s, F[c + k], G[c + k])]
  OBVIOUS
<1>6. \A k \in 1..e : /\ Plain(qs[k]) /\ qs[k] \in Seq(STRING)
                      /\ Spells(<<SP>> \o <<>> \o qs[k], s, G[c + (k - 1)], G[c + k])
  <2> TAKE k \in 1..e
  <2>1. PICK j : j = c + (k - 1)
    OBVIOUS
  <2>2. j \in 1..(n - 1) /\ s[F[j + 1]] # COLON /\ j + 1 = c + k
    BY <1>4, <2>1
  <2>3. PICK p : p = SubSeq(s, F[j + 1], G[j + 1])
    OBVIOUS
  <2>4. Plain(p) /\ p \in Seq(STRING) /\ Spells(<<SP>> \o <<>> \o p, s, G[j], G[j + 1])
    BY <1>1, <2>2, <2>3, PlainParam
  <2>5. qs[k] = p
    BY <1>5, <2>2, <2>3
  <2>6. QED
    BY <2>1, <2>2, <2>4, <2>5
<1>7. CASE last = 0
  <2>1. ps = qs /\ e = n - c
    BY <1>1, <1>3, <1>5, <1>7
  <2>2. m.params = qs /\ ~m.longlast /\ Len(m.params) = e
    <3>1. Len(qs) = e
      BY <1>5
    <3>2. QED
      BY <1>1, <1>7, <2>1, <3>1
  <2>3. ASSUME NEW i \in 1..e PROVE ParamAt(s, G, c, m, i)
    <3>1. Piece(m, i) = <<SP>> \o <<>> \o qs[i]
      BY <2>2 DEF Piece
    <3>2. QED
      BY <1>6, <2>2, <3>1, Zenon DEF ParamAt
  <2>4. c + e = n
    BY <1>2, <2>1
  <2>5. QED
    BY <2>2, <2>3, <2>4
<1>8. CASE last # 0
  <2>1. PICK q : q = SubSeq(s, G[last] + 3, Len(s))
    OBVIOUS
  <2>2. last \in 1..(n - 1) /\ s[F[last + 1]] = COLON /\ last = c + e
    BY <1>1, <1>2, <1>3, <1>8
  <2>3. q \in Seq(STRING) /\ Spells(<<SP>> \o <<COLON>> \o q, s, G[last], Len(s))
    BY <1>1, <2>1, <2>2, LongParam
  <2>4. ps = Append(qs, q)
    BY <1>1, <1>3, <1>5, <1>8, <2>1
  <2>5. m.params = Append(qs, q) /\ m.longlast
    BY <1>1, <1>8, <2>4
  <2>6. Len(m.params) = e + 1 /\ m.params[e + 1] = q /\ \A i \in 1..e : m.params[i] = qs[i]
    <3>1. PICK S : S = Seq(STRING)
      OBVIOUS
    <3>2. \A k \in 1..e : qs[k] \in S
      BY <1>6, <3>1
    <3>3. qs = [k \in 1..e |-> qs[k]]
      BY <1>5
    <3>4. qs \in Seq(S) /\ Len(qs) = e
      BY <3>2, <3>3
    <3>5. QED
      BY <2>5, <3>4
  <2>7. ASSUME NEW i \in 1..(e + 1) PROVE ParamAt(s, G, c, m, i)
    <3>1. CASE i = e + 1
      <4>1. i = Len(m.params) /\ m.params[i] = q /\ c + (i - 1) = last
        BY <1>2, <2>2, <2>6, <3>1
      <4>2. Piece(m, i) = <<SP>> \o <<COLON>> \o q
        BY <2>5, <4>1, Zenon DEF Piece
      <4>3. QED
        BY <2>3, <2>5, <4>1, <4>2, Zenon DEF ParamAt
    <3>2. CASE i # e + 1
      <4>1. i \in 1..e /\ i # Len(m.params)
        BY <2>6, <3>2
      <4>2. m.params[i] = qs[i]
        BY <2>6, <4>1
      <4>3. Piece(m, i) = <<SP>> \o <<>> \o qs[i]
        BY <4>1, <4>2, Zenon DEF Piece
      <4>4. QED
        BY <1>6, <4>1, <4>2, <4>3, Zenon DEF ParamAt
    <3>3. QED
      BY <3>1, <3>2
  <2>8. e + 1 \in Nat /\ e + 1 # 0
    BY <1>3
  <2>9. QED
    BY <2>5, <2>6, <2>7, <2>8
<1>9. QED
  BY <1>7, <1>8

LEMMA SpelledSame ==
    ASSUME NEW s \in Seq(STRING), NEW p, Spells(p, s, 0, Len(s))
    PROVE  SameLetters(s, p)
<1>1. PICK l \in Nat : l = Len(s)
  OBVIOUS
<1>2. l - 0 = l /\ \A i \in 1..l : 0 + i = i
  OBVIOUS
<1>3. Len(p) = l /\ \A i \in 1..l : toupper(p[i]) = toupper(s[i])
  BY <1>1, <1>2 DEF Spells, SameLetter
<1>4. QED
  BY <1>1, <1>3 DEF SameLetters

\* The parser and the printer agree on every line without double spaces.
LEMMA LineParses ==
    ASSUME NEW s \in Seq(STRING)
    PROVE  ParsesAs(s)
<1>1. PICK m : m = chirc_message_from_string(s)
  OBVIOUS
<1>2. SUFFICES ASSUME WellSpaced(s), m.rc = 0 PROVE IsMessage(s, m)
  BY <1>1, Zenon DEF ParsesAs
<1>3. PICK n, F, G, c, last, ps : ParsedParts(s, m, n, F, G, c, last, ps)
  BY <1>1, <1>2, ParsedIs
<1>4. /\ Spells(HeadOf(m), s, 0, G[c])
      /\ m.prefix # NULL => \A i \in 1..Len(m.prefix) : m.prefix[i] # SP
      /\ m.prefix = NULL => Plain(m.cmd)
  BY <1>3, HeadSpelled
<1>5. PICK k \in Nat : k = Len(m.params)
  BY <1>3, ParamsSpelled
<1>6. /\ m.longlast => k # 0
      /\ m.longlast \/ c + k = n
      /\ \A i \in 1..k : ParamAt(s, G, c, m, i)
  BY <1>3, <1>5, ParamsSpelled
<1>7. PICK e : e = [i \in 0..k |-> IF i = k /\ m.longlast THEN Len(s) ELSE G[c + i]]
  OBVIOUS
<1>8. /\ LaidOut(s, n, F, G) /\ c \in 1..n /\ n \in Nat
  BY <1>3 DEF ParsedParts, LaidOut
<1>9. e[0] = G[c] /\ G[c] \in 0..Len(s)
  <2>1. 0 \in 0..k /\ c + 0 = c /\ ~(0 = k /\ m.longlast)
    BY <1>6, <1>8
  <2>2. G[c] \in 0..Len(s)
    BY <1>4 DEF Spells
  <2>3. QED
    BY <1>7, <2>1, <2>2
<1>10. PICK ss : ss = [i \in 1..k |-> Piece(m, i)]
  OBVIOUS
<1>11. \A i \in 1..k : Spells(ss[i], s, e[i - 1], e[i])
  <2> TAKE i \in 1..k
  <2>1. Spells(Piece(m, i), s, G[c + (i - 1)],
               IF i = Len(m.params) /\ m.longlast THEN Len(s) ELSE G[c + i])
    BY <1>6, Zenon DEF ParamAt
  <2>2. i \in 0..k /\ i - 1 \in 0..k /\ i - 1 # k
    OBVIOUS
  <2>3. e[i - 1] = G[c + (i - 1)]
    BY <1>7, <2>2
  <2>4. e[i] = IF i = k /\ m.longlast THEN Len(s) ELSE G[c + i]
    BY <1>7, <2>2
  <2>5. QED
    BY <1>5, <1>10, <2>1, <2>3, <2>4
<1>12. ss \in Seq(Seq(STRING)) /\ Len(ss) = k
  <2>1. \A i \in 1..k : ss[i] \in Seq(STRING)
    BY <1>11 DEF Spells
  <2>2. PICK S : S = Seq(STRING)
    OBVIOUS
  <2>3. ss \in Seq(S) /\ Len(ss) = k
    BY <1>10, <2>1, <2>2
  <2>4. QED
    BY <2>2, <2>3
<1>13. Spells(FlattenSeq(ss), s, e[0], e[k])
  BY <1>9, <1>11, <1>12, SpellsPieces
<1>14. PICK p : p = HeadOf(m) \o FlattenSeq(ss)
  OBVIOUS
<1>15. Spells(p, s, 0, e[k])
  <2>1. Spells(HeadOf(m), s, 0, e[0])
    BY <1>4, <1>9
  <2>2. QED
    BY <1>13, <1>14, <2>1, SpellsJoin
<1>16. p = chirc_message_to_string(m)
  <2>1. ss = [i \in 1..Len(m.params) |->
                <<SP>> \o (IF i = Len(m.params) /\ m.longlast THEN <<COLON>> ELSE <<>>) \o m.params[i]]
    BY <1>5, <1>10, Zenon DEF Piece
  <2>2. QED
    BY <1>14, <2>1, Zenon DEF chirc_message_to_string, HeadOf
<1>17. SameLetters(s, p) \/ SameLetters(s, p \o <<SP>>)
  <2>1. e[k] = IF m.longlast THEN Len(s) ELSE G[c + k]
    BY <1>5, <1>7
  <2>2. CASE e[k] = Len(s)
    BY <1>15, <2>2, SpelledSame
  <2>3. CASE e[k] # Len(s)
    <3>1. e[k] = G[n]
      BY <1>6, <2>1, <2>3
    <3>2. G[n] = IF s[Len(s)] = SP THEN Len(s) - 1 ELSE Len(s)
      BY <1>8 DEF LaidOut
    <3>3. s[Len(s)] = SP /\ e[k] = Len(s) - 1
      BY <2>3, <3>1, <3>2
    <3>4. Len(s) - 1 \in 0..(Len(s) - 1) /\ (Len(s) - 1) + 1 = Len(s)
      <4>1. e[k] \in 0..Len(s)
        BY <1>15 DEF Spells
      <4>2. PICK l \in Nat : l = Len(s)
        OBVIOUS
      <4>3. l - 1 \in 0..l
        BY <3>3, <4>1, <4>2
      <4>4. QED
        BY <4>2, <4>3
    <3>5. Spells(<<SP>>, s, Len(s) - 1, Len(s))
      <4>1. SP = s[(Len(s) - 1) + 1]
        BY <3>3, <3>4
      <4>2. Spells(<<SP>>, s, Len(s) - 1, (Len(s) - 1) + 1)
        BY <3>4, <4>1, SpellsOne
      <4>3. QED
        BY <3>4, <4>2
    <3>6. Spells(p \o <<SP>>, s, 0, Len(s))
      BY <1>15, <3>3, <3>5, SpellsJoin
    <3>7. QED
      BY <3>6, SpelledSame
  <2>4. QED
    BY <2>2, <2>3
<1>18. \A i \in 1..Len(m.params) : (i = Len(m.params) /\ m.longlast) \/ Plain(m.params[i])
  BY <1>5, <1>6, Zenon DEF ParamAt
<1>19. m.longlast => m.params # <<>>
  <2>1. Len(<<>>) = 0
    OBVIOUS
  <2>2. QED
    BY <1>5, <1>6, <2>1, Zenon
<1>20. QED
  BY <1>4, <1>16, <1>17, <1>18, <1>19, Zenon DEF IsMessage

\* A line without double spaces is taken apart the way the grammar of messages says,
\* whatever its characters are: the message that chirc_message_from_string makes of it
\* prints as the same line, and its words are ones that the parser cannot confuse
\* (message.c:13-84, 121-182).
THEOREM ParsesAsGrammarCorrect == Spec => []ParsesAsGrammar
<1>1. ParsesAsGrammar
  BY LinesAssumption, LineParses DEF ParsesAsGrammar
<1>2. QED
  BY <1>1, PTL

-----------------------------------------------------------------------------
(* What the parser makes of a line, whatever its spaces are *)

LEMMA TokensInside ==
    ASSUME NEW s \in Seq(STRING), NEW l \in Nat, l = Len(s)
    PROVE  Tokens(s) \in Seq((1..l) \X (1..l))
<1>1. PICK P : P = 1..l
  OBVIOUS
<1>2. PICK f : /\ f[0] = <<>> /\ \A i \in 1..l : f[i] = GoesOn(s, f[i - 1], i)
               /\ Tokens(s) = f[l]
  BY TokensDefined
<1>3. PICK T : T = {k \in 0..l : f[k] \in Seq(P \X P)}
  OBVIOUS
<1>4. 0 \in T
  <2>1. PICK A : A = P \X P
    OBVIOUS
  <2>2. <<>> \in Seq(A)
    OBVIOUS
  <2>3. f[0] \in Seq(P \X P)
    BY <1>2, <2>1, <2>2, Zenon
  <2>4. 0 \in 0..l
    OBVIOUS
  <2>5. QED
    BY <1>3, <2>3, <2>4, Zenon
<1>5. ASSUME NEW k \in 0..(l - 1), k \in T PROVE k + 1 \in T
  <2>1. k + 1 \in 1..l /\ (k + 1) - 1 = k
    OBVIOUS
  <2>2. f[k + 1] = GoesOn(s, f[k], k + 1)
    BY <1>2, <2>1
  <2>3. f[k] \in Seq(P \X P) /\ k + 1 \in P
    BY <1>1, <1>3, <1>5, <2>1
  <2>4. f[k + 1] \in Seq(P \X P)
    BY <2>2, <2>3, GoesOnType
  <2>5. QED
    BY <1>3, <2>1, <2>4
<1>6. \A k \in 0..l : k \in T
  BY <1>4, <1>5, InductionTo
<1>7. l \in T
  BY <1>6
<1>8. QED
  BY <1>1, <1>2, <1>3, <1>7

LEMMA PartText ==
    ASSUME NEW s \in Seq(STRING), NEW a \in Nat \ {0}, NEW b \in 0..Len(s)
    PROVE  SubSeq(s, a, b) \in Seq(STRING)
<1>1. \A i \in a..b : i \in 1..Len(s)
  OBVIOUS
<1>2. \A i \in a..b : s[i] \in STRING
  BY <1>1
<1>3. a \in Int /\ b \in Int
  OBVIOUS
<1>4. QED
  BY <1>2, <1>3, SubSeqProperties

\* The fields of a message that are texts.
Wordy(m) ==
    /\ m.cmd \in Seq(STRING) /\ m.params \in Seq(Seq(STRING)) /\ m.longlast \in BOOLEAN
    /\ DOMAIN m = {"rc", "prefix", "cmd", "params", "longlast", "overflow"}

LEMMA ParsedTypes ==
    ASSUME NEW s \in Seq(STRING), NEW m, m = chirc_message_from_string(s), m.rc = 0
    PROVE  Wordy(m)
<1>1. PICK l \in Nat : l = Len(s)
  OBVIOUS
<1>2. PICK t : t = Tokens(s)
  OBVIOUS
<1>3. PICK n \in Nat : n = Len(t)
  BY <1>1, <1>2, TokensInside
<1>4. \A k \in 1..n : t[k][1] \in 1..l /\ t[k][2] \in 1..l
  <2>1. PICK A : A = (1..l) \X (1..l)
    OBVIOUS
  <2>2. t \in Seq(A)
    BY <1>1, <1>2, <2>1, TokensInside
  <2>3. \A k \in 1..n : t[k] \in A
    BY <1>3, <2>2
  <2>4. QED
    BY <2>1, <2>3
<1>5. \A k \in 1..n : TokenText(s, t[k]) \in Seq(STRING)
  <2> TAKE k \in 1..n
  <2>1. t[k][1] \in Nat \ {0} /\ t[k][2] \in 0..Len(s)
    BY <1>1, <1>4
  <2>2. QED
    BY <2>1, PartText DEF TokenText
<1>6. PICK c \in {1, 2} : m = Parsed(s, t, c)
  BY <1>2 DEF chirc_message_from_string, ParsedFrom
<1>7. ~(n < c)
  <2> SUFFICES ASSUME n < c PROVE FALSE
    OBVIOUS
  <2>1. m = [rc |-> -1]
    BY <1>3, <1>6 DEF Parsed
  <2>2. QED
    BY <2>1
<1>8. PICK last : last = BeforeLong(s, t, c)
  OBVIOUS
<1>9. PICK ps : ps = Params(s, t, c, last)
  OBVIOUS
<1>10. m = [rc |-> 0, prefix |-> IF c = 2 THEN Tail(TokenText(s, t[1])) ELSE NULL,
            cmd |-> Capitals(TokenText(s, t[c])), params |-> ps, longlast |-> last # 0,
            overflow |-> Len(ps) > ParamsSize]
  BY <1>3, <1>6, <1>7, <1>8, <1>9, Zenon DEF Parsed
<1>11. c \in 1..n
  BY <1>7
<1>12. m.cmd \in Seq(STRING)
  <2>1. PICK w \in Seq(STRING) : w = TokenText(s, t[c])
    BY <1>5, <1>11
  <2>2. PICK k \in Nat : k = Len(w)
    OBVIOUS
  <2>3. \A i \in 1..k : toupper(w[i]) \in STRING
    <3>1. \A i \in 1..k : w[i] \in STRING
      BY <2>2
    <3>2. QED
      BY <3>1, ToUpper
  <2>4. Capitals(w) \in Seq(STRING)
    BY <2>2, <2>3 DEF Capitals
  <2>5. QED
    BY <1>10, <2>1, <2>4
<1>13. last = 0 \/ last \in c..n
  <2>1. PICK longs : longs = {k \in c..n : LongBehind(s, t[k])}
    OBVIOUS
  <2>2. last = FirstToken(longs)
    BY <1>3, <1>8, <2>1, Zenon DEF BeforeLong
  <2>3. CASE longs = {}
    BY <2>2, <2>3 DEF FirstToken
  <2>4. CASE longs # {}
    <3>1. longs \in SUBSET Nat
      BY <1>11, <2>1
    <3>2. \E k \in longs : \A j \in longs : k =< j
      BY <2>4, <3>1, LeastNumber
    <3>3. last \in longs
      BY <2>2, <2>4, <3>2, Zenon DEF FirstToken
    <3>4. QED
      BY <2>1, <3>3
  <2>5. QED
    BY <2>3, <2>4
<1>14. ps \in Seq(Seq(STRING))
  <2>1. PICK S : S = Seq(STRING)
    OBVIOUS
  <2>2. CASE last = 0
    <3>1. ps = [k \in 1..(n - c) |-> TokenText(s, t[c + k])]
      BY <1>3, <1>9, <2>2 DEF Params
    <3>2. n - c \in Nat /\ \A k \in 1..(n - c) : c + k \in 1..n
      BY <1>11
    <3>3. \A k \in 1..(n - c) : TokenText(s, t[c + k]) \in S
      BY <1>5, <2>1, <3>2
    <3>4. ps \in Seq(S)
      BY <3>1, <3>2, <3>3
    <3>5. QED
      BY <2>1, <3>4
  <2>3. CASE last \in c..n
    <3>1. last # 0 /\ last \in 1..n /\ last - c \in Nat
      BY <1>11, <2>3
    <3>2. \A k \in 1..(last - c) : c + k \in 1..n
      BY <1>11, <2>3
    <3>3. PICK q : q = [k \in 1..(last - c) |-> TokenText(s, t[c + k])]
      OBVIOUS
    <3>4. PICK e : e = SubSeq(s, t[last][2] + 3, l)
      OBVIOUS
    <3>5. e \in S
      <4>1. t[last][2] + 3 \in Nat \ {0} /\ l \in 0..Len(s)
        BY <1>1, <1>4, <3>1
      <4>2. QED
        BY <2>1, <3>4, <4>1, PartText
    <3>6. q \in Seq(S)
      BY <1>5, <2>1, <3>1, <3>2, <3>3
    <3>7. ps = Append(q, e)
      BY <1>1, <1>9, <3>1, <3>3, <3>4 DEF Params
    <3>8. ps \in Seq(S)
      BY <3>5, <3>6, <3>7
    <3>9. QED
      BY <2>1, <3>8
  <2>4. QED
    BY <1>13, <2>2, <2>3
<1>15. QED
  BY <1>10, <1>12, <1>14 DEF Wordy

-----------------------------------------------------------------------------
(* How long a printed message is *)

\* The characters of a reply: those of the protocol's own words stand beside the others.
Chars ==
    STRING \union {COLON, SP, "*", "t", "0", "m", "x", "USER", "PONG", "ERROR"}
           \union {"001", "002", "003", "004", "251", "252", "253", "254", "255", "311", "312", "318",
                   "372", "375", "376", "401", "421", "422", "431", "433", "451", "461"}

\* g adds up what the parameters take, each with a space before it.
Ladder(g, p) == g[0] = 0 /\ \A i \in 1..Len(p) : g[i] \in Nat /\ g[i] = g[i - 1] + 1 + Len(p[i])

Printable(m) ==
    /\ m.prefix = NULL \/ m.prefix \in Seq(Chars)
    /\ m.cmd \in Seq(Chars) /\ m.params \in Seq(Seq(Chars)) /\ m.longlast \in BOOLEAN

LEMMA JoinText ==
    ASSUME NEW S, NEW s \in Seq(S), NEW t \in Seq(S)
    PROVE  s \o t \in Seq(S) /\ Len(s \o t) = Len(s) + Len(t) /\ Len(s) \in Nat /\ Len(t) \in Nat
  OBVIOUS

LEMMA OneOf ==
    ASSUME NEW S, NEW x \in S
    PROVE  <<x>> \in Seq(S) /\ Len(<<x>>) = 1
  OBVIOUS

LEMMA Marks == /\ <<COLON>> \in Seq(Chars) /\ Len(<<COLON>>) = 1
               /\ <<SP>> \in Seq(Chars) /\ Len(<<SP>>) = 1
<1>1. COLON \in Chars /\ SP \in Chars
  BY DEF Chars
<1>2. QED
  BY <1>1, OneOf

LEMMA MoreChars ==
    ASSUME NEW s \in Seq(STRING)
    PROVE  s \in Seq(Chars)
<1>1. PICK S, T : S = STRING /\ T = Chars /\ \A x \in S : x \in T
  BY DEF Chars
<1>2. PICK n \in Nat : n = Len(s)
  OBVIOUS
<1>3. s \in Seq(S)
  BY <1>1
<1>4. s = [i \in 1..n |-> s[i]] /\ \A i \in 1..n : s[i] \in S
  BY <1>2, <1>3
<1>5. PICK t : t = [i \in 1..n |-> s[i]]
  OBVIOUS
<1>6. t \in Seq(T)
  BY <1>1, <1>4, <1>5
<1>7. QED
  BY <1>1, <1>4, <1>5, <1>6

HeadLen(m) == (IF m.prefix = NULL THEN 0 ELSE Len(m.prefix) + 2) + Len(m.cmd)
ColonLen(m) == IF m.longlast /\ Len(m.params) # 0 THEN 1 ELSE 0

LEMMA HeadIs ==
    ASSUME NEW m, Printable(m)
    PROVE  HeadOf(m) \in Seq(Chars) /\ Len(HeadOf(m)) = HeadLen(m) /\ HeadLen(m) \in Nat
<1>1. PICK c \in Seq(Chars) : c = m.cmd
  BY DEF Printable
<1>2. CASE m.prefix = NULL
  <2>1. HeadOf(m) = <<>> \o c /\ HeadLen(m) = 0 + Len(c)
    BY <1>1, <1>2 DEF HeadOf, HeadLen
  <2>2. QED
    BY <2>1
<1>3. CASE m.prefix # NULL
  <2>1. PICK p \in Seq(Chars) : p = m.prefix
    BY <1>3 DEF Printable
  <2>2. HeadOf(m) = (<<COLON>> \o p \o <<SP>>) \o c /\ HeadLen(m) = (Len(p) + 2) + Len(c)
    BY <1>1, <1>3, <2>1 DEF HeadOf, HeadLen
  <2>3. PICK a \in Seq(Chars), b \in Seq(Chars) :
            a = <<COLON>> /\ b = <<SP>> /\ Len(a) = 1 /\ Len(b) = 1
    BY Marks
  <2>4. HeadOf(m) = (a \o p \o b) \o c
    BY <2>2, <2>3
  <2>5. QED
    BY <2>2, <2>3, <2>4
<1>4. QED
  BY <1>2, <1>3

LEMMA PieceIs ==
    ASSUME NEW m, Printable(m), NEW i \in 1..Len(m.params)
    PROVE  /\ Piece(m, i) \in Seq(Chars)
           /\ Len(Piece(m, i)) = 1 + Len(m.params[i]) + IF i = Len(m.params) THEN ColonLen(m) ELSE 0
           /\ ColonLen(m) \in Nat
<1>1. PICK p \in Seq(Chars) : p = m.params[i]
  BY DEF Printable
<1>2. PICK a \in Seq(Chars), b \in Seq(Chars) :
          a = <<COLON>> /\ b = <<SP>> /\ Len(a) = 1 /\ Len(b) = 1
  BY Marks
<1>3. Len(m.params) \in Nat /\ Len(m.params) # 0
  BY DEF Printable
<1>4. CASE i = Len(m.params) /\ m.longlast
  <2>1. Piece(m, i) = b \o a \o p /\ ColonLen(m) = 1
    BY <1>1, <1>2, <1>3, <1>4 DEF Piece, ColonLen
  <2>2. QED
    BY <1>1, <1>2, <1>4, <2>1
<1>5. CASE ~(i = Len(m.params) /\ m.longlast)
  <2>1. Piece(m, i) = b \o <<>> \o p
    BY <1>1, <1>2, <1>5 DEF Piece
  <2>2. ColonLen(m) \in {0, 1} /\ (i = Len(m.params) => ColonLen(m) = 0)
    BY <1>5 DEF ColonLen
  <2>3. b \o <<>> \o p \in Seq(Chars) /\ Len(b \o <<>> \o p) = 1 + Len(p)
    BY <1>2
  <2>4. QED
    BY <1>1, <1>3, <2>1, <2>2, <2>3
<1>6. QED
  BY <1>4, <1>5

LEMMA PrintedLen ==
    ASSUME NEW m, Printable(m), NEW n, n = Len(m.params)
    PROVE  /\ n \in Nat /\ HeadLen(m) \in Nat /\ ColonLen(m) \in Nat
           /\ \E g : /\ Ladder(g, m.params)
                     /\ Len(chirc_message_to_string(m)) = HeadLen(m) + g[n] + ColonLen(m)
<1>1. n \in Nat /\ ColonLen(m) \in {0, 1} /\ HeadLen(m) \in Nat
  BY HeadIs DEF Printable, ColonLen
<1>2. PICK ss : ss = [i \in 1..n |-> Piece(m, i)]
  OBVIOUS
<1>3. /\ \A i \in 1..n : /\ ss[i] \in Seq(Chars)
                         /\ Len(ss[i]) = 1 + Len(m.params[i]) + IF i = n THEN ColonLen(m) ELSE 0
      /\ \A i \in 1..n : Len(m.params[i]) \in Nat
  BY <1>1, <1>2, PieceIs DEF Printable
<1>4. ss \in Seq(Seq(Chars)) /\ Len(ss) = n
  <2>1. PICK S : S = Seq(Chars)
    OBVIOUS
  <2>2. \A i \in 1..n : Piece(m, i) \in S
    BY <2>1, PieceIs
  <2>3. ss \in Seq(S) /\ Len(ss) = n
    BY <1>1, <1>2, <2>2
  <2>4. QED
    BY <2>1, <2>3
<1>5. chirc_message_to_string(m) = HeadOf(m) \o FlattenSeq(ss)
  <2>1. ss = [i \in 1..Len(m.params) |->
                <<SP>> \o (IF i = Len(m.params) /\ m.longlast THEN <<COLON>> ELSE <<>>) \o m.params[i]]
    BY <1>2, Zenon DEF Piece
  <2>2. QED
    BY <2>1, Zenon DEF chirc_message_to_string, HeadOf
<1>6. CASE n = 0
  <2>1. FlattenSeq(ss) = ss /\ ss = <<>>
    BY <1>4, <1>6 DEF FlattenSeq
  <2>2. Len(HeadOf(m) \o <<>>) = HeadLen(m)
    BY HeadIs
  <2>3. PICK g : g = [i \in 0..0 |-> 0]
    OBVIOUS
  <2>4. Ladder(g, m.params) /\ g[n] = 0 /\ ColonLen(m) = 0
    BY <1>6, <2>3 DEF Ladder, ColonLen
  <2>5. Len(chirc_message_to_string(m)) = HeadLen(m)
    BY <1>5, <2>1, <2>2, Zenon
  <2>6. QED
    BY <1>1, <2>4, <2>5
<1>7. CASE n # 0
  <2>1. ss # <<>>
    BY <1>4, <1>7
  <2>2. PICK f : Flat(f, ss) /\ FlattenSeq(ss) = f[n]
    BY <1>4, <2>1, FlattenDefined
  <2>3. \A i \in 1..n : f[i] = IF i = 1 THEN ss[i] ELSE f[i - 1] \o ss[i]
    BY <1>4, <2>2, Zenon DEF Flat
  <2>4. PICK T : T = {k \in 0..(n - 1) : f[k + 1] \in Seq(Chars)}
    OBVIOUS
  <2>5. 0 \in T
    <3>1. 1 \in 1..n /\ 0 \in 0..(n - 1) /\ 0 + 1 = 1
      BY <1>1, <1>7
    <3>2. f[1] = ss[1] /\ ss[1] \in Seq(Chars)
      BY <1>3, <2>3, <3>1
    <3>3. QED
      BY <2>4, <3>1, <3>2
  <2>6. ASSUME NEW k \in 0..((n - 1) - 1), k \in T PROVE k + 1 \in T
    <3>1. (k + 1) + 1 \in 1..n /\ (k + 1) + 1 # 1 /\ ((k + 1) + 1) - 1 = k + 1 /\ k + 1 \in 0..(n - 1)
      BY <1>1
    <3>2. f[(k + 1) + 1] = f[k + 1] \o ss[(k + 1) + 1]
      BY <2>3, <3>1
    <3>3. f[k + 1] \in Seq(Chars) /\ ss[(k + 1) + 1] \in Seq(Chars)
      BY <1>3, <2>4, <2>6, <3>1
    <3>4. f[(k + 1) + 1] \in Seq(Chars)
      BY <3>2, <3>3
    <3>5. QED
      BY <2>4, <3>1, <3>4
  <2>7. \A k \in 0..(n - 1) : k \in T
    <3>1. n - 1 \in Nat
      BY <1>1, <1>7
    <3>2. QED
      BY <2>5, <2>6, <3>1, InductionTo
  <2>8. \A i \in 1..n : f[i] \in Seq(Chars)
    <3> TAKE i \in 1..n
    <3>1. i - 1 \in 0..(n - 1) /\ (i - 1) + 1 = i
      BY <1>1
    <3>2. f[(i - 1) + 1] \in Seq(Chars)
      BY <2>4, <2>7, <3>1
    <3>3. QED
      BY <3>1, <3>2
  <2>9. PICK h : h = [i \in 0..n |-> IF i = 0 THEN 0 ELSE Len(f[i])]
    OBVIOUS
  <2>10. h[0] = 0 /\ \A i \in 1..n : h[i] \in Nat /\ h[i] = h[i - 1] + Len(ss[i])
    <3>1. h[0] = 0 /\ \A i \in 1..n : h[i] = Len(f[i]) /\ h[i] \in Nat
      BY <1>1, <2>8, <2>9
    <3>2. ASSUME NEW i \in 1..n PROVE h[i] = h[i - 1] + Len(ss[i])
      <4>1. CASE i = 1
        <5>1. h[i] = Len(ss[i]) /\ h[i - 1] = 0 /\ Len(ss[i]) \in Nat
          BY <1>3, <2>3, <3>1, <4>1
        <5>2. QED
          BY <5>1
      <4>2. CASE i # 1
        <5>1. i - 1 \in 1..n
          BY <4>2
        <5>2. f[i] = f[i - 1] \o ss[i] /\ f[i - 1] \in Seq(Chars) /\ ss[i] \in Seq(Chars)
          BY <1>3, <2>3, <2>8, <4>2, <5>1
        <5>3. Len(f[i]) = Len(f[i - 1]) + Len(ss[i])
          BY <5>2, JoinText
        <5>4. QED
          BY <3>1, <5>1, <5>3
      <4>3. QED
        BY <4>1, <4>2
    <3>3. QED
      BY <3>1, <3>2
  <2>11. PICK g : g = [i \in 0..n |-> IF i = n THEN h[n] - ColonLen(m) ELSE h[i]]
    OBVIOUS
  <2>12. n - 1 \in 0..n /\ n \in 1..n /\ n \in 0..n /\ n - 1 # n
    BY <1>1, <1>7
  <2>13. g[0] = 0 /\ g[n] = h[n] - ColonLen(m) /\ \A i \in 0..(n - 1) : g[i] = h[i]
    BY <1>1, <1>7, <2>10, <2>11
  <2>14. \A i \in 1..n : g[i] \in Nat /\ g[i] = g[i - 1] + 1 + Len(m.params[i])
    <3> TAKE i \in 1..n
    <3>1. h[i - 1] \in Nat /\ h[i] \in Nat /\ h[i] = h[i - 1] + Len(ss[i]) /\ g[i - 1] = h[i - 1]
      <4>1. i - 1 \in 0..(n - 1) /\ (i = 1 \/ i - 1 \in 1..n)
        BY <1>1
      <4>2. QED
        BY <2>10, <2>13, <4>1
    <3>2. PICK a \in Nat : a = Len(m.params[i])
      BY <1>3
    <3>3. CASE i = n
      <4>1. Len(ss[i]) = 1 + a + ColonLen(m)
        BY <1>3, <3>2, <3>3
      <4>2. g[i] = h[i] - ColonLen(m)
        BY <2>13, <3>3
      <4>3. PICK k \in Nat : k = ColonLen(m)
        BY <1>1
      <4>4. g[i] = g[i - 1] + 1 + a /\ g[i - 1] \in Nat
        BY <3>1, <4>1, <4>2, <4>3
      <4>5. QED
        BY <3>2, <4>4
    <3>4. CASE i # n
      <4>1. i \in 0..(n - 1)
        BY <3>4
      <4>2. Len(ss[i]) = 1 + a + 0
        BY <1>3, <3>2, <3>4
      <4>3. g[i] = h[i]
        BY <2>13, <4>1
      <4>4. g[i] = g[i - 1] + 1 + a /\ g[i] \in Nat
        BY <3>1, <4>2, <4>3
      <4>5. QED
        BY <3>2, <4>4
    <3>5. QED
      BY <3>3, <3>4
  <2>15. Ladder(g, m.params)
    BY <2>13, <2>14 DEF Ladder
  <2>16. Len(chirc_message_to_string(m)) = HeadLen(m) + g[n] + ColonLen(m)
    <3>1. FlattenSeq(ss) \in Seq(Chars) /\ Len(FlattenSeq(ss)) = h[n]
      BY <2>2, <2>8, <2>9, <2>12
    <3>2. Len(HeadOf(m) \o FlattenSeq(ss)) = HeadLen(m) + h[n]
      BY <3>1, HeadIs
    <3>3. h[n] \in Nat
      BY <2>10, <2>12
    <3>4. QED
      BY <1>1, <1>5, <2>13, <3>2, <3>3
  <2>17. QED
    BY <1>1, <2>15, <2>16
<1>8. QED
  BY <1>6, <1>7

-----------------------------------------------------------------------------
(* How long the replies are *)

\* A name that fits its array.
Short(n) == n \in Seq(Chars) /\ Len(n) < NameSize

\* A code, and any word of one character.
Single(w) == w \in Seq(Chars) /\ Len(w) = 1

\* n parameters, each a text and a flag.
Pairs(ps, n) ==
    /\ n \in Nat /\ Len(ps) = n /\ IsSequence(ps)
    /\ \A i \in 1..n : ps[i][1] \in Seq(Chars) /\ ps[i][2] \in BOOLEAN

\* g adds up what they take.
Sums(g, ps, n) == g[0] = 0 /\ \A i \in 1..n : g[i] \in Int /\ g[i] = g[i - 1] + 1 + Len(ps[i][1])

LEMMA ShortNames ==
    /\ Short(Anybody) /\ Short(<<>>) /\ NameSize \in Nat /\ BufferSize \in Nat /\ ParamsSize \in Nat
    /\ servername \in Seq(Chars) /\ Len(servername) \in Nat
<1>1. "*" \in Chars
  BY DEF Chars
<1>2. NameSize \in Nat /\ NameSize >= 2 /\ BufferSize \in Nat /\ ParamsSize \in Nat
  BY BufferAssumption
<1>3. <<"*">> \in Seq(Chars) /\ Len(<<"*">>) = 1 /\ <<>> \in Seq(Chars) /\ Len(<<>>) = 0
  BY <1>1, OneOf
<1>4. servername \in Seq(Chars) /\ Len(servername) \in Nat
  <2>1. servername \in Seq(STRING)
    BY BufferAssumption
  <2>2. QED
    BY <2>1, MoreChars
<1>5. QED
  BY <1>2, <1>3, <1>4 DEF Short, Anybody

LEMMA WordChars ==
    /\ Text \in Seq(Chars) /\ Len(Text) = 3 /\ Single(Number) /\ Single(<<"m">>) /\ Single(<<"USER">>)
<1>1. "t" \in Chars /\ SP \in Chars /\ "0" \in Chars /\ "m" \in Chars /\ "USER" \in Chars
  BY DEF Chars
<1>2. <<"t", SP, "t">> \in Seq(Chars) /\ Len(<<"t", SP, "t">>) = 3
  <2>1. PICK S : S = Chars
    OBVIOUS
  <2>2. PICK a \in S, b \in S : a = "t" /\ b = SP
    BY <1>1, <2>1
  <2>3. <<a, b, a>> \in Seq(S) /\ Len(<<a, b, a>>) = 3
    OBVIOUS
  <2>4. QED
    BY <2>1, <2>2, <2>3
<1>3. QED
  BY <1>1, <1>2, OneOf DEF Text, Number, Single

\* What a user's reply is.
LEMMA ReplyMessage ==
    ASSUME NEW nick, Short(nick), NEW code, Single(code), NEW n, NEW ps, Pairs(ps, n), n # 0,
           NEW m, m = reply(CONN_TYPE_USER, nick, code, ps).msg
    PROVE  /\ Printable(m) /\ m.prefix = servername /\ m.cmd = code /\ Len(m.params) = n + 1
           /\ Short(m.params[1]) /\ \A i \in 1..n : m.params[i + 1] = ps[i][1]
<1>1. PICK nm : nm = IF nick = NULL THEN Anybody ELSE nick
  OBVIOUS
<1>2. Short(nm)
  BY <1>1, ShortNames
<1>3. PICK r : /\ r = chirc_message_construct_reply(servername, [type |-> CONN_TYPE_USER, name |-> nick], code)
               /\ r.prefix = servername /\ r.cmd = code /\ r.params = Append(<<>>, nm)
               /\ DOMAIN r = {"prefix", "cmd", "params", "longlast"}
  <2>1. PICK conn : conn = [type |-> CONN_TYPE_USER, name |-> nick]
    OBVIOUS
  <2>2. /\ conn.type # CONN_TYPE_UNKNOWN /\ conn.type # CONN_TYPE_QUIT /\ conn.name = nick
    BY <2>1 DEF CONN_TYPE_UNKNOWN, CONN_TYPE_USER, CONN_TYPE_QUIT
  <2>3. PICK e : e = chirc_message_construct(servername, code)
    OBVIOUS
  <2>4. chirc_message_construct_reply(servername, conn, code) = chirc_message_add_parameter(e, nm, FALSE)
    BY <1>1, <2>2, <2>3, Zenon DEF chirc_message_construct_reply
  <2>5. e = [prefix |-> servername, cmd |-> code, params |-> <<>>, longlast |-> FALSE]
    BY <2>3 DEF chirc_message_construct
  <2>6. chirc_message_add_parameter(e, nm, FALSE) =
            [e EXCEPT !.params = Append(e.params, nm), !.longlast = FALSE]
    BY Zenon DEF chirc_message_add_parameter
  <2>7. PICK q, b : q = Append(e.params, nm) /\ b = FALSE
    OBVIOUS
  <2>8. PICK f : f = [e EXCEPT !.params = q, !.longlast = b]
    OBVIOUS
  <2>9. /\ f.prefix = servername /\ f.cmd = code /\ f.params = q
        /\ DOMAIN f = {"prefix", "cmd", "params", "longlast"}
    BY <2>5, <2>8
  <2>10. q = Append(<<>>, nm)
    BY <2>5, <2>7
  <2>11. f = chirc_message_construct_reply(servername, conn, code)
    BY <2>4, <2>6, <2>7, <2>8
  <2>12. QED
    BY <2>1, <2>9, <2>10, <2>11
<1>4. PICK q : q = [i \in 1..n |-> ps[i][1]]
  OBVIOUS
<1>5. PICK S : S = Seq(Chars)
  OBVIOUS
<1>6. nm \in S /\ q \in Seq(S) /\ Len(q) = n /\ \A i \in 1..n : q[i] = ps[i][1]
  BY <1>2, <1>4, <1>5 DEF Short, Pairs
<1>7. Append(<<>>, nm) \in Seq(S) /\ Len(Append(<<>>, nm)) = 1 /\ Append(<<>>, nm)[1] = nm
  BY <1>6
<1>8. PICK a \in Seq(S) : a = Append(<<>>, nm) /\ Len(a) = 1 /\ a[1] = nm
  BY <1>7
<1>9. ps # <<>> /\ Len(ps) = n /\ n \in Nat /\ ps[n][2] \in BOOLEAN
  BY DEF Pairs
<1>10. m.prefix = servername /\ m.cmd = code /\ m.params = a \o q /\ m.longlast = ps[n][2]
  <2>1. m = WithParams(r, ps)
    BY <1>3 DEF reply
  <2>2. m = [r EXCEPT !.params = r.params \o q, !.longlast = ps[n][2]]
    BY <1>4, <1>9, <2>1 DEF WithParams
  <2>3. PICK e, b : e = r.params \o q /\ b = ps[n][2]
    OBVIOUS
  <2>4. m = [r EXCEPT !.params = e, !.longlast = b]
    BY <2>2, <2>3
  <2>5. m.prefix = servername /\ m.cmd = code /\ m.params = e /\ m.longlast = b
    BY <1>3, <2>4
  <2>6. QED
    BY <1>3, <1>8, <2>3, <2>5
<1>11. a \o q \in Seq(S) /\ Len(a \o q) = n + 1 /\ (a \o q)[1] = nm
       /\ \A i \in 1..n : (a \o q)[i + 1] = q[i]
  BY <1>6, <1>8, <1>9
<1>12. QED
  BY <1>2, <1>5, <1>6, <1>9, <1>10, <1>11, ShortNames DEF Printable, Single

LEMMA ReplyLen ==
    ASSUME NEW nick, Short(nick), NEW code, Single(code), NEW n, NEW ps, Pairs(ps, n), n # 0,
           NEW m, m = reply(CONN_TYPE_USER, nick, code, ps).msg
    PROVE  /\ Len(m.params) = n + 1
           /\ Len(chirc_message_to_string(m)) \in Int
           /\ \E g : /\ Sums(g, ps, n)
                     /\ Len(chirc_message_to_string(m)) =< Len(servername) + NameSize + 4 + g[n]
<1>1. /\ Printable(m) /\ m.prefix = servername /\ m.cmd = code /\ Len(m.params) = n + 1
      /\ Short(m.params[1]) /\ \A i \in 1..n : m.params[i + 1] = ps[i][1]
  BY ReplyMessage
<1>2. n \in Nat
  BY DEF Pairs
<1>3. PICK g : /\ Ladder(g, m.params)
               /\ Len(chirc_message_to_string(m)) = HeadLen(m) + g[n + 1] + ColonLen(m)
  BY <1>1, PrintedLen
<1>4. HeadLen(m) \in Nat /\ HeadLen(m) =< Len(servername) + 3 /\ ColonLen(m) \in 0..1
  <2>1. HeadLen(m) =< Len(servername) + 3
    <3>1. Len(m.cmd) = 1
      BY <1>1 DEF Single
    <3>2. Len(m.prefix) = Len(servername) /\ Len(servername) \in Nat
      BY <1>1, ShortNames
    <3>3. QED
      BY <3>1, <3>2 DEF HeadLen
  <2>2. QED
    BY <1>1, <2>1, HeadIs DEF ColonLen
<1>5. PICK a \in Nat : a = Len(m.params[1]) /\ a + 1 =< NameSize
  BY <1>1, ShortNames DEF Short
<1>6. g[0] = 0 /\ \A i \in 1..(n + 1) : g[i] \in Nat /\ g[i] = g[i - 1] + 1 + Len(m.params[i])
  BY <1>1, <1>3 DEF Ladder
<1>7. g[1] = 1 + a
  <2>1. 1 \in 1..(n + 1) /\ 1 - 1 = 0
    BY <1>2
  <2>2. QED
    BY <1>5, <1>6, <2>1
<1>8. PICK h : h = [i \in 0..n |-> g[i + 1] - (1 + a)]
  OBVIOUS
<1>9. h[0] = 0 /\ h[n] = g[n + 1] - (1 + a) /\ g[n + 1] \in Nat
  BY <1>2, <1>6, <1>7, <1>8
<1>10. \A i \in 1..n : h[i] \in Int /\ h[i] = h[i - 1] + 1 + Len(ps[i][1])
  <2> TAKE i \in 1..n
  <2>1. i + 1 \in 1..(n + 1) /\ i \in 1..(n + 1) /\ (i + 1) - 1 = i /\ i - 1 \in 0..n /\ (i - 1) + 1 = i
        /\ i \in 0..n
    BY <1>2
  <2>2. m.params[i + 1] = ps[i][1] /\ Len(ps[i][1]) \in Nat
    BY <1>1 DEF Pairs
  <2>3. PICK b \in Nat : b = Len(ps[i][1])
    BY <2>2
  <2>4. g[i + 1] = g[i] + 1 + b /\ g[i] \in Nat /\ g[i + 1] \in Nat
    BY <1>6, <2>1, <2>2, <2>3
  <2>5. h[i] = g[i + 1] - (1 + a) /\ h[i - 1] = g[i] - (1 + a)
    BY <1>8, <2>1
  <2>6. h[i] \in Int /\ h[i] = h[i - 1] + 1 + b
    <3>1. PICK x \in Nat, y \in Nat : x = g[i] /\ y = g[i + 1] /\ y = x + 1 + b
      BY <2>4
    <3>2. h[i] = y - (1 + a) /\ h[i - 1] = x - (1 + a)
      BY <2>5, <3>1
    <3>3. y - (1 + a) \in Int /\ y - (1 + a) = (x - (1 + a)) + 1 + b
      BY <3>1
    <3>4. QED
      BY <3>2, <3>3
  <2>7. QED
    BY <2>3, <2>6
<1>11. Sums(h, ps, n)
  BY <1>9, <1>10 DEF Sums
<1>12. PICK L \in Nat, N \in Nat, H \in Nat, C \in 0..1 :
           L = Len(servername) /\ N = NameSize /\ H = HeadLen(m) /\ C = ColonLen(m)
  BY <1>4, ShortNames
<1>13. Len(chirc_message_to_string(m)) =< L + N + 4 + h[n]
  <2>1. PICK G \in Nat : G = g[n + 1]
    BY <1>9
  <2>2. Len(chirc_message_to_string(m)) = H + G + C /\ h[n] = G - (1 + a) /\ H =< L + 3 /\ a + 1 =< N
    BY <1>3, <1>4, <1>5, <1>9, <1>12, <2>1
  <2>3. H + G + C =< L + N + 4 + (G - (1 + a))
    BY <1>12, <2>1, <2>2
  <2>4. QED
    BY <2>2, <2>3
<1>14. Len(chirc_message_to_string(m)) \in Int
  BY <1>3, <1>9, <1>12
<1>15. QED
  BY <1>1, <1>11, <1>12, <1>13, <1>14

LEMMA ReplyFits ==
    ASSUME NEW nick, Short(nick), NEW code, Single(code), NEW n \in 1..4, NEW ps, Pairs(ps, n),
           NEW m, m = reply(CONN_TYPE_USER, nick, code, ps).msg,
           NEW k \in Int, \A g : Sums(g, ps, n) => g[n] = k,
           Len(servername) + NameSize + 7 + k =< BufferSize
    PROVE  Fits(m)
<1>1. /\ Len(m.params) = n + 1 /\ Len(chirc_message_to_string(m)) \in Int
      /\ \E g : /\ Sums(g, ps, n)
                /\ Len(chirc_message_to_string(m)) =< Len(servername) + NameSize + 4 + g[n]
  BY ReplyLen
<1>2. Len(chirc_message_to_string(m)) =< Len(servername) + NameSize + 4 + k
  BY <1>1
<1>3. ParamsSize >= 5 /\ ParamsSize \in Nat /\ BufferSize \in Nat /\ NameSize \in Nat /\ Len(servername) \in Nat
  BY ShortNames, BufferAssumption
<1>4. Len(chirc_message_to_string(m)) + 3 =< BufferSize
  BY <1>1, <1>2, <1>3
<1>5. Len(m.params) =< ParamsSize
  BY <1>1, <1>3
<1>6. QED
  BY <1>4, <1>5 DEF Fits

LEMMA TwoSeq ==
    ASSUME NEW x, NEW y
    PROVE  /\ IsSequence(<<x, y>>) /\ Len(<<x, y>>) = 2
           /\ <<x, y>>[1] = x /\ <<x, y>>[2] = y
<1>1. PICK t : t = <<x, y>>
  OBVIOUS
<1>2. Len(t) = 2 /\ t[1] = x /\ t[2] = y /\ DOMAIN t = 1..2
  BY <1>1
<1>3. IsSequence(t)
  BY <1>1, <1>2 DEF IsSequence
<1>4. QED
  BY <1>1, <1>2, <1>3

LEMMA JoinTwo ==
    ASSUME NEW x, NEW y
    PROVE  <<x>> \o <<y>> = <<x, y>>
<1>1. PICK S : S = {x, y}
  OBVIOUS
<1>2. x \in S /\ y \in S
  BY <1>1
<1>3. PICK a \in Seq(S) : a = <<x>>
  BY <1>2, OneOf
<1>4. PICK b \in Seq(S) : b = <<y>>
  BY <1>2, OneOf
<1>5. Len(a) = 1 /\ Len(b) = 1 /\ a[1] = x /\ b[1] = y
  BY <1>3, <1>4
<1>6. PICK u : u = a \o b
  OBVIOUS
<1>7. u \in Seq(S) /\ Len(u) = 2 /\ u[1] = x /\ u[2] = y
  <2>1. u \in Seq(S) /\ Len(u) = 2
    BY <1>3, <1>4, <1>5, <1>6, JoinText
  <2>2. \A i \in 1..2 : u[i] = IF i =< 1 THEN a[i] ELSE b[i - 1]
    BY <1>3, <1>4, <1>5, <1>6
  <2>3. 1 \in 1..2 /\ 2 \in 1..2 /\ 1 =< 1 /\ ~(2 =< 1) /\ 2 - 1 = 1
    OBVIOUS
  <2>4. QED
    BY <1>5, <2>1, <2>2, <2>3
<1>8. PICK t : t = <<x, y>>
  OBVIOUS
<1>9. t \in Seq(S) /\ Len(t) = 2 /\ t[1] = x /\ t[2] = y
  BY <1>2, <1>8
<1>10. u = [i \in 1..2 |-> u[i]] /\ t = [i \in 1..2 |-> t[i]] /\ \A i \in 1..2 : u[i] = t[i]
  BY <1>7, <1>9
<1>11. u = t
  BY <1>10
<1>12. QED
  BY <1>3, <1>4, <1>6, <1>8, <1>11

LEMMA SumsAt ==
    ASSUME NEW n \in Nat, NEW g, NEW ps, Sums(g, ps, n), NEW i \in 1..n, NEW j, j = i - 1
    PROVE  g[i] \in Int /\ g[i] = g[j] + 1 + Len(ps[i][1])
  BY DEF Sums

LEMMA OnePair ==
    ASSUME NEW ps, IsSequence(ps), Len(ps) = 1, ps[1][1] \in Seq(Chars), ps[1][2] \in BOOLEAN
    PROVE  Pairs(ps, 1) /\ \A g : Sums(g, ps, 1) => g[1] = 1 + Len(ps[1][1])
<1>1. Pairs(ps, 1)
  <2>1. \A i \in 1..1 : i = 1
    OBVIOUS
  <2>2. QED
    BY <2>1 DEF Pairs
<1>2. ASSUME NEW g, Sums(g, ps, 1) PROVE g[1] = 1 + Len(ps[1][1])
  <2>1. PICK a \in Nat : a = Len(ps[1][1])
    OBVIOUS
  <2>2. 1 \in 1..1 /\ 0 = 1 - 1
    OBVIOUS
  <2>3. g[1] = g[0] + 1 + Len(ps[1][1]) /\ g[0] = 0
    BY <1>2, <2>2, SumsAt DEF Sums
  <2>4. QED
    BY <2>1, <2>3
<1>3. QED
  BY <1>1, <1>2

LEMMA TwoSums ==
    ASSUME NEW ps, Pairs(ps, 2), NEW g, Sums(g, ps, 2)
    PROVE  g[2] = 2 + Len(ps[1][1]) + Len(ps[2][1])
<1>1. PICK a \in Nat, c \in Nat : a = Len(ps[1][1]) /\ c = Len(ps[2][1])
  BY DEF Pairs
<1>2. 1 \in 1..2 /\ 0 = 1 - 1 /\ 2 \in 1..2 /\ 1 = 2 - 1
  OBVIOUS
<1>3. g[0] = 0 /\ g[1] = g[0] + 1 + a
  BY <1>1, <1>2, SumsAt DEF Sums
<1>4. g[2] = g[1] + 1 + c
  BY <1>1, <1>2, SumsAt
<1>5. g[2] = 2 + a + c
  <2>1. PICK p, q : p = g[1] /\ q = g[2]
    OBVIOUS
  <2>2. p = 0 + 1 + a /\ q = p + 1 + c
    BY <1>3, <1>4, <2>1
  <2>3. a \in Nat /\ c \in Nat
    BY <1>1
  <2>4. q = 2 + a + c
    BY <2>2, <2>3
  <2>5. QED
    BY <2>1, <2>4
<1>6. QED
  BY <1>1, <1>5

LEMMA TwoPairs ==
    ASSUME NEW ps, IsSequence(ps), Len(ps) = 2, ps[1][1] \in Seq(Chars), ps[2][1] \in Seq(Chars),
           ps[1][2] \in BOOLEAN, ps[2][2] \in BOOLEAN
    PROVE  Pairs(ps, 2) /\ \A g : Sums(g, ps, 2) => g[2] = 2 + Len(ps[1][1]) + Len(ps[2][1])
<1>1. Pairs(ps, 2)
  <2>1. \A i \in 1..2 : i = 1 \/ i = 2
    OBVIOUS
  <2>2. QED
    BY <2>1 DEF Pairs
<1>2. QED
  BY <1>1, TwoSums

LEMMA ThreeSums ==
    ASSUME NEW ps, Pairs(ps, 3), NEW g, Sums(g, ps, 3)
    PROVE  g[3] = 3 + Len(ps[1][1]) + Len(ps[2][1]) + Len(ps[3][1])
<1>1. PICK a \in Nat, c \in Nat, k \in Nat :
          a = Len(ps[1][1]) /\ c = Len(ps[2][1]) /\ k = Len(ps[3][1])
  BY DEF Pairs
<1>2. 1 \in 1..3 /\ 0 = 1 - 1 /\ 2 \in 1..3 /\ 1 = 2 - 1 /\ 3 \in 1..3 /\ 2 = 3 - 1
  OBVIOUS
<1>3. g[0] = 0 /\ g[1] = g[0] + 1 + a
  BY <1>1, <1>2, SumsAt DEF Sums
<1>4. g[2] = g[1] + 1 + c
  BY <1>1, <1>2, SumsAt
<1>5. g[3] = g[2] + 1 + k
  BY <1>1, <1>2, SumsAt
<1>6. g[3] = 3 + a + c + k
  <2>1. PICK p, q, r : p = g[1] /\ q = g[2] /\ r = g[3]
    OBVIOUS
  <2>2. p = 0 + 1 + a /\ q = p + 1 + c /\ r = q + 1 + k
    BY <1>3, <1>4, <1>5, <2>1
  <2>3. a \in Nat /\ c \in Nat /\ k \in Nat
    BY <1>1
  <2>4. r = 3 + a + c + k
    BY <2>2, <2>3
  <2>5. QED
    BY <2>1, <2>4
<1>7. QED
  BY <1>1, <1>6

LEMMA ThreePairs ==
    ASSUME NEW ps, IsSequence(ps), Len(ps) = 3, ps[1][1] \in Seq(Chars), ps[2][1] \in Seq(Chars),
           ps[3][1] \in Seq(Chars),
           ps[1][2] \in BOOLEAN, ps[2][2] \in BOOLEAN, ps[3][2] \in BOOLEAN
    PROVE  /\ Pairs(ps, 3)
           /\ \A g : Sums(g, ps, 3) =>
                  g[3] = 3 + Len(ps[1][1]) + Len(ps[2][1]) + Len(ps[3][1])
<1>1. Pairs(ps, 3)
  <2>1. \A i \in 1..3 : i = 1 \/ i = 2 \/ i = 3
    OBVIOUS
  <2>2. QED
    BY <2>1 DEF Pairs
<1>2. QED
  BY <1>1, ThreeSums

\* A name or a short text takes this much.
LEMMA UserReplyFits ==
    ASSUME NEW nick, Short(nick), NEW code, Single(code), NEW text \in Seq(Chars), NEW extra,
           extra # NULL => extra \in Seq(Chars),
           NEW k \in Int, k >= 1 + Len(text),
           extra # NULL => k >= 2 + Len(text) + Len(extra),
           Len(servername) + NameSize + 7 + k =< BufferSize
    PROVE  Fits(user_reply(code, text, extra, nick).msg)
<1>1. PICK ps : ps = (IF extra = NULL THEN <<>> ELSE << <<extra, FALSE>> >>) \o << <<text, TRUE>> >>
  OBVIOUS
<1>2. PICK m : m = reply(CONN_TYPE_USER, nick, code, ps).msg
  OBVIOUS
<1>3. PICK L \in Nat, N \in Nat, B \in Nat : L = Len(servername) /\ N = NameSize /\ B = BufferSize
  BY ShortNames
<1>4. CASE extra = NULL
  <2>1. PICK x : x = <<text, TRUE>>
    OBVIOUS
  <2>2. Pairs(ps, 1) /\ \A g : Sums(g, ps, 1) => g[1] = 1 + Len(text)
    <3>1. PICK S : S = {x}
      OBVIOUS
    <3>2. PICK e \in Seq(S) : e = <<x>>
      BY <3>1, OneOf
    <3>7. Len(e) = 1 /\ e[1] = x /\ DOMAIN e = 1..1
      BY <3>2
    <3>3. ps = e
      BY <1>1, <1>4, <2>1, <3>2
    <3>4. IsSequence(ps)
      BY <3>1, <3>2, <3>3, <3>7 DEF IsSequence
    <3>5. ps[1][1] = text /\ ps[1][2] \in BOOLEAN
      BY <2>1, <3>3, <3>7
    <3>6. QED
      BY <3>3, <3>4, <3>5, <3>7, OnePair
  <2>3. PICK a \in Nat : a = Len(text)
    OBVIOUS
  <2>4. Len(servername) + NameSize + 7 + (1 + Len(text)) =< BufferSize /\ 1 + Len(text) \in Int
    BY <1>3, <2>3
  <2>5. Fits(m)
    <3>1. 1 \in 1..4
      OBVIOUS
    <3>2. QED
      BY <1>2, <2>2, <2>4, <3>1, ReplyFits
  <2>6. QED
    BY <1>1, <1>2, <2>5, Zenon DEF user_reply
<1>5. CASE extra # NULL
  <2>1. PICK x, y : x = <<extra, FALSE>> /\ y = <<text, TRUE>>
    OBVIOUS
  <2>2. Pairs(ps, 2) /\ \A g : Sums(g, ps, 2) => g[2] = 2 + Len(extra) + Len(text)
    <3>1. ps = <<x, y>>
      BY <1>1, <1>5, <2>1, JoinTwo
    <3>2. IsSequence(ps) /\ Len(ps) = 2 /\ ps[1] = x /\ ps[2] = y
      BY <3>1, TwoSeq
    <3>3. ps[1][1] = extra /\ ps[1][2] \in BOOLEAN /\ ps[2][1] = text /\ ps[2][2] \in BOOLEAN
      BY <2>1, <3>2
    <3>4. QED
      BY <1>5, <3>2, <3>3, TwoPairs
  <2>3. PICK a \in Nat, b \in Nat : a = Len(text) /\ b = Len(extra)
    BY <1>5
  <2>4. Len(servername) + NameSize + 7 + (2 + Len(extra) + Len(text)) =< BufferSize
        /\ 2 + Len(extra) + Len(text) \in Int
    BY <1>3, <1>5, <2>3
  <2>5. Fits(m)
    <3>1. 2 \in 1..4
      OBVIOUS
    <3>2. QED
      BY <1>2, <2>2, <2>4, <3>1, ReplyFits
  <2>6. QED
    BY <1>1, <1>2, <2>5, Zenon DEF user_reply
<1>6. QED
  BY <1>4, <1>5

\* What the assumption on the sizes leaves.
LEMMA Sizes ==
    /\ Len(servername) \in Nat /\ NameSize \in Nat /\ NameSize >= 2 /\ BufferSize \in Nat
    /\ 2 * Len(servername) + 2 * NameSize + 12 =< BufferSize
  BY ShortNames, BufferAssumption

\* The replies with a fixed text, and at most one more word of one character.
LEMMA TextFits ==
    ASSUME NEW nick, Short(nick), NEW code, Single(code), NEW extra, extra = NULL \/ Single(extra)
    PROVE  Fits(user_reply(code, Text, extra, nick).msg)
<1>1. Text \in Seq(Chars) /\ Len(Text) = 3
  BY WordChars
<1>2. Len(servername) + NameSize + 7 + 6 =< BufferSize
  BY Sizes
<1>3. extra # NULL => extra \in Seq(Chars) /\ Len(extra) = 1
  BY DEF Single
<1>4. 6 \in Int /\ 6 >= 1 + Len(Text)
  BY <1>1
<1>5. ASSUME extra # NULL PROVE 6 >= 2 + Len(Text) + Len(extra)
  <2>1. PICK a \in Nat, b \in Nat : a = Len(Text) /\ b = Len(extra) /\ a = 3 /\ b = 1
    BY <1>1, <1>3, <1>5
  <2>2. QED
    BY <2>1
<1>6. QED
  BY <1>1, <1>2, <1>3, <1>4, <1>5, UserReplyFits

LEMMA CodesSingle ==
    /\ Single(<<"001">>) /\ Single(<<"002">>) /\ Single(<<"003">>) /\ Single(<<"004">>)
    /\ Single(<<"251">>) /\ Single(<<"252">>) /\ Single(<<"253">>) /\ Single(<<"254">>)
    /\ Single(<<"255">>) /\ Single(<<"311">>) /\ Single(<<"312">>) /\ Single(<<"318">>)
    /\ Single(<<"372">>) /\ Single(<<"375">>) /\ Single(<<"376">>) /\ Single(<<"401">>)
    /\ Single(<<"421">>) /\ Single(<<"422">>) /\ Single(<<"431">>) /\ Single(<<"433">>)
    /\ Single(<<"451">>) /\ Single(<<"461">>) /\ Single(<<"PONG">>) /\ Single(<<"ERROR">>)
    /\ Single(<<"x">>)
<1>1. \A w \in Chars : Single(<<w>>)
  BY OneOf DEF Single
<1>2. {"001", "002", "003", "004", "251", "252", "253", "254", "255", "311", "312", "318", "372"}
          \subseteq Chars
  BY DEF Chars
<1>3. {"375", "376", "401", "421", "422", "431", "433", "451", "461", "PONG", "ERROR", "x"}
          \subseteq Chars
  BY DEF Chars
<1>4. QED
  BY <1>1, <1>2, <1>3, Zenon

\* The server's own lines: the end of a welcome, and those of MOTD.
LEMMA MyInfoFits ==
    ASSUME NEW nick, Short(nick)
    PROVE  Fits(MYINFO_reply(nick).msg)
<1>1. PICK ps : ps = [i \in 1..4 |-> <<IF i = 1 THEN servername ELSE <<"m">>, FALSE>>]
  OBVIOUS
<1>2. servername \in Seq(Chars) /\ Single(<<"m">>) /\ Single(<<"004">>)
  BY ShortNames, WordChars, CodesSingle
<1>3. /\ \A i \in 1..4 : ps[i][1] \in Seq(Chars) /\ ps[i][2] \in BOOLEAN
      /\ ps[1][1] = servername /\ Len(ps[2][1]) = 1 /\ Len(ps[3][1]) = 1 /\ Len(ps[4][1]) = 1
  BY <1>1, <1>2 DEF Single
<1>4. IsSequence(ps) /\ Len(ps) = 4
  BY <1>1 DEF IsSequence
<1>5. Pairs(ps, 4)
  BY <1>3, <1>4 DEF Pairs
<1>6. PICK L \in Nat, N \in Nat, B \in Nat : L = Len(servername) /\ N = NameSize /\ B = BufferSize
  BY Sizes
<1>7. ASSUME NEW g, Sums(g, ps, 4) PROVE g[4] = 7 + L
  <2>1. /\ 1 \in 1..4 /\ 0 = 1 - 1 /\ 2 \in 1..4 /\ 1 = 2 - 1
        /\ 3 \in 1..4 /\ 2 = 3 - 1 /\ 4 \in 1..4 /\ 3 = 4 - 1 /\ 4 \in Nat
    OBVIOUS
  <2>2. g[0] = 0 /\ g[1] = g[0] + 1 + L
    BY <1>3, <1>6, <1>7, <2>1, SumsAt DEF Sums
  <2>3. g[2] = g[1] + 1 + 1
    BY <1>3, <1>7, <2>1, SumsAt DEF Sums
  <2>4. g[3] = g[2] + 1 + 1
    BY <1>3, <1>7, <2>1, SumsAt DEF Sums
  <2>5. g[4] = g[3] + 1 + 1
    BY <1>3, <1>7, <2>1, SumsAt DEF Sums
  <2>6. QED
    BY <1>6, <2>2, <2>3, <2>4, <2>5
<1>8. L + N + 7 + (7 + L) =< B /\ 7 + L \in Int
  BY <1>6, Sizes
<1>9. PICK m : m = reply(CONN_TYPE_USER, nick, <<"004">>, ps).msg
  OBVIOUS
<1>10. Fits(m)
  <2>1. 4 \in 1..4
    OBVIOUS
  <2>2. Len(servername) + NameSize + 7 + (7 + L) =< BufferSize
    BY <1>6, <1>8
  <2>3. QED
    BY <1>2, <1>5, <1>7, <1>8, <1>9, <2>1, <2>2, ReplyFits
<1>11. QED
  BY <1>1, <1>9, <1>10, Zenon DEF MYINFO_reply

\* WHOIS: the server of the nick asked for, and the end.
LEMMA WhoisEndFits ==
    ASSUME NEW nick, Short(nick), NEW asked, Short(asked)
    PROVE  Fits(WHOISSERVER_reply(nick, asked).msg) /\ Fits(ENDOFWHOIS_reply(nick).msg)
<1>1. Text \in Seq(Chars) /\ Len(Text) = 3 /\ servername \in Seq(Chars)
      /\ Single(<<"312">>) /\ Single(<<"318">>) /\ 2 \in 1..4 /\ 3 \in 1..4
  BY WordChars, CodesSingle, ShortNames
<1>2. PICK L \in Nat, N \in Nat, B \in Nat : L = Len(servername) /\ N = NameSize /\ B = BufferSize
  BY Sizes
<1>3. PICK a \in Nat, b \in Nat : a = Len(nick) /\ b = Len(asked) /\ a + 1 =< N /\ b + 1 =< N
  BY <1>2 DEF Short
<1>4. 2 * L + 2 * N + 12 =< B
  BY <1>2, Sizes
<1>5. Fits(WHOISSERVER_reply(nick, asked).msg)
  <2>1. PICK ps : ps = << <<asked, FALSE>>, <<servername, FALSE>>, <<Text, TRUE>> >>
    OBVIOUS
  <2>2. Pairs(ps, 3) /\ \A g : Sums(g, ps, 3) => g[3] = 3 + Len(asked) + Len(servername) + Len(Text)
    <3>1. PICK x, y, z : x = <<asked, FALSE>> /\ y = <<servername, FALSE>> /\ z = <<Text, TRUE>>
      OBVIOUS
    <3>2. ps = <<x, y, z>>
      BY <2>1, <3>1
    <3>3. Len(ps) = 3 /\ ps[1] = x /\ ps[2] = y /\ ps[3] = z /\ DOMAIN ps = 1..3
      BY <3>2
    <3>4. IsSequence(ps)
      BY <3>2, <3>3 DEF IsSequence
    <3>5. /\ ps[1][1] = asked /\ ps[2][1] = servername /\ ps[3][1] = Text
          /\ ps[1][2] \in BOOLEAN /\ ps[2][2] \in BOOLEAN /\ ps[3][2] \in BOOLEAN
      BY <3>1, <3>3
    <3>6. asked \in Seq(Chars)
      BY DEF Short
    <3>7. QED
      BY <1>1, <3>3, <3>4, <3>5, <3>6, ThreePairs
  <2>3. \A g : Sums(g, ps, 3) => g[3] = 6 + b + L
    BY <1>1, <1>2, <1>3, <2>2
  <2>4. Len(servername) + NameSize + 7 + (6 + b + L) =< BufferSize /\ 6 + b + L \in Int
    BY <1>2, <1>3, <1>4
  <2>5. PICK m : m = reply(CONN_TYPE_USER, nick, <<"312">>, ps).msg
    OBVIOUS
  <2>6. Fits(m)
    BY <1>1, <2>2, <2>3, <2>4, <2>5, ReplyFits
  <2>7. QED
    BY <2>1, <2>5, <2>6, Zenon DEF WHOISSERVER_reply
<1>6. Fits(ENDOFWHOIS_reply(nick).msg)
  <2>1. PICK ps : ps = << <<nick, TRUE>>, <<Text, TRUE>> >>
    OBVIOUS
  <2>2. Pairs(ps, 2) /\ \A g : Sums(g, ps, 2) => g[2] = 2 + Len(nick) + Len(Text)
    <3>1. IsSequence(ps) /\ Len(ps) = 2 /\ ps[1] = <<nick, TRUE>> /\ ps[2] = <<Text, TRUE>>
      BY <2>1, TwoSeq
    <3>2. ps[1][1] = nick /\ ps[1][2] \in BOOLEAN /\ ps[2][1] = Text /\ ps[2][2] \in BOOLEAN
      BY <3>1
    <3>3. nick \in Seq(Chars)
      BY DEF Short
    <3>4. QED
      BY <1>1, <3>1, <3>2, <3>3, TwoPairs
  <2>3. \A g : Sums(g, ps, 2) => g[2] = 5 + a
    BY <1>1, <1>3, <2>2
  <2>4. Len(servername) + NameSize + 7 + (5 + a) =< BufferSize /\ 5 + a \in Int
    BY <1>2, <1>3, <1>4
  <2>5. PICK m : m = reply(CONN_TYPE_USER, nick, <<"318">>, ps).msg
    OBVIOUS
  <2>6. Fits(m)
    BY <1>1, <2>2, <2>3, <2>4, <2>5, ReplyFits
  <2>7. QED
    BY <2>1, <2>5, <2>6, Zenon DEF ENDOFWHOIS_reply
<1>7. QED
  BY <1>5, <1>6

-----------------------------------------------------------------------------
(* Replies that repeat a message *)

LEMMA MoreTexts ==
    ASSUME NEW p \in Seq(Seq(STRING))
    PROVE  p \in Seq(Seq(Chars))
<1>1. PICK S, T : S = Seq(STRING) /\ T = Seq(Chars) /\ \A x \in S : x \in T
  BY MoreChars
<1>2. p \in Seq(S)
  BY <1>1
<1>3. PICK n \in Nat : n = Len(p) /\ p = [i \in 1..n |-> p[i]] /\ \A i \in 1..n : p[i] \in S
  BY <1>2
<1>4. PICK t : t = [i \in 1..n |-> p[i]]
  OBVIOUS
<1>5. t \in Seq(T)
  BY <1>1, <1>3, <1>4
<1>6. QED
  BY <1>1, <1>3, <1>4, <1>5

\* What a message may take when it does not crowd a reply.
Roomy(m, g) ==
    /\ m.cmd \in Seq(Chars) /\ m.params \in Seq(Seq(Chars)) /\ Ladder(g, m.params)
    /\ g[Len(m.params)] \in Nat
    /\ Len(m.cmd) + g[Len(m.params)] + Len(servername) + NameSize + 12 =< BufferSize

LEMMA NotCrowded ==
    ASSUME NEW m, Wordy(m), ~Crowds(m)
    PROVE  \E g : Roomy(m, g)
<1>1. m.cmd \in Seq(Chars) /\ m.params \in Seq(Seq(Chars))
  BY MoreChars, MoreTexts DEF Wordy
<1>2. PICK w : w = [m EXCEPT !.prefix = NULL]
  OBVIOUS
<1>3. w.prefix = NULL /\ w.cmd = m.cmd /\ w.params = m.params /\ w.longlast = m.longlast
  BY <1>2 DEF Wordy
<1>4. Printable(w)
  BY <1>1, <1>3 DEF Printable, Wordy
<1>5. PICK n \in Nat : n = Len(m.params)
  BY <1>1
<1>6. PICK g : /\ Ladder(g, m.params) /\ ColonLen(w) \in Nat
               /\ Len(chirc_message_to_string(w)) = HeadLen(w) + g[n] + ColonLen(w)
  BY <1>3, <1>4, <1>5, PrintedLen
<1>7. HeadLen(w) = 0 + Len(m.cmd) /\ Len(m.cmd) \in Nat
  BY <1>1, <1>3 DEF HeadLen
<1>8. g[n] \in Nat
  <2>1. n = 0 \/ n \in 1..n
    BY <1>5
  <2>2. QED
    BY <1>5, <1>6, <2>1 DEF Ladder
<1>9. ~(Len(chirc_message_to_string(w)) + Len(servername) + NameSize + 12 > BufferSize)
  BY <1>2 DEF Crowds
<1>10. PICK a \in Nat, b \in Nat, d \in Nat, L \in Nat, N \in Nat, B \in Nat :
           /\ a = Len(m.cmd) /\ b = g[n] /\ d = ColonLen(w)
           /\ L = Len(servername) /\ N = NameSize /\ B = BufferSize
  BY <1>6, <1>7, <1>8, Sizes
<1>11. Len(chirc_message_to_string(w)) = 0 + a + b + d
  BY <1>6, <1>7, <1>10
<1>12. ~(0 + a + b + d + L + N + 12 > B)
  BY <1>9, <1>10, <1>11
<1>13. a + b + L + N + 12 =< B
  <2>1. a \in Nat /\ b \in Nat /\ d \in Nat /\ L \in Nat /\ N \in Nat /\ B \in Nat
    BY <1>10
  <2>2. QED
    BY <1>12, <2>1
<1>14. Roomy(m, g)
  BY <1>1, <1>5, <1>6, <1>10, <1>13 DEF Roomy
<1>15. QED
  BY <1>14

\* The only parameter, or the command, of such a message.
LEMMA RoomFor ==
    ASSUME NEW m, NEW g, Roomy(m, g)
    PROVE  /\ Len(m.cmd) \in Nat /\ m.cmd \in Seq(Chars)
           /\ Len(m.cmd) + Len(servername) + NameSize + 12 =< BufferSize
           /\ Len(m.params) = 1 =>
                 /\ m.params[1] \in Seq(Chars)
                 /\ 1 + Len(m.params[1]) + Len(servername) + NameSize + 12 =< BufferSize
<1>1. PICK a \in Nat, b \in Nat, L \in Nat, N \in Nat, B \in Nat :
           /\ a = Len(m.cmd) /\ b = g[Len(m.params)]
           /\ L = Len(servername) /\ N = NameSize /\ B = BufferSize
  BY Sizes DEF Roomy
<1>2. a + b + L + N + 12 =< B
  BY <1>1 DEF Roomy
<1>3. a + L + N + 12 =< B /\ b + L + N + 12 =< B
  <2>1. a \in Nat /\ b \in Nat /\ L \in Nat /\ N \in Nat /\ B \in Nat
    BY <1>1
  <2>2. QED
    BY <1>2, <2>1
<1>4. ASSUME Len(m.params) = 1
      PROVE  m.params[1] \in Seq(Chars) /\ b = 1 + Len(m.params[1])
  <2>1. m.params[1] \in Seq(Chars)
    BY <1>4 DEF Roomy
  <2>2. 1 \in 1..Len(m.params) /\ 1 - 1 = 0
    BY <1>4
  <2>3. g[1] = g[0] + 1 + Len(m.params[1]) /\ g[0] = 0
    BY <2>2 DEF Roomy, Ladder
  <2>4. PICK k \in Nat : k = Len(m.params[1])
    BY <2>1
  <2>5. g[1] = 1 + k
    BY <2>3, <2>4
  <2>6. QED
    BY <1>1, <1>4, <2>1, <2>4, <2>5
<1>5. QED
  BY <1>1, <1>3, <1>4 DEF Roomy

LEMMA NoSuchNickFits ==
    ASSUME NEW nick, Short(nick), NEW m, NEW g, Roomy(m, g), Len(m.params) = 1
    PROVE  Fits(NOSUCHNICK_reply(nick, m.params[1]).msg)
<1>1. PICK asked \in Seq(Chars) : asked = m.params[1]
  BY RoomFor
<1>2. 1 + Len(asked) + Len(servername) + NameSize + 12 =< BufferSize
  BY <1>1, RoomFor
<1>3. Text \in Seq(Chars) /\ Len(Text) = 3 /\ Single(<<"401">>)
  BY WordChars, CodesSingle
<1>4. PICK a \in Nat, L \in Nat, N \in Nat, B \in Nat :
          a = Len(asked) /\ L = Len(servername) /\ N = NameSize /\ B = BufferSize
  BY <1>1, Sizes
<1>5. PICK k \in Int : k = 5 + a
  BY <1>4
<1>6. k >= 1 + Len(Text) /\ k >= 2 + Len(Text) + Len(asked)
  BY <1>3, <1>4, <1>5
<1>7. Len(servername) + NameSize + 7 + k =< BufferSize
  BY <1>2, <1>4, <1>5
<1>8. Fits(user_reply(<<"401">>, Text, asked, nick).msg)
  BY <1>1, <1>3, <1>6, <1>7, UserReplyFits
<1>9. QED
  BY <1>1, <1>8, Zenon DEF NOSUCHNICK_reply

LEMMA UnknownFits ==
    ASSUME NEW nick, Short(nick), NEW m, NEW g, Roomy(m, g)
    PROVE  Fits(UNKNOWN_reply(nick, m.cmd).msg)
<1>1. PICK cmd \in Seq(Chars) : cmd = m.cmd
  BY RoomFor
<1>2. Len(cmd) + Len(servername) + NameSize + 12 =< BufferSize
  BY <1>1, RoomFor
<1>3. Text \in Seq(Chars) /\ Len(Text) = 3 /\ Single(<<"421">>) /\ 2 \in 1..4
  BY WordChars, CodesSingle
<1>4. PICK a \in Nat, L \in Nat, N \in Nat, B \in Nat :
          a = Len(cmd) /\ L = Len(servername) /\ N = NameSize /\ B = BufferSize
  BY <1>1, Sizes
<1>5. PICK ps : ps = << <<cmd, TRUE>>, <<Text, TRUE>> >>
  OBVIOUS
<1>6. Pairs(ps, 2) /\ \A h : Sums(h, ps, 2) => h[2] = 2 + Len(cmd) + Len(Text)
  <2>1. IsSequence(ps) /\ Len(ps) = 2 /\ ps[1] = <<cmd, TRUE>> /\ ps[2] = <<Text, TRUE>>
    BY <1>5, TwoSeq
  <2>2. ps[1][1] = cmd /\ ps[1][2] \in BOOLEAN /\ ps[2][1] = Text /\ ps[2][2] \in BOOLEAN
    BY <2>1
  <2>3. QED
    BY <1>1, <1>3, <2>1, <2>2, TwoPairs
<1>7. \A h : Sums(h, ps, 2) => h[2] = 5 + a
  BY <1>3, <1>4, <1>6
<1>8. Len(servername) + NameSize + 7 + (5 + a) =< BufferSize /\ 5 + a \in Int
  BY <1>2, <1>4
<1>9. PICK r : r = reply(CONN_TYPE_USER, nick, <<"421">>, ps).msg
  OBVIOUS
<1>10. Fits(r)
  BY <1>3, <1>6, <1>7, <1>8, <1>9, ReplyFits
<1>11. QED
  BY <1>1, <1>5, <1>9, <1>10, Zenon DEF UNKNOWN_reply

\* The replies without a prefix and a nick.
LEMMA QuitMessage ==
    ASSUME NEW code, Single(code), NEW text \in Seq(Chars), NEW b \in BOOLEAN,
           NEW m, m = reply(CONN_TYPE_QUIT, <<>>, code, << <<text, b>> >>).msg
    PROVE  /\ Printable(m) /\ m.prefix = NULL /\ m.cmd = code
           /\ Len(m.params) = 1 /\ m.params[1] = text
<1>1. PICK ps : ps = << <<text, b>> >>
  OBVIOUS
<1>2. Len(ps) = 1 /\ ps # <<>> /\ ps[1][1] = text /\ ps[1][2] = b /\ ps[Len(ps)][2] = b
  BY <1>1
<1>3. PICK r : r = chirc_message_construct_reply(servername, [type |-> CONN_TYPE_QUIT, name |-> <<>>], code)
  OBVIOUS
<1>4. r = [prefix |-> NULL, cmd |-> code, params |-> <<>>, longlast |-> FALSE]
  <2>1. PICK conn : conn = [type |-> CONN_TYPE_QUIT, name |-> <<>>]
    OBVIOUS
  <2>2. conn.type = CONN_TYPE_QUIT
    BY <2>1
  <2>3. chirc_message_construct_reply(servername, conn, code) = chirc_message_construct(NULL, code)
    BY <2>2, Zenon DEF chirc_message_construct_reply
  <2>4. QED
    BY <1>3, <2>1, <2>3 DEF chirc_message_construct
<1>5. PICK q : q = [i \in 1..Len(ps) |-> ps[i][1]]
  OBVIOUS
<1>6. PICK S : S = Seq(Chars)
  OBVIOUS
<1>7. q \in Seq(S) /\ Len(q) = 1 /\ q[1] = text
  BY <1>2, <1>5, <1>6
<1>8. m = WithParams(r, ps)
  BY <1>1, <1>3, Zenon DEF reply
<1>9. m = [r EXCEPT !.params = r.params \o q, !.longlast = ps[Len(ps)][2]]
  BY <1>2, <1>5, <1>8 DEF WithParams
<1>10. PICK e, d : e = r.params \o q /\ d = ps[Len(ps)][2]
  OBVIOUS
<1>11. m = [r EXCEPT !.params = e, !.longlast = d]
  BY <1>9, <1>10
<1>12. m.prefix = NULL /\ m.cmd = code /\ m.params = e /\ m.longlast = d
  BY <1>4, <1>11
<1>13. e \in Seq(S) /\ Len(e) = 1 /\ e[1] = text
  <2>1. e = <<>> \o q
    BY <1>4, <1>10
  <2>2. QED
    BY <1>7, <2>1
<1>14. QED
  BY <1>2, <1>6, <1>10, <1>12, <1>13 DEF Printable, Single

LEMMA QuitTypeFits ==
    ASSUME NEW code, Single(code), NEW text \in Seq(Chars), NEW b \in BOOLEAN,
           Len(text) + 6 =< BufferSize,
           NEW m, m = reply(CONN_TYPE_QUIT, <<>>, code, << <<text, b>> >>).msg
    PROVE  Fits(m)
<1>1. /\ Printable(m) /\ m.prefix = NULL /\ m.cmd = code
      /\ Len(m.params) = 1 /\ m.params[1] = text
  BY QuitMessage
<1>2. PICK g : /\ Ladder(g, m.params)
               /\ Len(chirc_message_to_string(m)) = HeadLen(m) + g[1] + ColonLen(m)
  BY <1>1, PrintedLen
<1>3. PICK k \in Nat, B \in Nat : k = Len(text) /\ B = BufferSize
  BY Sizes
<1>4. g[1] = 1 + k
  <2>1. 1 \in 1..Len(m.params) /\ 1 - 1 = 0
    BY <1>1
  <2>2. g[1] = g[0] + 1 + Len(m.params[1]) /\ g[0] = 0
    BY <1>2, <2>1 DEF Ladder
  <2>3. QED
    BY <1>1, <1>3, <2>2
<1>5. HeadLen(m) = 1
  BY <1>1 DEF HeadLen, Single
<1>6. PICK d \in 0..1 : d = ColonLen(m)
  BY DEF ColonLen
<1>7. Len(chirc_message_to_string(m)) = 1 + (1 + k) + d
  BY <1>2, <1>4, <1>5, <1>6
<1>8. k + 6 =< B
  BY <1>3
<1>9. Len(chirc_message_to_string(m)) + 3 =< B
  BY <1>3, <1>6, <1>7, <1>8
<1>10. Len(m.params) =< ParamsSize
  <2>1. ParamsSize \in Nat /\ ParamsSize >= 5
    BY BufferAssumption
  <2>2. Len(m.params) = 1
    BY <1>1
  <2>3. 1 =< ParamsSize
    BY <2>1
  <2>4. QED
    BY <2>2, <2>3
<1>11. QED
  BY <1>3, <1>9, <1>10 DEF Fits

\* The words of a USER, behind the nick of who asks.
LEMMA WhoisFits ==
    ASSUME NEW nick, Short(nick), NEW m, NEW g, Roomy(m, g), Len(m.params) + 2 =< ParamsSize,
           NEW u, u.cmd = m.cmd, u.params = m.params
    PROVE  Fits(WHOIS_reply(nick, u).msg)
<1>1. PICK k \in Nat : k = Len(m.params)
  BY DEF Roomy
<1>2. PICK q : q = [i \in 1..k |-> <<m.params[i], i = k>>]
  OBVIOUS
<1>3. PICK x : x = <<m.cmd, FALSE>>
  OBVIOUS
<1>4. PICK ps : ps = <<x>> \o q
  OBVIOUS
<1>5. x[1] = m.cmd /\ x[2] \in BOOLEAN
  BY <1>3
<1>6. \A i \in 1..k : q[i][1] = m.params[i] /\ q[i][2] \in BOOLEAN
  BY <1>2
<1>7. IsSequence(ps) /\ Len(ps) = k + 1 /\ ps[1] = x /\ \A i \in 1..k : ps[i + 1] = q[i]
  <2>1. PICK S : S = {x} \union {q[i] : i \in 1..k}
    OBVIOUS
  <2>2. x \in S /\ \A i \in 1..k : q[i] \in S
    BY <2>1
  <2>3. PICK a \in Seq(S) : a = <<x>>
    BY <2>2, OneOf
  <2>4. Len(a) = 1 /\ a[1] = x
    BY <2>3
  <2>5. q \in Seq(S) /\ Len(q) = k
    <3>1. q = [i \in 1..k |-> q[i]]
      BY <1>2
    <3>2. PICK f : f = [i \in 1..k |-> q[i]]
      OBVIOUS
    <3>3. f \in Seq(S) /\ Len(f) = k
      BY <1>1, <2>2, <3>2
    <3>4. QED
      BY <3>1, <3>2, <3>3
  <2>6. ps = a \o q
    BY <1>4, <2>3
  <2>7. ps \in Seq(S) /\ Len(ps) = k + 1
    BY <1>1, <2>3, <2>4, <2>5, <2>6, JoinText
  <2>8. ps[1] = x /\ \A i \in 1..k : ps[i + 1] = q[i]
    BY <1>1, <2>3, <2>4, <2>5, <2>6
  <2>9. {ps[i] : i \in DOMAIN ps} = S
    <3>1. DOMAIN ps = 1..(k + 1)
      BY <2>7
    <3>2. \A i \in 1..k : i + 1 \in 1..(k + 1)
      BY <1>1
    <3>3. 1 \in 1..(k + 1)
      BY <1>1
    <3>4. S \subseteq {ps[i] : i \in DOMAIN ps}
      BY <2>1, <2>8, <3>1, <3>2, <3>3
    <3>5. {ps[i] : i \in DOMAIN ps} \subseteq S
      BY <2>7, <3>1
    <3>6. QED
      BY <3>4, <3>5
  <2>10. QED
    BY <2>7, <2>8, <2>9 DEF IsSequence
<1>8. Pairs(ps, k + 1)
  <2>1. \A i \in 1..(k + 1) : ps[i][1] \in Seq(Chars) /\ ps[i][2] \in BOOLEAN
    <3> TAKE i \in 1..(k + 1)
    <3>1. CASE i = 1
      BY <1>5, <1>7, <3>1 DEF Roomy
    <3>2. CASE i # 1
      <4>1. PICK j \in 1..k : i = j + 1
        <5>1. i - 1 \in 1..k /\ i = (i - 1) + 1
          BY <1>1, <3>2
        <5>2. QED
          BY <5>1
      <4>2. m.params[j] \in Seq(Chars)
        BY <1>1, <4>1 DEF Roomy
      <4>3. QED
        BY <1>6, <1>7, <4>1, <4>2
    <3>3. QED
      BY <3>1, <3>2
  <2>2. k + 1 \in Nat
    BY <1>1
  <2>3. QED
    BY <1>7, <2>1, <2>2 DEF Pairs
<1>9. PICK r : r = reply(CONN_TYPE_USER, nick, <<"311">>, ps).msg
  OBVIOUS
<1>10. PICK h : /\ Sums(h, ps, k + 1)
                /\ Len(chirc_message_to_string(r)) =< Len(servername) + NameSize + 4 + h[k + 1]
                /\ Len(chirc_message_to_string(r)) \in Int /\ Len(r.params) = (k + 1) + 1
  <2>1. Single(<<"311">>) /\ k + 1 # 0
    BY <1>1, CodesSingle
  <2>2. QED
    BY <1>8, <1>9, <2>1, ReplyLen
<1>11. PICK a \in Nat : a = Len(m.cmd)
  BY DEF Roomy
<1>12. PICK T : T = {i \in 0..k : h[i + 1] = 1 + a + g[i] /\ g[i] \in Nat}
  OBVIOUS
<1>13. 0 \in T
  <2>1. 1 \in 1..(k + 1) /\ 0 = 1 - 1 /\ k + 1 \in Nat /\ 0 \in 0..k /\ 0 + 1 = 1
    BY <1>1
  <2>2. h[1] = h[0] + 1 + Len(ps[1][1]) /\ h[0] = 0 /\ g[0] = 0
    BY <1>10, <2>1, SumsAt DEF Sums, Roomy, Ladder
  <2>3. Len(ps[1][1]) = a
    BY <1>5, <1>7, <1>11
  <2>4. h[1] = 1 + a
    <3>1. a \in Nat
      BY <1>11
    <3>2. QED
      BY <2>2, <2>3, <3>1
  <2>5. h[0 + 1] = 1 + a + g[0] /\ g[0] \in Nat
    <3>1. a \in Nat
      BY <1>11
    <3>2. QED
      BY <2>1, <2>2, <2>4, <3>1
  <2>6. QED
    BY <1>12, <2>1, <2>5
<1>14. ASSUME NEW i \in 0..(k - 1), i \in T PROVE i + 1 \in T
  <2>1. /\ i + 1 \in 1..k /\ (i + 1) - 1 = i /\ i + 1 \in 0..k
        /\ (i + 1) + 1 \in 1..(k + 1) /\ i + 1 = ((i + 1) + 1) - 1 /\ k + 1 \in Nat
    BY <1>1
  <2>2. h[i + 1] = 1 + a + g[i] /\ g[i] \in Nat
    BY <1>12, <1>14
  <2>3. h[(i + 1) + 1] = h[i + 1] + 1 + Len(ps[(i + 1) + 1][1])
    <3>1. PICK j, l : j = (i + 1) + 1 /\ l = i + 1
      OBVIOUS
    <3>2. j \in 1..(k + 1) /\ l = j - 1 /\ k + 1 \in Nat /\ Sums(h, ps, k + 1)
      BY <1>10, <2>1, <3>1
    <3>3. h[j] = h[l] + 1 + Len(ps[j][1])
      <4>1. PICK n : n = k + 1
        OBVIOUS
      <4>2. j \in 1..n /\ l = j - 1 /\ n \in Nat /\ Sums(h, ps, n)
        BY <3>2, <4>1
      <4>3. \A z \in 1..n : h[z] = h[z - 1] + 1 + Len(ps[z][1])
        BY <4>2, Zenon DEF Sums
      <4>4. h[j] = h[j - 1] + 1 + Len(ps[j][1])
        BY <4>2, <4>3, Zenon
      <4>5. QED
        BY <4>2, <4>4, Zenon
    <3>4. QED
      BY <3>1, <3>3
  <2>4. g[i + 1] = g[i] + 1 + Len(m.params[i + 1]) /\ g[i + 1] \in Nat
    BY <1>1, <2>1 DEF Roomy, Ladder
  <2>5. ps[(i + 1) + 1][1] = m.params[i + 1]
    BY <1>6, <1>7, <2>1
  <2>6. m.params[i + 1] \in Seq(Chars)
    BY <1>1, <2>1 DEF Roomy
  <2>7. PICK b : b = Len(m.params[i + 1])
    OBVIOUS
  <2>8. b \in Nat
    BY <2>6, <2>7
  <2>9. PICK p, s, t : p = g[i] /\ s = h[i + 1] /\ t = h[(i + 1) + 1]
    OBVIOUS
  <2>10. p \in Nat /\ s = 1 + a + p /\ t = s + 1 + b /\ g[i + 1] = p + 1 + b
    BY <2>2, <2>3, <2>4, <2>5, <2>7, <2>9
  <2>11. a \in Nat
    BY <1>11
  <2>12. t = 1 + a + (p + 1 + b)
    BY <2>8, <2>10, <2>11
  <2>13. h[(i + 1) + 1] = 1 + a + g[i + 1]
    BY <2>9, <2>10, <2>12
  <2>14. QED
    BY <1>12, <2>1, <2>4, <2>13
<1>15. k \in T
  <2>1. \A i \in 0..k : i \in T
    BY <1>1, <1>13, <1>14, InductionTo
  <2>2. k \in 0..k
    BY <1>1
  <2>3. QED
    BY <2>1, <2>2
<1>16. h[k + 1] = 1 + a + g[k] /\ g[k] \in Nat
  BY <1>12, <1>15
<1>17. Len(chirc_message_to_string(r)) + 3 =< BufferSize
  <2>1. PICK p, L, N, B, z : /\ p = g[k] /\ L = Len(servername) /\ N = NameSize /\ B = BufferSize
                             /\ z = Len(chirc_message_to_string(r))
    OBVIOUS
  <2>2. p \in Nat /\ L \in Nat /\ N \in Nat /\ B \in Nat /\ z \in Int /\ a \in Nat
    BY <1>10, <1>11, <1>16, <2>1, Sizes
  <2>3. z =< L + N + 4 + (1 + a + p)
    BY <1>10, <1>16, <2>1
  <2>4. a + p + L + N + 12 =< B
    BY <1>1, <1>11, <2>1 DEF Roomy
  <2>5. z + 3 =< B
    BY <2>2, <2>3, <2>4
  <2>6. QED
    BY <2>1, <2>5
<1>18. Len(r.params) =< ParamsSize
  <2>1. ParamsSize \in Nat /\ k \in Nat
    BY <1>1, BufferAssumption
  <2>2. k + 2 =< ParamsSize
    BY <1>1
  <2>3. (k + 1) + 1 =< ParamsSize
    BY <2>1, <2>2
  <2>4. QED
    BY <1>10, <2>3
<1>19. Fits(r)
  BY <1>17, <1>18 DEF Fits
<1>20. WHOIS_reply(nick, u) = reply(CONN_TYPE_USER, nick, <<"311">>, ps)
  <2>1. << <<u.cmd, FALSE>> >> \o [i \in 1..Len(u.params) |-> <<u.params[i], i = Len(u.params)>>] = ps
    BY <1>1, <1>2, <1>3, <1>4
  <2>2. QED
    BY <2>1, Zenon DEF WHOIS_reply
<1>21. QED
  BY <1>9, <1>19, <1>20

-----------------------------------------------------------------------------
(* Several replies *)

AllFit(rs) == \A i \in 1..Len(rs) : Fits(rs[i].msg)

LEMMA OneFits ==
    ASSUME NEW r, Fits(r.msg)
    PROVE  AllFit(<<r>>)
<1>1. PICK t : t = <<r>>
  OBVIOUS
<1>2. Len(t) = 1 /\ t[1] = r /\ \A i \in 1..1 : i = 1
  BY <1>1
<1>3. AllFit(t)
  BY <1>2 DEF AllFit
<1>4. QED
  BY <1>1, <1>3

LEMMA TwoFit ==
    ASSUME NEW r, Fits(r.msg), NEW s, Fits(s.msg)
    PROVE  AllFit(<<r, s>>)
<1>1. PICK t : t = <<r, s>>
  OBVIOUS
<1>2. Len(t) = 2 /\ t[1] = r /\ t[2] = s /\ \A i \in 1..2 : i = 1 \/ i = 2
  BY <1>1
<1>3. AllFit(t)
  BY <1>2 DEF AllFit
<1>4. QED
  BY <1>1, <1>3

LEMMA FourFit ==
    ASSUME NEW r, Fits(r.msg), NEW s, Fits(s.msg), NEW v, Fits(v.msg), NEW w, Fits(w.msg)
    PROVE  AllFit(<<r, s, v, w>>)
<1>1. PICK t : t = <<r, s, v, w>>
  OBVIOUS
<1>2. /\ Len(t) = 4 /\ t[1] = r /\ t[2] = s /\ t[3] = v /\ t[4] = w
      /\ \A i \in 1..4 : i = 1 \/ i = 2 \/ i = 3 \/ i = 4
  BY <1>1
<1>3. AllFit(t)
  BY <1>2 DEF AllFit
<1>4. QED
  BY <1>1, <1>3

LEMMA MotdFits ==
    ASSUME NEW nick, Short(nick), NEW e \in BOOLEAN
    PROVE  AllFit(response_MOTD(nick, e))
<1>1. CASE ~e \/ Motd = NULL
  <2>1. response_MOTD(nick, e) = <<MOTD_reply(<<"422">>, Text, nick)>>
    BY <1>1 DEF response_MOTD
  <2>2. Fits(MOTD_reply(<<"422">>, Text, nick).msg)
    BY TextFits, CodesSingle DEF MOTD_reply
  <2>3. QED
    BY <2>1, <2>2, OneFits
<1>2. CASE ~(~e \/ Motd = NULL)
  <2>1. PICK n \in Nat : n = Len(Motd)
    BY <1>2, BufferAssumption
  <2>2. PICK x, y, q : /\ x = user_reply(<<"375">>, Text, NULL, nick)
                       /\ y = MOTD_reply(<<"376">>, Text, nick)
                       /\ q = [i \in 1..n |-> MOTD_reply(<<"372">>, Motd[i], nick)]
    OBVIOUS
  <2>3. Fits(x.msg) /\ Fits(y.msg)
    BY <2>2, TextFits, CodesSingle DEF MOTD_reply
  <2>4. \A i \in 1..n : Fits(q[i].msg)
    <3> TAKE i \in 1..n
    <3>1. PICK text \in Seq(Chars) : text = Motd[i]
      <4>1. Motd[i] \in Seq(STRING)
        BY <1>2, <2>1, BufferAssumption
      <4>2. QED
        BY <4>1, MoreChars
    <3>2. Len(text) + Len(servername) + NameSize + 12 =< BufferSize
      <4>1. i \in DOMAIN Motd
        BY <1>2, <2>1, BufferAssumption
      <4>2. QED
        BY <1>2, <3>1, <4>1, BufferAssumption
    <3>3. PICK k, a, L, N, B : /\ k = 1 + a /\ a = Len(text) /\ L = Len(servername) /\ N = NameSize
                               /\ B = BufferSize
      OBVIOUS
    <3>4. a \in Nat /\ L \in Nat /\ N \in Nat /\ B \in Nat
      BY <3>1, <3>3, Sizes
    <3>5. L + N + 7 + k =< B /\ k \in Int
      <4>1. a + L + N + 12 =< B /\ k = 1 + a
        BY <3>2, <3>3
      <4>2. QED
        BY <3>4, <4>1
    <3>6. k >= 1 + Len(text)
      BY <3>3, <3>4
    <3>7. Fits(user_reply(<<"372">>, text, NULL, nick).msg)
      BY <3>1, <3>3, <3>5, <3>6, CodesSingle, UserReplyFits
    <3>8. QED
      BY <2>2, <3>1, <3>7 DEF MOTD_reply
  <2>5. PICK S : S = {x, y} \union {q[i] : i \in 1..n}
    OBVIOUS
  <2>6. x \in S /\ y \in S /\ \A i \in 1..n : q[i] \in S
    BY <2>5
  <2>7. PICK a \in Seq(S) : a = <<x>>
    BY <2>6, OneOf
  <2>8. PICK b \in Seq(S) : b = <<y>>
    BY <2>6, OneOf
  <2>9. q \in Seq(S)
    BY <2>1, <2>2, <2>6
  <2>10. response_MOTD(nick, e) = a \o q \o b
    BY <1>2, <2>1, <2>2, <2>7, <2>8 DEF response_MOTD
  <2>11. response_MOTD(nick, e) \in Seq(S)
    BY <2>7, <2>8, <2>9, <2>10
  <2>12. \A r \in S : Fits(r.msg)
    BY <2>3, <2>4, <2>5
  <2>13. QED
    BY <2>11, <2>12 DEF AllFit
<1>3. QED
  BY <1>1, <1>2

\* What is written is defined when it fits.
LEMMA WriteDefined ==
    ASSUME NEW c, NEW rs, NEW number, WriteReport(c, rs, number)
    PROVE  /\ undefined' = undefined \/ undefined' = [conn |-> c, cause |-> "reply"]
           /\ AllFit(rs) => undefined' = undefined
  BY DEF WriteReport, AllFit

-----------------------------------------------------------------------------
(* The names and messages the tables hold *)

\* A name that has been copied into its array.
Fitting(n) == n \in Seq(STRING) /\ Len(n) < NameSize

\* The command and the parameters of a USER that has been sent.
Stored(u) ==
    \E d \in Conn : \E m \in SentAs(d, "USER") : u.cmd = m.cmd /\ u.params = m.params

SentOK == \A p \in sent : p[1] \in Conn /\ (p[2].rc = 0 => Wordy(p[2]))

NamesOK ==
    /\ \A i \in DOMAIN sockfdNick : Fitting(sockfdNick[i].name)
    /\ \A i \in DOMAIN nick_head : Fitting(nick_head[i].name)
    /\ \A i \in DOMAIN user_head : Stored(user_head[i].msg)
    /\ \A i \in DOMAIN connections : Fitting(connections[i].name) /\ Stored(connections[i].msg)

\* A thread that holds a nick, one that answers a WHOIS, and one with a message.
Naming(c) == pc[c] \in {"free", "users", "users_iter", "unknown_iter", "clients", "bind"}
Asks(c) == pc[c] \in {"whois", "find", "free"} /\ Handles(c, "WHOIS")

HoldOK(c) ==
    /\ Naming(c) => Fitting(self[c])
    /\ Asks(c) => nparams(c) = 1
    /\ pc[c] \in {"dispatch", "whois", "find"} => msg[c] # NULL
    /\ pc[c] = "free" => target[c] # 0

NamedOK == OnConn(self) /\ SentOK /\ NamesOK /\ \A c \in Conn : HoldOK(c)

LEMMA FittingShort ==
    ASSUME NEW n, Fitting(n)
    PROVE  Short(n) /\ n # NULL
<1>1. n \in Seq(STRING) /\ Len(n) < NameSize
  BY DEF Fitting
<1>2. n \in Seq(Chars)
  BY <1>1, MoreChars
<1>3. n # NULL
  BY <1>1, NoTextAssumption
<1>4. QED
  BY <1>1, <1>2, <1>3 DEF Short

LEMMA EmptyFitting == Fitting(<<>>)
<1>1. <<>> \in Seq(STRING) /\ Len(<<>>) = 0
  OBVIOUS
<1>2. NameSize \in Nat /\ NameSize >= 2
  BY BufferAssumption
<1>3. QED
  BY <1>1, <1>2 DEF Fitting

\* A step of c leaves alone what the other threads hold.
Apiece(c) ==
    /\ OnConn(self)'
    /\ \A d \in Conn \ {c} : pc'[d] = pc[d] /\ msg'[d] = msg[d] /\ self'[d] = self[d]
                           /\ target'[d] = target[d]

LEMMA NamesSame ==
    ASSUME NamesOK, UNCHANGED <<sockfdNick, nick_head, user_head, connections, sent>>
    PROVE  NamesOK'
<1>1. \A u : Stored(u)' <=> Stored(u)
  BY DEF Stored, SentAs, SentBy
<1>2. QED
  BY <1>1 DEF NamesOK

LEMMA NamedElse ==
    ASSUME NamedOK, NEW c \in Conn, Apiece(c), UNCHANGED sent, NamesOK', HoldOK(c)'
    PROVE  NamedOK'
<1>1. ASSUME NEW d \in Conn \ {c} PROVE HoldOK(d)'
  <2>1. /\ pc'[d] = pc[d] /\ msg'[d] = msg[d] /\ self'[d] = self[d] /\ target'[d] = target[d]
        /\ HoldOK(d)
    BY <1>1 DEF Apiece, NamedOK
  <2>2. QED
    BY <2>1 DEF HoldOK, Naming, Asks, Handles, nparams, params
<1>2. \A d \in Conn : HoldOK(d)'
  BY <1>1
<1>3. QED
  BY <1>2 DEF NamedOK, Apiece, SentOK

\* The common case: the tables stay as they are.
LEMMA NamedAlone ==
    ASSUME NamedOK, NEW c \in Conn, Apiece(c), HoldOK(c)',
           UNCHANGED <<sent, sockfdNick, nick_head, user_head, connections>>
    PROVE  NamedOK'
  BY NamedElse, NamesSame DEF NamedOK

LEMMA NamedStill ==
    ASSUME NamedOK, UNCHANGED <<tables, pc, local, sent>>
    PROVE  NamedOK'
<1>1. UNCHANGED <<sockfdNick, nick_head, user_head, connections, pc, msg, self, target, sent>>
  BY DEF tables, local
<1>2. NamesOK'
  BY <1>1, NamesSame DEF NamedOK
<1>3. \A c \in Conn : HoldOK(c)'
  BY <1>1 DEF NamedOK, HoldOK, Naming, Asks, Handles, nparams, params
<1>4. QED
  BY <1>1, <1>2, <1>3 DEF NamedOK, OnConn, SentOK

\* A handler that is done holds nothing.
LEMMA DoneApiece ==
    ASSUME CommandsInv, NamedOK, NEW c \in Conn, Done(c)
    PROVE  Apiece(c) /\ HoldOK(c)'
<1>1. Shape /\ OnConn(self)
  BY DEF CommandsInv, NamedOK
<1>2. Apiece(c) /\ pc'[c] = "read"
  BY <1>1 DEF Done, Goto, Apiece, Shape, OnConn
<1>3. QED
  BY <1>2 DEF HoldOK, Naming, Asks

LEMMA NamedDone ==
    ASSUME CommandsInv, NamedOK, NEW c \in Conn, Done(c),
           UNCHANGED <<sent, sockfdNick, nick_head, user_head, connections>>
    PROVE  NamedOK'
  BY NamedAlone, DoneApiece

LEMMA NamedEnds ==
    ASSUME CommandsInv, NamedOK, NEW c \in Conn,
           \/ response_PING(c) \/ Pong(c) \/ MotdFound(c) \/ UnknownFound(c)
           \/ WhoisIgnored(c) \/ WhoisNone(c) \/ PrivmsgKnown(c)
           \/ PrivmsgUnknown(c) \/ NickRefused(c) \/ UserRefused(c)
    PROVE  NamedOK'
<1>1. Done(c) /\ UNCHANGED <<sent, sockfdNick, nick_head, user_head, connections>>
  <2>1. CASE response_PING(c) \/ Pong(c) \/ WhoisIgnored(c)
    BY <2>1 DEF response_PING, Pong, WhoisIgnored, tables, history
  <2>2. CASE MotdFound(c) \/ UnknownFound(c) \/ WhoisNone(c)
    BY <2>2 DEF MotdFound, UnknownFound, WhoisNone, tables, history
  <2>3. CASE PrivmsgKnown(c) \/ PrivmsgUnknown(c) \/ NickRefused(c) \/ UserRefused(c)
    BY <2>3 DEF PrivmsgKnown, PrivmsgUnknown, NickRefused, UserRefused, tables, history
  <2>4. QED
    BY <2>1, <2>2, <2>3
<1>2. QED
  BY <1>1, NamedDone

\* Only `live` changes in the node of a message that is freed.
LEMMA NamedFree ==
    ASSUME CommandsInv, NamedOK, NEW c \in Conn, WhoisFree(c)
    PROVE  NamedOK'
<1>1. /\ connections' = [connections EXCEPT ![target[c]].live = FALSE]
      /\ UNCHANGED <<sent, sockfdNick, nick_head, user_head>> /\ Done(c)
  BY DEF WhoisFree, history
<1>2. TablesOK
  BY DEF CommandsInv
<1>3. PICK t : t = target[c]
  OBVIOUS
<1>4. DOMAIN connections' = DOMAIN connections
  BY <1>1
<1>5. \A i \in DOMAIN connections :
          connections'[i] = IF i = t THEN [connections[i] EXCEPT !.live = FALSE] ELSE connections[i]
  BY <1>1, <1>3
<1>6. \A i \in DOMAIN connections :
          connections'[i].name = connections[i].name /\ connections'[i].msg = connections[i].msg
  <2> TAKE i \in DOMAIN connections
  <2>1. DOMAIN connections[i] = {"name", "fd", "msg", "live"}
    BY <1>2 DEF TablesOK
  <2>2. PICK n : n = connections[i]
    OBVIOUS
  <2>3. connections'[i] = IF i = t THEN [n EXCEPT !.live = FALSE] ELSE n
    BY <1>5, <2>2
  <2>4. QED
    BY <2>1, <2>2, <2>3
<1>7. \A u : Stored(u)' <=> Stored(u)
  BY <1>1 DEF Stored, SentAs, SentBy
<1>8. NamesOK'
  BY <1>1, <1>4, <1>6, <1>7 DEF NamesOK, NamedOK
<1>9. QED
  BY <1>1, <1>8, DoneApiece, NamedElse

\* Steps after which the thread holds nothing, or asks on.
LEMMA NamedOutside ==
    ASSUME CommandsInv, NamedOK, NEW c \in Conn,
           Accept(c) \/ LoadHead(c) \/ Quit(c) \/ HangUp(c) \/ WhoisTarget(c)
    PROVE  NamedOK'
<1>1. Shape /\ OnConn(self) /\ HoldOK(c)
  BY DEF CommandsInv, NamedOK
<1>2. CASE Accept(c) \/ HangUp(c)
  <2>1. /\ Apiece(c) /\ UNCHANGED <<sent, sockfdNick, nick_head, user_head, connections>>
        /\ pc'[c] \in {"read", "closing"}
    BY <1>1, <1>2 DEF Accept, HangUp, Goto, Apiece, Shape, OnConn, tables, local, history
  <2>2. QED
    BY <2>1, NamedAlone DEF HoldOK, Naming, Asks
<1>3. CASE Quit(c)
  <2>1. /\ Apiece(c) /\ UNCHANGED <<sent, sockfdNick, nick_head, user_head, connections>>
        /\ pc'[c] = "closing"
    BY <1>1, <1>3 DEF Quit, Goto, Apiece, Shape, OnConn, history
  <2>2. QED
    BY <2>1, NamedAlone DEF HoldOK, Naming, Asks
<1>4. CASE WhoisTarget(c)
  <2>1. /\ Apiece(c) /\ UNCHANGED <<sent, sockfdNick, nick_head, user_head, connections, msg>>
        /\ pc'[c] = "whois" /\ nparams(c) = 1 /\ msg[c] # NULL
    BY <1>1, <1>4 DEF WhoisTarget, Dispatched, Handles, Goto, Apiece, Shape, OnConn, tables, history
  <2>2. HoldOK(c)'
    BY <2>1 DEF HoldOK, Naming, nparams, params
  <2>3. QED
    BY <2>1, <2>2, NamedAlone
<1>5. CASE LoadHead(c)
  <2>1. /\ Apiece(c) /\ UNCHANGED <<sent, sockfdNick, nick_head, user_head, connections, msg, self>>
        /\ pc'[c] \in {"find", "delete"} /\ Searches(c)
    BY <1>1, <1>5 DEF LoadHead, Goto, Apiece, Shape, OnConn, tables, history
  <2>2. Handles(c, "WHOIS") /\ pc'[c] = "find" => pc[c] = "whois"
    <3>1. Handles(c, "WHOIS") => Known(c)
      BY DEF Handles, Known, Letter
    <3>2. pc[c] = "closing" => pc'[c] = "delete"
      BY <1>1, <1>5 DEF LoadHead, Goto, Shape, OnConn
    <3>3. Handles(c, "WHOIS") => ~Handles(c, "LUSERS") /\ ~Handles(c, "MOTD")
      BY DEF Handles, Is, Letter, Exact
    <3>4. QED
      BY <2>1, <3>1, <3>2, <3>3 DEF Searches
  <2>3. pc'[c] = "find" => msg[c] # NULL
    <3>1. pc[c] = "closing" => pc'[c] = "delete"
      BY <1>1, <1>5 DEF LoadHead, Goto, Shape, OnConn
    <3>2. QED
      BY <1>1, <2>1, <3>1 DEF Searches, HoldOK
  <2>4. HoldOK(c)'
    BY <1>1, <2>1, <2>2, <2>3 DEF HoldOK, Naming, Asks, Handles, nparams, params
  <2>5. QED
    BY <2>1, <2>4, NamedAlone
<1>6. QED
  BY <1>2, <1>3, <1>4, <1>5

\* What a search finds is a name that fits.
LEMMA FoundNick ==
    ASSUME NamedOK, NEW c \in Conn, NEW nick \in find_sockfd_nick_map_node(c)
    PROVE  nick = NULL \/ Fitting(nick)
<1>1. \A i \in NodesOf(c) : Fitting(sockfdNick[i].name)
  BY DEF NamedOK, NamesOK, NodesOf
<1>2. QED
  BY <1>1 DEF find_sockfd_nick_map_node

LEMMA NotNull ==
    ASSUME NamedOK, NEW c \in Conn, NEW nick \in find_sockfd_nick_map_node(c),
           find_sockfd_nick_map_node(c) # {NULL}
    PROVE  Fitting(nick)
<1>1. find_sockfd_nick_map_node(c) = {sockfdNick[i].name : i \in NodesOf(c)}
  BY DEF find_sockfd_nick_map_node
<1>2. QED
  BY <1>1 DEF NamedOK, NamesOK, NodesOf

LEMMA NamedWhoisUser ==
    ASSUME CommandsInv, NamedOK, NEW c \in Conn, WhoisUser(c)
    PROVE  NamedOK'
<1>1. Shape /\ OnConn(self) /\ HoldOK(c)
  BY DEF CommandsInv, NamedOK
<1>2. PICK nick \in find_sockfd_nick_map_node(c) : self' = [self EXCEPT ![c] = nick]
  BY DEF WhoisUser
<1>3. Fitting(nick)
  BY <1>2, NotNull DEF WhoisUser
<1>4. /\ UNCHANGED <<sent, sockfdNick, nick_head, user_head, connections, msg, target>>
      /\ pc[c] = "find" /\ Goto(c, "free") /\ Handles(c, "WHOIS") /\ target[c] # 0
  BY DEF WhoisUser, AtFind, At, tables, history
<1>5. Apiece(c) /\ pc'[c] = "free" /\ self'[c] = nick
  BY <1>1, <1>2, <1>4 DEF Goto, Apiece, Shape, OnConn
<1>6. HoldOK(c)'
  BY <1>1, <1>3, <1>4, <1>5 DEF HoldOK, Asks, Handles, nparams, params
<1>7. QED
  BY <1>4, <1>5, <1>6, NamedAlone

\* The counts keep the nick.
LEMMA NamedCounts ==
    ASSUME CommandsInv, NamedOK, NEW c \in Conn,
           UsersStart(c) \/ CountOne(c) \/ UsersCounted(c) \/ UnknownCounted(c) \/ Clients(c)
    PROVE  NamedOK'
<1>1. Shape /\ OnConn(self) /\ HoldOK(c)
  BY DEF CommandsInv, NamedOK
<1>2. CASE UsersStart(c)
  <2>1. /\ Apiece(c) /\ UNCHANGED <<sent, sockfdNick, nick_head, user_head, connections>>
        /\ pc'[c] = "users_iter"
    BY <1>1, <1>2 DEF UsersStart, Goto, Apiece, Shape, OnConn, tables, history
  <2>2. CASE At(c, "users") /\ UNCHANGED self
    <3>1. Fitting(self'[c])
      BY <1>1, <2>2 DEF At, HoldOK, Naming
    <3>2. QED
      BY <2>1, <3>1, NamedAlone DEF HoldOK, Asks
  <2>3. ASSUME NEW nick \in find_sockfd_nick_map_node(c),
               self' = [self EXCEPT ![c] = NickOrEmpty(nick)]
        PROVE  NamedOK'
    <3>1. Fitting(NickOrEmpty(nick))
      BY <2>3, FoundNick, EmptyFitting DEF NickOrEmpty
    <3>2. self'[c] = NickOrEmpty(nick)
      BY <1>1, <2>3 DEF OnConn
    <3>3. QED
      BY <2>1, <3>1, <3>2, NamedAlone DEF HoldOK, Asks
  <2>4. QED
    BY <1>2, <2>2, <2>3 DEF UsersStart
<1>3. CASE CountOne(c) \/ UsersCounted(c) \/ UnknownCounted(c)
  <2>1. /\ Apiece(c) /\ UNCHANGED <<sent, sockfdNick, nick_head, user_head, connections, self>>
        /\ pc[c] \in {"users_iter", "unknown_iter"}
        /\ pc'[c] \in {"users_iter", "unknown_iter", "clients"}
    <3>1. CASE CountOne(c)
      BY <1>1, <3>1 DEF CountOne, At, Apiece, Shape, OnConn, tables, history
    <3>2. CASE UsersCounted(c)
      BY <1>1, <3>2 DEF UsersCounted, At, Goto, Apiece, Shape, OnConn, tables, history
    <3>3. CASE UnknownCounted(c)
      BY <1>1, <3>3 DEF UnknownCounted, At, Goto, Apiece, Shape, OnConn, tables, history, local
    <3>4. QED
      BY <1>3, <3>1, <3>2, <3>3
  <2>2. QED
    BY <1>1, <2>1, NamedAlone DEF HoldOK, Naming, Asks
<1>4. CASE Clients(c)
  <2>0. pc[c] = "clients" /\ UNCHANGED <<sent, sockfdNick, nick_head, user_head, connections>>
    BY <1>4 DEF Clients, At, tables, history
  <2>1. CASE Goto(c, "bind") /\ UNCHANGED local
    <3>1. Apiece(c) /\ UNCHANGED self /\ pc'[c] = "bind"
      BY <1>1, <2>1 DEF Goto, Apiece, Shape, OnConn, local
    <3>2. QED
      BY <1>1, <2>0, <3>1, NamedAlone DEF HoldOK, Naming, Asks
  <2>2. CASE Done(c)
    BY <2>0, <2>2, NamedDone
  <2>3. QED
    BY <1>4, <2>1, <2>2 DEF Clients
<1>5. QED
  BY <1>2, <1>3, <1>4

\* More lines have been sent.
LEMMA StoredMore ==
    ASSUME sent \subseteq sent', NEW u, Stored(u)
    PROVE  Stored(u)'
<1>1. PICK d \in Conn : \E m \in SentAs(d, "USER") : u.cmd = m.cmd /\ u.params = m.params
  BY DEF Stored
<1>2. PICK m \in SentAs(d, "USER") : u.cmd = m.cmd /\ u.params = m.params
  BY <1>1
<1>3. PICK p \in sent : p[1] = d /\ p[2].rc = 0 /\ p[2] = m /\ Is(m.cmd, "USER")
  BY <1>2 DEF SentAs, SentBy
<1>4. m \in SentAs(d, "USER")'
  BY <1>3 DEF SentAs, SentBy
<1>5. QED
  BY <1>2, <1>4 DEF Stored

LEMMA NamedReceive ==
    ASSUME CommandsInv, NamedOK, NEW c \in Conn, NEW s \in Lines[c], Receive(c, s)
    PROVE  NamedOK'
<1> PICK m : m = chirc_message_from_string(s)
  OBVIOUS
<1>1. m.rc = 0 => Wordy(m)
  <2>1. s \in Seq(STRING)
    BY LinesAssumption
  <2>2. QED
    BY <2>1, ParsedTypes
<1>2. /\ Frame(c) /\ pc[c] = "read" /\ pc'[c] \in {"read", "dispatch"}
      /\ pc'[c] = "dispatch" => msg'[c] # NULL
      /\ sent' = sent \union {<<c, m>>} /\ UNCHANGED tables
  BY Arrives
<1>3. UNCHANGED <<self, sockfdNick, nick_head, user_head, connections>>
  BY <1>2 DEF Receive, tables
<1>4. ASSUME NEW d \in Conn PROVE HoldOK(d)'
  <2>1. CASE d = c
    BY <1>2, <2>1 DEF HoldOK, Naming, Asks
  <2>2. CASE d # c
    <3>1. /\ pc'[d] = pc[d] /\ msg'[d] = msg[d] /\ self'[d] = self[d] /\ target'[d] = target[d]
          /\ HoldOK(d)
      BY <1>2, <1>3, <2>2 DEF Frame, NamedOK
    <3>2. QED
      BY <3>1 DEF HoldOK, Naming, Asks, Handles, nparams, params
  <2>3. QED
    BY <2>1, <2>2
<1>5. SentOK'
  <2>1. PICK q : q = <<c, m>>
    OBVIOUS
  <2>2. q[1] = c /\ q[2] = m
    BY <2>1
  <2>3. QED
    BY <1>1, <1>2, <2>1, <2>2 DEF SentOK, NamedOK
<1>6. NamesOK'
  <2>1. sent \subseteq sent'
    BY <1>2
  <2>2. QED
    BY <1>3, <2>1, StoredMore DEF NamesOK, NamedOK
<1>7. QED
  BY <1>3, <1>4, <1>5, <1>6 DEF NamedOK, OnConn

\* The message a thread handles is one its client has sent.
LEMMA Handled ==
    ASSUME CommandsInv, NamedOK, NEW c \in Conn, msg[c] # NULL
    PROVE  /\ msg[c] \in SentBy(c) /\ msg[c].rc = 0 /\ Wordy(msg[c])
           /\ \A n : Is(msg[c].cmd, n) => msg[c] \in SentAs(c, n)
           /\ <<c, msg[c]>> \in sent
<1>1. <<c, msg[c]>> \in sent /\ msg[c].rc = 0
  BY Found DEF Own, MsgOK
<1>2. PICK p : p = <<c, msg[c]>>
  OBVIOUS
<1>3. p \in sent /\ p[1] = c /\ p[2] = msg[c] /\ p[2].rc = 0
  BY <1>1, <1>2
<1>4. msg[c] \in SentBy(c)
  BY <1>3 DEF SentBy
<1>5. Wordy(msg[c])
  BY <1>3 DEF NamedOK, SentOK
<1>6. QED
  BY <1>1, <1>4, <1>5 DEF SentAs

\* The name in a message of one parameter or more.
LEMMA GivenName ==
    ASSUME CommandsInv, NamedOK, NEW c \in Conn, msg[c] # NULL, nparams(c) # 0
    PROVE  name(c) \in Seq(STRING) /\ nparams(c) \in Nat
<1>1. PICK p \in Seq(Seq(STRING)) : p = msg[c].params
  BY Handled DEF Wordy
<1>2. Len(p) # 0
  BY <1>1 DEF nparams, params
<1>3. p[1] \in Seq(STRING) /\ Len(p) \in Nat
  BY <1>1, <1>2
<1>4. QED
  BY <1>1, <1>3 DEF name, params, nparams

LEMMA AppendedAll ==
    ASSUME NEW s, NEW x, NEW t, Appended(s, x, t), NEW i \in DOMAIN t
    PROVE  t[i] = x \/ \E j \in DOMAIN s : t[i] = s[j]
<1>1. Len(s) \in Nat /\ i \in 1..Len(s) + 1 /\ DOMAIN s = 1..Len(s)
  BY DEF Appended
<1>2. CASE i = Len(s) + 1
  BY <1>2 DEF Appended
<1>3. CASE i # Len(s) + 1
  <2>1. i \in 1..Len(s)
    BY <1>1, <1>3
  <2>2. QED
    BY <1>1, <2>1 DEF Appended
<1>4. QED
  BY <1>2, <1>3

\* The first node of user_head with a name.
LEMMA UserNodeIn ==
    ASSUME CommandsInv, NEW n, find_user_node(user_head, n)
    PROVE  \E i \in DOMAIN user_head : user_node(n) = user_head[i]
<1>1. IsSequence(user_head)
  BY DEF CommandsInv, TablesOK
<1>2. Len(user_head) \in Nat /\ DOMAIN user_head = 1..Len(user_head)
  BY <1>1, SequenceLen
<1> DEFINE S == {i \in DOMAIN user_head : user_head[i].name = n}
<1>3. S \subseteq Nat /\ S # {}
  BY <1>2 DEF find_user_node
<1>4. PICK k \in S : \A j \in S : k =< j
  BY <1>3, LeastNumber
<1>5. \A j \in 1..(k - 1) : user_head[j].name # n
  <2> TAKE j \in 1..(k - 1)
  <2>1. k \in Nat /\ k =< Len(user_head)
    BY <1>2, <1>4
  <2>2. j \in 1..Len(user_head) /\ ~(k =< j)
    BY <1>2, <2>1
  <2>3. QED
    BY <1>2, <1>4, <2>2
<1>6. PICK z : z = (CHOOSE i \in DOMAIN user_head :
                        user_head[i].name = n /\ \A j \in 1..(i - 1) : user_head[j].name # n)
  OBVIOUS
<1>7. z \in DOMAIN user_head
  BY <1>4, <1>5, <1>6
<1>8. user_node(n) = user_head[z]
  BY <1>6 DEF user_node
<1>9. QED
  BY <1>7, <1>8

\* A registration begins with the name in the message, which fits, and the message of
\* a USER that has been sent.
LEMMA NamedWelcome ==
    ASSUME CommandsInv, NamedOK, NEW c \in Conn, NEW m, StartWelcome(c, m), Fitting(name(c)), Stored(m),
           Registering(c), UNCHANGED <<sent, sockfdNick>>,
           \A i \in DOMAIN nick_head' : Fitting(nick_head'[i].name),
           \A i \in DOMAIN user_head' : Stored(user_head'[i].msg)
    PROVE  NamedOK'
<1>1. Shape /\ OnConn(self) /\ IsSequence(connections)
  BY Found DEF NamedOK, CommandsInv, TablesOK
<1>2. PICK n : n = name(c)
  OBVIOUS
<1>3. /\ self' = [self EXCEPT ![c] = n] /\ UNCHANGED <<msg, target>> /\ Goto(c, "users")
      /\ connections' = Append(connections, [name |-> n, fd |-> c, msg |-> m, live |-> TRUE])
  BY <1>2 DEF StartWelcome
<1>4. Apiece(c) /\ self'[c] = n /\ pc'[c] = "users"
  BY <1>1, <1>3 DEF Goto, Apiece, Shape, OnConn
<1>5. PICK x : x = [name |-> n, fd |-> c, msg |-> m, live |-> TRUE]
  OBVIOUS
<1>6. x.name = n /\ x.msg = m
  BY <1>5
<1>7. Appended(connections, x, connections')
  BY <1>1, <1>3, <1>5, AppendSeq, Zenon
<1>8. \A u : Stored(u) => Stored(u)'
  BY DEF Stored, SentAs, SentBy
<1>9. \A i \in DOMAIN connections' : Fitting(connections'[i].name) /\ Stored(connections'[i].msg)
  <2> TAKE i \in DOMAIN connections'
  <2>1. CASE connections'[i] = x
    BY <1>2, <1>6, <2>1
  <2>2. ASSUME NEW j \in DOMAIN connections, connections'[i] = connections[j]
        PROVE  Fitting(connections'[i].name) /\ Stored(connections'[i].msg)
    BY <2>2 DEF NamedOK, NamesOK
  <2>3. QED
    BY <1>7, <2>1, <2>2, AppendedAll
<1>10. NamesOK'
  BY <1>8, <1>9 DEF NamesOK, NamedOK
<1>11. HoldOK(c)'
  BY <1>2, <1>4 DEF HoldOK, Asks
<1>12. QED
  BY <1>4, <1>10, <1>11, NamedElse

LEMMA NamedRefused ==
    ASSUME CommandsInv, NamedOK, NEW c \in Conn, NoWelcome(c), UNCHANGED <<sent, sockfdNick>>,
           \A i \in DOMAIN nick_head' : Fitting(nick_head'[i].name),
           \A i \in DOMAIN user_head' : Stored(user_head'[i].msg)
    PROVE  NamedOK'
<1>1. Done(c) /\ UNCHANGED connections
  BY DEF NoWelcome
<1>2. \A u : Stored(u) => Stored(u)'
  BY DEF Stored, SentAs, SentBy
<1>3. NamesOK'
  BY <1>1, <1>2 DEF NamesOK, NamedOK
<1>4. QED
  BY <1>1, <1>3, DoneApiece, NamedElse

LEMMA NamedNick ==
    ASSUME CommandsInv, NamedOK, NEW c \in Conn, Nick(c)
    PROVE  NamedOK'
<1>1. PICK n : n = name(c)
  OBVIOUS
<1>2. /\ msg[c] # NULL /\ nparams(c) = 1 /\ Len(n) < NameSize /\ Registering(c)
      /\ nick_head' = Append(nick_head, [name |-> n])
      /\ UNCHANGED <<sent, sockfdNick, user_head>>
  BY <1>1 DEF Nick, NickNew, Dispatched, Handles, Registering, history
<1>3. Fitting(n)
  BY <1>1, <1>2, GivenName DEF Fitting
<1>4. PICK x : x = [name |-> n]
  OBVIOUS
<1>5. Appended(nick_head, x, nick_head') /\ x.name = n
  <2>1. IsSequence(nick_head) /\ nick_head' = Append(nick_head, x)
    BY <1>2, <1>4 DEF CommandsInv, TablesOK
  <2>2. QED
    BY <1>4, <2>1, AppendSeq, Zenon
<1>6. \A i \in DOMAIN nick_head' : Fitting(nick_head'[i].name)
  <2> TAKE i \in DOMAIN nick_head'
  <2>1. nick_head'[i] = x \/ \E j \in DOMAIN nick_head : nick_head'[i] = nick_head[j]
    BY <1>5, AppendedAll
  <2>2. QED
    BY <1>3, <1>5, <2>1 DEF NamedOK, NamesOK
<1>7. \A i \in DOMAIN user_head' : Stored(user_head'[i].msg)
  BY <1>2 DEF NamedOK, NamesOK
<1>8. CASE find_user_node(user_head, n) /\ StartWelcome(c, user_node(n).msg)
  <2>1. PICK i \in DOMAIN user_head : user_node(n) = user_head[i]
    BY <1>8, UserNodeIn
  <2>2. Stored(user_node(n).msg)
    BY <2>1 DEF NamedOK, NamesOK
  <2>3. QED
    BY <1>1, <1>2, <1>3, <1>6, <1>7, <1>8, <2>2, NamedWelcome
<1>9. CASE NoWelcome(c)
  BY <1>2, <1>6, <1>7, <1>9, NamedRefused
<1>10. QED
  BY <1>1, <1>8, <1>9 DEF Nick

LEMMA NamedUser ==
    ASSUME CommandsInv, NamedOK, NEW c \in Conn, User(c)
    PROVE  NamedOK'
<1>1. PICK n, m : n = name(c) /\ m = [cmd |-> msg[c].cmd, params |-> params(c)]
  OBVIOUS
<1>2. /\ msg[c] # NULL /\ nparams(c) >= 4 /\ Len(n) < NameSize /\ Registering(c)
      /\ Handles(c, "USER")
      /\ user_head' = Append(user_head, [name |-> n, msg |-> m])
      /\ UNCHANGED <<sent, sockfdNick, nick_head>>
      /\ StartWelcome(c, m) \/ NoWelcome(c)
  BY <1>1 DEF User, UserNew, Dispatched, Handles, Registering, history
<1>3. nparams(c) # 0
  BY <1>2
<1>4. Fitting(n)
  BY <1>1, <1>2, <1>3, GivenName DEF Fitting
<1>5. Stored(m)
  <2>1. msg[c] \in SentAs(c, "USER")
    BY <1>2, Handled DEF Handles
  <2>2. m.cmd = msg[c].cmd /\ m.params = msg[c].params
    BY <1>1 DEF params
  <2>3. QED
    BY <2>1, <2>2 DEF Stored
<1>6. PICK x : x = [name |-> n, msg |-> m]
  OBVIOUS
<1>7. Appended(user_head, x, user_head') /\ x.msg = m
  <2>1. IsSequence(user_head) /\ user_head' = Append(user_head, x)
    BY <1>2, <1>6 DEF CommandsInv, TablesOK
  <2>2. QED
    BY <1>6, <2>1, AppendSeq, Zenon
<1>8. \A i \in DOMAIN user_head' : Stored(user_head'[i].msg)
  <2> TAKE i \in DOMAIN user_head'
  <2>1. user_head'[i] = x \/ \E j \in DOMAIN user_head : user_head'[i] = user_head[j]
    BY <1>7, AppendedAll
  <2>2. QED
    BY <1>5, <1>7, <2>1 DEF NamedOK, NamesOK
<1>9. \A i \in DOMAIN nick_head' : Fitting(nick_head'[i].name)
  BY <1>2 DEF NamedOK, NamesOK
<1>10. QED
  BY <1>1, <1>2, <1>4, <1>5, <1>8, <1>9, NamedWelcome, NamedRefused

\* Only sockfd_nick_hash changes, and gets no other names than fit.
LEMMA NamedHash ==
    ASSUME NamedOK, NEW c \in Conn, Apiece(c), HoldOK(c)',
           UNCHANGED <<sent, nick_head, user_head, connections>>,
           \A i \in DOMAIN sockfdNick' : Fitting(sockfdNick'[i].name)
    PROVE  NamedOK'
<1>1. \A u : Stored(u) => Stored(u)'
  BY DEF Stored, SentAs, SentBy
<1>2. NamesOK'
  BY <1>1 DEF NamesOK, NamedOK
<1>3. QED
  BY <1>2, NamedElse

LEMMA NamedBind ==
    ASSUME CommandsInv, NamedOK, NEW c \in Conn, Bind(c)
    PROVE  NamedOK'
<1>1. IsSequence(sockfdNick)
  BY DEF CommandsInv, TablesOK
<1>2. pc[c] = "bind" /\ Done(c) /\ UNCHANGED <<sent, nick_head, user_head, connections>>
  BY DEF Bind, At, history
<1>3. Fitting(self[c])
  BY <1>2 DEF NamedOK, HoldOK, Naming
<1>4. PICK x : x = [fd |-> c, name |-> self[c], node |-> nodes]
  OBVIOUS
<1>5. x.name = self[c]
  BY <1>4
<1>6. Appended(sockfdNick, x, sockfdNick')
  <2>1. sockfdNick' = Append(sockfdNick, x)
    BY <1>4 DEF Bind
  <2>2. QED
    BY <1>1, <2>1, AppendSeq, Zenon
<1>7. \A i \in DOMAIN sockfdNick' : Fitting(sockfdNick'[i].name)
  <2> TAKE i \in DOMAIN sockfdNick'
  <2>1. sockfdNick'[i] = x \/ \E j \in DOMAIN sockfdNick : sockfdNick'[i] = sockfdNick[j]
    BY <1>6, AppendedAll
  <2>2. QED
    BY <1>3, <1>5, <2>1 DEF NamedOK, NamesOK
<1>8. QED
  BY <1>2, <1>7, DoneApiece, NamedHash

LEMMA NamedDisconnect ==
    ASSUME CommandsInv, NamedOK, NEW c \in Conn, Disconnect(c)
    PROVE  NamedOK'
<1>1. Shape /\ OnConn(self) /\ IsSequence(sockfdNick) /\ DOMAIN sockfdNick = 1..Len(sockfdNick)
  BY Found DEF NamedOK, CommandsInv, TablesOK
<1>2. /\ msg' = [msg EXCEPT ![c] = NULL] /\ pc' = [pc EXCEPT ![c] = "gone"]
      /\ UNCHANGED <<self, target, sent, nick_head, user_head, connections>>
      /\ \/ sockfdNick' = sockfdNick
         \/ \E k \in NodesOf(c) : sockfdNick' = RemoveAt(sockfdNick, k)
  BY DEF Disconnect, Goto, history
<1>3. \A i \in DOMAIN sockfdNick' : \E j \in DOMAIN sockfdNick : sockfdNick'[i] = sockfdNick[j]
  <2>1. CASE sockfdNick' = sockfdNick
    BY <2>1
  <2>2. ASSUME NEW k \in NodesOf(c), sockfdNick' = RemoveAt(sockfdNick, k)
        PROVE  <1>3!:
    <3>1. k \in 1..Len(sockfdNick)
      BY <1>1 DEF NodesOf
    <3>2. QED
      BY <1>1, <2>2, <3>1, RemoveSeq
  <2>3. QED
    BY <1>2, <2>1, <2>2
<1>4. \A i \in DOMAIN sockfdNick' : Fitting(sockfdNick'[i].name)
  BY <1>3 DEF NamedOK, NamesOK
<1>5. Apiece(c) /\ pc'[c] = "gone"
  BY <1>1, <1>2 DEF Apiece, Shape, OnConn
<1>6. HoldOK(c)'
  BY <1>5 DEF HoldOK, Naming, Asks
<1>7. QED
  BY <1>2, <1>4, <1>5, <1>6, NamedHash

LEMMA NamedInit == Init => NamedOK
<1> SUFFICES ASSUME Init PROVE NamedOK
  OBVIOUS
<1>1. /\ sockfdNick = <<>> /\ nick_head = <<>> /\ user_head = <<>> /\ connections = <<>>
      /\ sent = {} /\ pc = [c \in Conn |-> "none"] /\ self = [c \in Conn |-> NULL]
  BY DEF Init
<1>2. NamesOK
  BY <1>1 DEF NamesOK
<1>3. \A c \in Conn : HoldOK(c)
  BY <1>1 DEF HoldOK, Naming, Asks
<1>4. QED
  BY <1>1, <1>2, <1>3 DEF NamedOK, OnConn, SentOK

LEMMA NamedStep == CommandsInv /\ NamedOK /\ [Next]_vars => NamedOK'
<1> SUFFICES ASSUME CommandsInv, NamedOK, [Next]_vars PROVE NamedOK'
  OBVIOUS
<1>1. CASE UNCHANGED vars
  <2>1. UNCHANGED <<tables, pc, local, sent>>
    BY <1>1 DEF vars, history
  <2>2. QED
    BY <2>1, NamedStill
<1>2. ASSUME NEW c \in Conn,
             \/ FindUndefined(c) \/ WhoisNull(c) \/ WhoisUndefined(c)
             \/ NameUndefined(c) \/ NameTooLong(c)
      PROVE  NamedOK'
  <2>1. UNCHANGED <<tables, pc, local, history>>
    BY <1>2 DEF FindUndefined, WhoisNull, WhoisUndefined, NameUndefined, NameTooLong, Undefined
  <2>2. QED
    BY <2>1, NamedStill DEF history
<1>3. ASSUME NEW c \in Conn,
             \/ response_PING(c) \/ Pong(c) \/ MotdFound(c) \/ UnknownFound(c)
             \/ WhoisIgnored(c) \/ WhoisNone(c) \/ PrivmsgKnown(c)
             \/ PrivmsgUnknown(c) \/ NickRefused(c) \/ UserRefused(c)
      PROVE  NamedOK'
  BY <1>3, NamedEnds
<1>4. ASSUME NEW c \in Conn,
             \/ Accept(c) \/ LoadHead(c) \/ Quit(c) \/ HangUp(c) \/ WhoisTarget(c) \/ WhoisUser(c)
             \/ WhoisFree(c)
             \/ UsersStart(c) \/ CountOne(c) \/ UsersCounted(c) \/ UnknownCounted(c) \/ Clients(c)
      PROVE  NamedOK'
  BY <1>4, NamedOutside, NamedWhoisUser, NamedFree, NamedCounts
<1>5. ASSUME NEW c \in Conn,
             \/ (\E s \in Lines[c] : Receive(c, s)) \/ Nick(c) \/ User(c) \/ Bind(c) \/ Disconnect(c)
      PROVE  NamedOK'
  BY <1>5, NamedReceive, NamedNick, NamedUser, NamedBind, NamedDisconnect
<1>6. QED
  BY <1>1, <1>2, <1>3, <1>4, <1>5, Zenon DEF Next

\* A line without a command, or with more parameters than there is room for.
LEMMA LineUndefined ==
    ASSUME CommandsInv, NEW c \in Conn, NEW s \in Lines[c], Receive(c, s)
    PROVE  UndefinedJustified'
<1> PICK m : m = chirc_message_from_string(s)
  OBVIOUS
<1>1. /\ \/ undefined' = NULL
         \/ m.rc = -1 /\ undefined' = [conn |-> c, cause |-> "command"]
         \/ m.rc = 0 /\ m.overflow /\ undefined' = [conn |-> c, cause |-> "params"]
      /\ sent' = sent \union {<<c, m>>}
  BY Arrives
<1>2. PICK p : p = <<c, m>>
  OBVIOUS
<1>3. p \in sent' /\ p[1] = c /\ p[2] = m
  BY <1>1, <1>2
<1>4. CASE m.rc = -1 /\ undefined' = [conn |-> c, cause |-> "command"]
  BY <1>3, <1>4 DEF UndefinedJustified
<1>5. CASE m.rc = 0 /\ m.overflow /\ undefined' = [conn |-> c, cause |-> "params"]
  <2>1. Len(m.params) > ParamsSize
    BY <1>5, ParsedShape
  <2>2. m \in SentBy(c)'
    BY <1>3, <1>5 DEF SentBy
  <2>3. QED
    BY <1>5, <2>1, <2>2 DEF UndefinedJustified
<1>6. QED
  BY <1>1, <1>4, <1>5 DEF UndefinedJustified

\* A head that was freed, by a client that has left.
LEMMA HeadUndefined ==
    ASSUME CommandsInv, NEW c \in Conn, FindUndefined(c)
    PROVE  UndefinedJustified'
<1>1. /\ pc[c] \in {"find", "delete"} /\ loaded[c] # NULL
      /\ \A i \in DOMAIN sockfdNick : sockfdNick[i].node # loaded[c]
      /\ undefined' = [conn |-> c, cause |-> "head"] /\ pc' = pc
  BY DEF FindUndefined, At, Freed, Undefined
<1>2. PICK d \in Conn \ {c} : pc[d] = "gone"
  BY <1>1, Found DEF Own, LoadedOK
<1>3. QED
  BY <1>1, <1>2 DEF UndefinedJustified

\* The nick of a descriptor that has none.
LEMMA NickUndefined ==
    ASSUME CommandsInv, NamedOK, NEW c \in Conn, WhoisNull(c)
    PROVE  UndefinedJustified'
<1>1. /\ pc[c] = "find" /\ find_sockfd_nick_map_node(c) = {NULL}
      /\ undefined' = [conn |-> c, cause |-> "nick"] /\ connections' = connections
  BY DEF WhoisNull, AtFind, At, Undefined, tables
<1>2. Own(c)
  BY Found
<1>3. NamesOf(c) = {}
  <2>1. CASE loaded[c] = NULL
    BY <1>1, <1>2, <2>1 DEF Own, LoadedOK
  <2>2. CASE NodesOf(c) = {}
    BY <1>1, <1>2, <2>2 DEF Own, NickOK, Binding, NodesOf
  <2>3. CASE loaded[c] # NULL /\ NodesOf(c) # {}
    <3>1. PICK i : i \in NodesOf(c)
      BY <2>3
    <3>2. sockfdNick[i].name # NULL
      BY <3>1, FittingShort DEF NamedOK, NamesOK, NodesOf
    <3>3. find_sockfd_nick_map_node(c) = {sockfdNick[j].name : j \in NodesOf(c)}
      BY <2>3 DEF find_sockfd_nick_map_node
    <3>4. sockfdNick[i].name \in find_sockfd_nick_map_node(c)
      BY <3>1, <3>3
    <3>5. QED
      BY <1>1, <3>2, <3>4
  <2>4. QED
    BY <2>1, <2>2, <2>3
<1>4. NamesOf(c)' = {}
  BY <1>1, <1>3 DEF NamesOf
<1>5. QED
  BY <1>1, <1>4 DEF UndefinedJustified

\* A message that a WHOIS before this one has freed.
LEMMA MessageUndefined ==
    ASSUME CommandsInv, NamedOK, NEW c \in Conn, WhoisUndefined(c)
    PROVE  UndefinedJustified'
<1>0. Own(c) /\ DeadOK /\ TablesOK /\ DOMAIN connections = 1..Len(connections)
  BY Found DEF CommandsInv
<1>1. /\ target[c] # 0 /\ ~connections[target[c]].live
      /\ undefined' = [conn |-> c, cause |-> "message"]
      /\ UNCHANGED <<connections, sent, again>>
  BY DEF WhoisUndefined, Undefined, tables, history
<1>2. PICK t, n : t = target[c] /\ n = name(c)
  OBVIOUS
<1>3. /\ t \in DOMAIN connections /\ ~connections[t].live /\ connections[t].name = n
      /\ Handles(c, "WHOIS") /\ nparams(c) = 1
  BY <1>0, <1>1, <1>2, Found DEF Own, OwnTypes, TargetOK
<1>4. PICK p \in Asking(n) : p \in again \/ msg[p[1]] # p[2]
  BY <1>0, <1>3 DEF DeadOK
<1>5. PICK q : q = <<c, msg[c]>>
  OBVIOUS
<1>6. q \in Asking(n) /\ q[1] = c /\ q[2] = msg[c]
  <2>1. q \in sent /\ q[1] = c /\ q[2] = msg[c] /\ msg[c].rc = 0
    BY <1>3, <1>5, Handled DEF Handles
  <2>2. QED
    BY <1>2, <1>3, <2>1 DEF Asking, Handles, nparams, name, params
<1>7. AskedTwice(n)
  <2>1. CASE p \in again
    BY <1>4, <2>1 DEF AskedTwice
  <2>2. CASE p \notin again
    <3>1. p # q
      BY <1>4, <1>6, <2>2
    <3>2. QED
      BY <1>4, <1>6, <3>1 DEF AskedTwice
  <2>3. QED
    BY <2>1, <2>2
<1>8. AskedTwice(n)'
  BY <1>1, <1>7 DEF AskedTwice, Asking
<1>9. PICK d \in Conn : n \in NamesOf(d)
  <2>1. connections[t].fd \in Conn
    BY <1>0, <1>3 DEF TablesOK
  <2>2. n \in NamesOf(connections[t].fd)
    BY <1>3 DEF NamesOf
  <2>3. QED
    BY <2>1, <2>2
<1>10. n \in NamesOf(d)'
  BY <1>1, <1>9 DEF NamesOf
<1>11. n \in UNION {NamesOf(e)' : e \in Conn}
  BY <1>10
<1>12. QED
  BY <1>1, <1>8, <1>11 DEF UndefinedJustified

\* A name that is missing, or longer than its array.
LEMMA NamesUndefined ==
    ASSUME CommandsInv, NamedOK, NEW c \in Conn, NameUndefined(c) \/ NameTooLong(c)
    PROVE  UndefinedJustified'
<1>1. UNCHANGED sent /\ msg[c] # NULL
  BY DEF NameUndefined, NameTooLong, NickNew, UserNew, Dispatched, Handles, Undefined, history
<1>2. SentBy(c)' = SentBy(c) /\ \A n : SentAs(c, n)' = SentAs(c, n)
  BY <1>1 DEF SentAs, SentBy
<1>3. CASE NameUndefined(c)
  <2>1. Len(msg[c].params) = 0 /\ undefined' = [conn |-> c, cause |-> "name"]
    BY <1>3 DEF NameUndefined, Undefined, nparams, params
  <2>2. msg[c] \in SentBy(c)'
    BY <1>1, <1>2, Handled
  <2>3. QED
    BY <2>1, <2>2 DEF UndefinedJustified
<1>4. CASE NameTooLong(c)
  <2>1. /\ Handles(c, "NICK") \/ Handles(c, "USER")
        /\ Len(msg[c].params) # 0 /\ Len(msg[c].params[1]) >= NameSize
        /\ undefined' = [conn |-> c, cause |-> "size"]
    <3>1. /\ (Handles(c, "NICK") /\ nparams(c) = 1) \/ (Handles(c, "USER") /\ nparams(c) >= 4)
          /\ Len(name(c)) >= NameSize
          /\ undefined' = [conn |-> c, cause |-> "size"]
      BY <1>4 DEF NameTooLong, NickNew, UserNew, Dispatched, Undefined
    <3>2. QED
      BY <3>1 DEF nparams, name, params
  <2>2. msg[c] \in SentAs(c, "NICK")' \union SentAs(c, "USER")'
    BY <1>1, <1>2, <2>1, Handled DEF Handles
  <2>3. QED
    BY <2>1, <2>2 DEF UndefinedJustified
<1>5. QED
  BY <1>3, <1>4

-----------------------------------------------------------------------------
(* Replies that do not fit *)

\* A message of the client itself leaves no room, or a USER of anyone.
Excused(c) ==
    \/ \E m \in SentBy(c) : Crowds(m)
    \/ \E d \in Conn : \E m \in SentAs(d, "USER") : Crowds(m) \/ Len(m.params) + 2 > ParamsSize

\* What is written fits, but for that.
LEMMA Written ==
    ASSUME NEW c \in Conn, undefined = NULL, NEW rs, NEW number, WriteReport(c, rs, number),
           AllFit(rs) \/ Excused(c), UNCHANGED sent
    PROVE  UndefinedJustified'
<1>1. CASE undefined' = NULL
  BY <1>1 DEF UndefinedJustified
<1>2. CASE Excused(c) /\ undefined' = [conn |-> c, cause |-> "reply"]
  <2>1. \A d : SentBy(d)' = SentBy(d) /\ \A n : SentAs(d, n)' = SentAs(d, n)
    BY DEF SentAs, SentBy
  <2>2. undefined'.conn = c /\ undefined'.cause = "reply"
    BY <1>2
  <2>3. Excused(c)'
    BY <1>2, <2>1 DEF Excused
  <2>4. QED
    BY <2>2, <2>3 DEF UndefinedJustified, Excused
<1>3. QED
  BY <1>1, <1>2, WriteDefined

LEMMA Wrote ==
    ASSUME NEW c \in Conn, undefined = NULL, NEW rs, Write(c, rs),
           AllFit(rs) \/ Excused(c), UNCHANGED sent
    PROVE  UndefinedJustified'
<1>1. WriteReport(c, rs, NULL)
  BY DEF Write
<1>2. QED
  BY <1>1, Written

LEMMA LeastShort ==
    ASSUME CommandsInv, NamedOK
    PROVE  Short(get_least_user_node)
<1>1. CASE nick_head = <<>>
  BY <1>1, ShortNames DEF get_least_user_node
<1>2. CASE nick_head # <<>>
  <2>1. PICK S : nick_head \in Seq(S)
    BY DEF CommandsInv, TablesOK, IsSequence
  <2>2. Len(nick_head) \in DOMAIN nick_head
    BY <1>2, <2>1
  <2>3. get_least_user_node = nick_head[Len(nick_head)].name
    BY <1>2 DEF get_least_user_node, Last
  <2>4. QED
    BY <2>2, <2>3, FittingShort DEF NamedOK, NamesOK
<1>3. QED
  BY <1>1, <1>2

LEMMA FoundShort ==
    ASSUME NamedOK, NEW c \in Conn, NEW nick \in find_sockfd_nick_map_node(c)
    PROVE  Short(NickOrEmpty(nick)) /\ (nick # NULL => Short(nick))
  BY FoundNick, FittingShort, ShortNames DEF NickOrEmpty

\* A name that is registered has been copied into its array.
LEMMA RegisteredShort ==
    ASSUME CommandsInv, NamedOK, NEW n, find_connection_map_node(n) # 0
    PROVE  Short(n)
<1>1. PICK i : i = find_connection_map_node(n)
  OBVIOUS
<1>2. Len(connections) \in Nat /\ DOMAIN connections = 1..Len(connections)
  BY SequenceLen DEF CommandsInv, TablesOK
<1>3. i \in DOMAIN connections /\ connections[i].name = n
  BY <1>1, <1>2, FindNode
<1>4. QED
  BY <1>3, FittingShort DEF NamedOK, NamesOK

\* A message of the client leaves room, or is an excuse.
LEMMA OwnRoom ==
    ASSUME CommandsInv, NamedOK, NEW c \in Conn, msg[c] # NULL
    PROVE  (\E g : Roomy(msg[c], g)) \/ Excused(c)
<1>1. msg[c] \in SentBy(c) /\ Wordy(msg[c])
  BY Handled
<1>2. CASE Crowds(msg[c])
  BY <1>1, <1>2 DEF Excused
<1>3. CASE ~Crowds(msg[c])
  BY <1>1, <1>3, NotCrowded
<1>4. QED
  BY <1>2, <1>3

LEMMA PongWrites ==
    ASSUME NEW c \in Conn, response_PING(c)
    PROVE  UndefinedJustified'
<1>1. undefined = NULL /\ Write(c, <<PONG_reply>>) /\ UNCHANGED sent
  BY DEF response_PING, Dispatched, At, history
<1>2. Single(<<"x">>) /\ Single(<<"PONG">>)
  BY CodesSingle
<1>3. PICK text \in Seq(Chars) : text = <<"x">> /\ Len(text) = 1
  BY <1>2 DEF Single
<1>4. Len(text) + 6 =< BufferSize
  BY <1>3, Sizes
<1>5. Fits(PONG_reply.msg)
  <2>1. PICK b \in BOOLEAN : b = FALSE
    OBVIOUS
  <2>2. PONG_reply.msg = reply(CONN_TYPE_QUIT, <<>>, <<"PONG">>, << <<text, b>> >>).msg
    BY <1>3, <2>1 DEF PONG_reply
  <2>3. QED
    BY <1>2, <1>4, <2>2, QuitTypeFits
<1>6. QED
  BY <1>1, <1>5, OneFits, Wrote

LEMMA MotdWrites ==
    ASSUME NamedOK, NEW c \in Conn, MotdFound(c)
    PROVE  UndefinedJustified'
<1>1. undefined = NULL /\ UNCHANGED sent
  BY DEF MotdFound, AtFind, At, history
<1>2. PICK nick \in find_sockfd_nick_map_node(c) : Write(c, response_MOTD(NickOrEmpty(nick), TRUE))
  BY DEF MotdFound
<1>3. AllFit(response_MOTD(NickOrEmpty(nick), TRUE))
  BY <1>2, FoundShort, MotdFits
<1>4. QED
  BY <1>1, <1>2, <1>3, Wrote

LEMMA UnknownWrites ==
    ASSUME CommandsInv, NamedOK, NEW c \in Conn, UnknownFound(c)
    PROVE  UndefinedJustified'
<1>1. undefined = NULL /\ UNCHANGED sent /\ pc[c] = "find"
  BY DEF UnknownFound, AtFind, At, history
<1>2. msg[c] # NULL
  BY <1>1 DEF NamedOK, HoldOK
<1>3. PICK nick \in find_sockfd_nick_map_node(c) :
          Write(c, IF nick = NULL THEN <<>> ELSE <<UNKNOWN_reply(nick, msg[c].cmd)>>)
  BY DEF UnknownFound
<1>4. CASE nick = NULL
  <2>1. AllFit(<<>>)
    BY DEF AllFit
  <2>2. Write(c, <<>>)
    BY <1>3, <1>4
  <2>3. QED
    BY <1>1, <2>1, <2>2, Wrote
<1>5. CASE nick # NULL
  <2>1. Write(c, <<UNKNOWN_reply(nick, msg[c].cmd)>>)
    BY <1>3, <1>5
  <2>2. AllFit(<<UNKNOWN_reply(nick, msg[c].cmd)>>) \/ Excused(c)
    <3>1. ASSUME NEW g, Roomy(msg[c], g) PROVE AllFit(<<UNKNOWN_reply(nick, msg[c].cmd)>>)
      BY <1>5, <3>1, FoundShort, UnknownFits, OneFits
    <3>2. QED
      BY <1>2, <3>1, OwnRoom
  <2>3. QED
    BY <1>1, <2>1, <2>2, Wrote
<1>6. QED
  BY <1>4, <1>5

LEMMA QuitWrites ==
    ASSUME CommandsInv, NamedOK, NEW c \in Conn, Quit(c)
    PROVE  UndefinedJustified'
<1>1. undefined = NULL /\ UNCHANGED sent /\ msg[c] # NULL /\ Write(c, <<QUIT_reply(Closing(c))>>)
  BY DEF Quit, Dispatched, Handles, At, history
<1>2. ASSUME NEW g, Roomy(msg[c], g) PROVE AllFit(<<QUIT_reply(Closing(c))>>)
  <2>1. PICK x \in Seq(Chars) : x = get_least_user_node /\ Len(x) < NameSize /\ Len(x) \in Nat
    BY LeastShort DEF Short
  <2>2. PICK z : z = IF nparams(c) = 1 THEN name(c) ELSE Text
    OBVIOUS
  <2>3. z \in Seq(Chars) /\ Len(z) \in Nat /\ Len(z) + NameSize + 6 =< BufferSize
    <3>1. CASE nparams(c) = 1
      <4>1. name(c) \in Seq(Chars) /\ 1 + Len(name(c)) + Len(servername) + NameSize + 12 =< BufferSize
        BY <1>2, <3>1, RoomFor DEF nparams, name, params
      <4>2. PICK a, L, N, B : a = Len(z) /\ L = Len(servername) /\ N = NameSize /\ B = BufferSize
        OBVIOUS
      <4>3. z \in Seq(Chars) /\ a \in Nat /\ 1 + a + L + N + 12 =< B
        BY <2>2, <3>1, <4>1, <4>2
      <4>4. L \in Nat /\ N \in Nat /\ B \in Nat
        BY <4>2, Sizes
      <4>5. a + N + 6 =< B
        BY <4>3, <4>4
      <4>6. QED
        BY <4>2, <4>3, <4>5
    <3>2. CASE nparams(c) # 1
      <4>1. z = Text /\ Text \in Seq(Chars) /\ Len(Text) = 3
        BY <2>2, <3>2, WordChars
      <4>2. 3 + NameSize + 6 =< BufferSize
        BY Sizes
      <4>3. QED
        BY <4>1, <4>2
    <3>3. QED
      BY <3>1, <3>2
  <2>4. PICK s \in Seq(Chars) : s = <<SP>> /\ Len(s) = 1
    BY Marks
  <2>5. PICK text : text = x \o s \o z
    OBVIOUS
  <2>6. text \in Seq(Chars) /\ Len(text) = Len(x) + 1 + Len(z)
    <3>1. x \o s \in Seq(Chars) /\ Len(x \o s) = Len(x) + 1
      BY <2>4, JoinText
    <3>2. (x \o s) \o z \in Seq(Chars) /\ Len((x \o s) \o z) = Len(x \o s) + Len(z)
      BY <2>3, <3>1, JoinText
    <3>3. QED
      BY <2>5, <3>1, <3>2
  <2>7. Len(text) + 6 =< BufferSize
    <3>1. PICK a, b, t, N, B : a = Len(x) /\ b = Len(z) /\ t = Len(text) /\ N = NameSize /\ B = BufferSize
      OBVIOUS
    <3>2. a \in Nat /\ b \in Nat /\ a < N /\ b + N + 6 =< B /\ t = a + 1 + b
      BY <2>1, <2>3, <2>6, <3>1
    <3>3. N \in Nat /\ B \in Nat
      BY <3>1, Sizes
    <3>4. t + 6 =< B
      BY <3>2, <3>3
    <3>5. QED
      BY <3>1, <3>4
  <2>8. Closing(c) = text
    BY <2>1, <2>2, <2>4, <2>5 DEF Closing
  <2>9. PICK b \in BOOLEAN : b = TRUE
    OBVIOUS
  <2>10. QUIT_reply(Closing(c)).msg = reply(CONN_TYPE_QUIT, <<>>, <<"ERROR">>, << <<text, b>> >>).msg
    BY <2>8, <2>9 DEF QUIT_reply
  <2>11. Fits(QUIT_reply(Closing(c)).msg)
    BY <2>6, <2>7, <2>10, CodesSingle, QuitTypeFits
  <2>12. QED
    BY <2>11, OneFits
<1>3. AllFit(<<QUIT_reply(Closing(c))>>) \/ Excused(c)
  BY <1>1, <1>2, OwnRoom
<1>4. QED
  BY <1>1, <1>3, Wrote

LEMMA WhoisNoneWrites ==
    ASSUME CommandsInv, NamedOK, NEW c \in Conn, WhoisNone(c)
    PROVE  UndefinedJustified'
<1>1. /\ undefined = NULL /\ UNCHANGED sent /\ msg[c] # NULL /\ pc[c] = "find" /\ Handles(c, "WHOIS")
      /\ find_sockfd_nick_map_node(c) # {NULL}
  BY DEF WhoisNone, AtFind, At, Handles, history
<1>2. PICK nick \in find_sockfd_nick_map_node(c) : Write(c, <<NOSUCHNICK_reply(nick, name(c))>>)
  BY DEF WhoisNone
<1>3. Short(nick)
  BY <1>1, <1>2, NotNull, FittingShort
<1>4. Len(msg[c].params) = 1 /\ name(c) = msg[c].params[1]
  BY <1>1 DEF NamedOK, HoldOK, Asks, nparams, name, params
<1>5. AllFit(<<NOSUCHNICK_reply(nick, name(c))>>) \/ Excused(c)
  <2>1. ASSUME NEW g, Roomy(msg[c], g) PROVE AllFit(<<NOSUCHNICK_reply(nick, name(c))>>)
    BY <1>3, <1>4, <2>1, NoSuchNickFits, OneFits
  <2>2. QED
    BY <1>1, <2>1, OwnRoom
<1>6. QED
  BY <1>1, <1>2, <1>5, Wrote

LEMMA WhoisUserWrites ==
    ASSUME CommandsInv, NamedOK, NEW c \in Conn, WhoisUser(c)
    PROVE  UndefinedJustified'
<1>1. /\ undefined = NULL /\ UNCHANGED sent /\ target[c] # 0
      /\ find_sockfd_nick_map_node(c) # {NULL}
  BY DEF WhoisUser, AtFind, At, history
<1>2. PICK u : u = connections[target[c]].msg
  OBVIOUS
<1>3. PICK nick \in find_sockfd_nick_map_node(c) : Write(c, <<WHOIS_reply(nick, u)>>)
  BY <1>2 DEF WhoisUser
<1>4. Short(nick)
  BY <1>1, <1>3, NotNull, FittingShort
<1>5. target[c] \in DOMAIN connections
  BY <1>1, Found DEF Own, OwnTypes
<1>6. PICK d \in Conn : \E m \in SentAs(d, "USER") : u.cmd = m.cmd /\ u.params = m.params
  BY <1>2, <1>5 DEF NamedOK, NamesOK, Stored
<1>7. PICK m \in SentAs(d, "USER") : u.cmd = m.cmd /\ u.params = m.params
  BY <1>6
<1>8. Wordy(m)
  BY <1>7 DEF SentAs, SentBy, NamedOK, SentOK
<1>9. CASE Crowds(m) \/ Len(m.params) + 2 > ParamsSize
  <2>1. Excused(c)
    BY <1>7, <1>9 DEF Excused
  <2>2. QED
    BY <1>1, <1>3, <2>1, Wrote
<1>10. CASE ~(Crowds(m) \/ Len(m.params) + 2 > ParamsSize)
  <2>1. PICK g : Roomy(m, g)
    BY <1>8, <1>10, NotCrowded
  <2>2. Len(m.params) + 2 =< ParamsSize
    <3>1. Len(m.params) \in Nat /\ ParamsSize \in Nat
      BY <2>1, BufferAssumption DEF Roomy
    <3>2. QED
      BY <1>10, <3>1
  <2>3. AllFit(<<WHOIS_reply(nick, u)>>)
    BY <1>4, <1>7, <2>1, <2>2, WhoisFits, OneFits
  <2>4. QED
    BY <1>1, <1>3, <2>3, Wrote
<1>11. QED
  BY <1>9, <1>10

LEMMA WhoisFreeWrites ==
    ASSUME CommandsInv, NamedOK, NEW c \in Conn, WhoisFree(c)
    PROVE  UndefinedJustified'
<1>1. /\ undefined = NULL /\ UNCHANGED sent /\ pc[c] = "free"
      /\ Write(c, <<WHOISSERVER_reply(self[c], name(c)), ENDOFWHOIS_reply(self[c])>>)
  BY DEF WhoisFree, At, history
<1>2. Fitting(self[c]) /\ target[c] # 0
  BY <1>1 DEF NamedOK, HoldOK, Naming
<1>3. target[c] \in DOMAIN connections /\ connections[target[c]].name = name(c)
  BY <1>2, Found DEF Own, OwnTypes, TargetOK
<1>4. Short(self[c]) /\ Short(name(c))
  BY <1>2, <1>3, FittingShort DEF NamedOK, NamesOK
<1>5. QED
  BY <1>1, <1>4, WhoisEndFits, TwoFit, Wrote

LEMMA PrivmsgWrites ==
    ASSUME CommandsInv, NamedOK, NEW c \in Conn, PrivmsgUnknown(c)
    PROVE  UndefinedJustified'
<1>1. /\ undefined = NULL /\ UNCHANGED sent
      /\ Write(c, <<user_reply(<<"451">>, Text, NULL, get_least_user_node)>>)
  BY DEF PrivmsgUnknown, Dispatched, At, history
<1>2. Fits(user_reply(<<"451">>, Text, NULL, get_least_user_node).msg)
  BY LeastShort, CodesSingle, TextFits
<1>3. QED
  BY <1>1, <1>2, OneFits, Wrote

\* The replies of LUSERS, whose nick is held by the thread.
LEMMA CountWrites ==
    ASSUME NamedOK, NEW c \in Conn, UsersCounted(c) \/ UnknownCounted(c) \/ Clients(c)
    PROVE  UndefinedJustified'
<1>1. /\ undefined = NULL /\ UNCHANGED sent
      /\ pc[c] \in {"users_iter", "unknown_iter", "clients"}
  BY DEF UsersCounted, UnknownCounted, Clients, At, history
<1>2. PICK nick : nick = self[c]
  OBVIOUS
<1>3. Short(nick)
  BY <1>1, <1>2, FittingShort DEF NamedOK, HoldOK, Naming
<1>4. \A code, extra : Single(code) /\ (extra = NULL \/ extra = Number) =>
          Fits(LUSERS_reply(code, Text, extra, nick).msg)
  BY <1>3, WordChars, TextFits, Zenon DEF LUSERS_reply
<1>5. /\ Single(<<"251">>) /\ Single(<<"252">>) /\ Single(<<"253">>) /\ Single(<<"254">>)
      /\ Single(<<"255">>)
  BY CodesSingle
<1>6. CASE UsersCounted(c)
  <2>1. \E number : WriteReport(c, <<LUSERS_reply(<<"251">>, Text, NULL, nick),
                                     LUSERS_reply(<<"252">>, Text, Number, nick)>>, number)
    BY <1>2, <1>6 DEF UsersCounted
  <2>2. AllFit(<<LUSERS_reply(<<"251">>, Text, NULL, nick), LUSERS_reply(<<"252">>, Text, Number, nick)>>)
    BY <1>4, <1>5, TwoFit
  <2>3. QED
    BY <1>1, <2>1, <2>2, Written
<1>7. CASE UnknownCounted(c)
  <2>1. \E number : WriteReport(c, <<LUSERS_reply(<<"253">>, Text, Number, nick),
                                     LUSERS_reply(<<"254">>, Text, Number, nick)>>, number)
    BY <1>2, <1>7 DEF UnknownCounted
  <2>2. AllFit(<<LUSERS_reply(<<"253">>, Text, Number, nick),
                 LUSERS_reply(<<"254">>, Text, Number, nick)>>)
    BY <1>4, <1>5, TwoFit
  <2>3. QED
    BY <1>1, <2>1, <2>2, Written
<1>8. CASE Clients(c)
  <2>1. PICK x, y : x = LUSERS_reply(<<"255">>, Text, NULL, nick) /\ y = MOTD_reply(<<"422">>, Text, nick)
    OBVIOUS
  <2>2. Fits(x.msg) /\ Fits(y.msg)
    BY <1>3, <1>4, <1>5, <2>1, CodesSingle, TextFits DEF MOTD_reply
  <2>3. <<x>> \o response_MOTD(nick, FALSE) = <<x, y>>
    <3>1. response_MOTD(nick, FALSE) = <<y>>
      BY <2>1 DEF response_MOTD
    <3>2. QED
      BY <3>1, JoinTwo
  <2>4. \E number : WriteReport(c, <<x>>, number) \/ WriteReport(c, <<x, y>>, number)
    BY <1>2, <1>8, <2>1, <2>3 DEF Clients
  <2>5. AllFit(<<x>>) /\ AllFit(<<x, y>>)
    BY <2>2, OneFits, TwoFit
  <2>6. QED
    BY <1>1, <2>4, <2>5, Written
<1>9. QED
  BY <1>6, <1>7, <1>8

LEMMA RefusedWrites ==
    ASSUME CommandsInv, NamedOK, NEW c \in Conn, NickRefused(c) \/ UserRefused(c)
    PROVE  UndefinedJustified'
<1>1. undefined = NULL /\ UNCHANGED sent
  BY DEF NickRefused, UserRefused, Dispatched, At, history
<1>2. PICK least : least = get_least_user_node /\ Short(least)
  BY LeastShort
<1>3. CASE Write(c, <<user_reply(<<"431">>, Text, NULL, least)>>)
  <2>1. Fits(user_reply(<<"431">>, Text, NULL, least).msg)
    BY <1>2, CodesSingle, TextFits
  <2>2. QED
    BY <1>1, <1>3, <2>1, OneFits, Wrote
<1>4. CASE Write(c, <<user_reply(<<"461">>, Text, <<"USER">>, least)>>)
  <2>1. Fits(user_reply(<<"461">>, Text, <<"USER">>, least).msg)
    BY <1>2, CodesSingle, WordChars, TextFits
  <2>2. QED
    BY <1>1, <1>4, <2>1, OneFits, Wrote
<1>5. CASE /\ find_connection_map_node(name(c)) # 0
           /\ Write(c, <<user_reply(<<"433">>, Text, name(c), Anybody)>>)
  <2>1. PICK n \in Seq(Chars) : n = name(c) /\ Len(n) < NameSize
    BY <1>5, RegisteredShort DEF Short
  <2>2. PICK k, a, L, N, B : /\ k = 5 + a /\ a = Len(n) /\ L = Len(servername) /\ N = NameSize
                             /\ B = BufferSize
    OBVIOUS
  <2>3. a \in Nat /\ L \in Nat /\ N \in Nat /\ B \in Nat /\ a < N /\ 2 * L + 2 * N + 12 =< B
    BY <2>1, <2>2, Sizes
  <2>4. k \in Int /\ L + N + 7 + k =< B /\ k >= 1 + 3 /\ k >= 2 + 3 + a
    BY <2>2, <2>3
  <2>5. Text \in Seq(Chars) /\ Len(Text) = 3
    BY WordChars
  <2>6. Fits(user_reply(<<"433">>, Text, n, Anybody).msg)
    <3>1. k >= 1 + Len(Text) /\ k >= 2 + Len(Text) + Len(n)
      BY <2>2, <2>4, <2>5
    <3>2. Len(servername) + NameSize + 7 + k =< BufferSize
      BY <2>2, <2>4
    <3>3. Short(Anybody) /\ Single(<<"433">>)
      BY ShortNames, CodesSingle
    <3>4. QED
      BY <2>4, <2>5, <3>1, <3>2, <3>3, UserReplyFits
  <2>7. QED
    BY <1>1, <1>5, <2>1, <2>6, OneFits, Wrote
<1>6. CASE Silent
  BY <1>1, <1>6 DEF Silent, UndefinedJustified
<1>7. QED
  BY <1>2, <1>3, <1>4, <1>5, <1>6 DEF NickRefused, UserRefused

\* The replies of a registration.
LEMMA WelcomeWrites ==
    ASSUME CommandsInv, NamedOK, NEW c \in Conn, Nick(c) \/ User(c)
    PROVE  UndefinedJustified'
<1>1. undefined = NULL /\ UNCHANGED sent /\ msg[c] # NULL
  BY DEF Nick, NickNew, User, UserNew, Dispatched, Handles, At, history
<1>2. Len(name(c)) < NameSize /\ nparams(c) # 0
  BY DEF Nick, NickNew, User, UserNew
<1>3. PICK n : n = name(c) /\ Short(n)
  BY <1>1, <1>2, GivenName, FittingShort DEF Fitting
<1>4. PICK v, w, x, y : /\ v = user_reply(<<"001">>, Text, NULL, n)
                        /\ w = user_reply(<<"002">>, Text, NULL, n)
                        /\ x = user_reply(<<"003">>, Text, NULL, n)
                        /\ y = MYINFO_reply(n)
  OBVIOUS
<1>5. Silent \/ Write(c, <<v, w, x, y>>)
  BY <1>3, <1>4 DEF Nick, User, StartWelcome, NoWelcome
<1>6. CASE Silent
  BY <1>1, <1>6 DEF Silent, UndefinedJustified
<1>7. CASE Write(c, <<v, w, x, y>>)
  <2>1. Fits(v.msg) /\ Fits(w.msg) /\ Fits(x.msg) /\ Fits(y.msg)
    BY <1>3, <1>4, CodesSingle, TextFits, MyInfoFits
  <2>2. AllFit(<<v, w, x, y>>)
    BY <2>1, FourFit
  <2>3. QED
    BY <1>1, <1>7, <2>2, Wrote
<1>8. QED
  BY <1>5, <1>6, <1>7

\* The other steps are taken only where nothing undefined has been met, and write nothing.
LEMMA Defined ==
    ASSUME NEW c \in Conn,
           \/ Accept(c) \/ LoadHead(c) \/ Pong(c) \/ HangUp(c) \/ Disconnect(c) \/ Bind(c)
           \/ WhoisTarget(c) \/ WhoisIgnored(c) \/ PrivmsgKnown(c) \/ UsersStart(c) \/ CountOne(c)
    PROVE  UndefinedJustified'
<1>1. undefined' = NULL
  <2>1. CASE Accept(c) \/ LoadHead(c) \/ Pong(c) \/ HangUp(c) \/ Disconnect(c) \/ Bind(c)
    BY <2>1 DEF Accept, LoadHead, Pong, HangUp, Disconnect, Bind, AtFind, At, Dispatched, Silent
  <2>2. CASE WhoisTarget(c) \/ WhoisIgnored(c) \/ PrivmsgKnown(c) \/ UsersStart(c) \/ CountOne(c)
    BY <2>2 DEF WhoisTarget, WhoisIgnored, PrivmsgKnown, UsersStart, CountOne, AtFind, At, Dispatched,
                Silent
  <2>3. QED
    BY <2>1, <2>2
<1>2. QED
  BY <1>1 DEF UndefinedJustified

-----------------------------------------------------------------------------
(* Only where a client goes beyond what the program handles *)

LEMMA UndefinedSame == UndefinedJustified /\ UNCHANGED vars => UndefinedJustified'
<1> SUFFICES ASSUME UndefinedJustified, UNCHANGED vars PROVE UndefinedJustified'
  OBVIOUS
<1>1. UNCHANGED <<undefined, sent, again, connections, pc>>
  BY DEF vars, tables, history
<1>2. \A c : SentBy(c)' = SentBy(c) /\ \A n : SentAs(c, n)' = SentAs(c, n)
  BY <1>1 DEF SentAs, SentBy
<1>3. \A c : NamesOf(c)' = NamesOf(c)
  BY <1>1 DEF NamesOf
<1>4. \A n : AskedTwice(n)' <=> AskedTwice(n)
  BY <1>1 DEF AskedTwice, Asking
<1>5. UNION {NamesOf(d)' : d \in Conn} = UNION {NamesOf(d) : d \in Conn}
  BY <1>3
<1>6. QED
  BY <1>1, <1>2, <1>3, <1>4, <1>5 DEF UndefinedJustified

\* Of the undefined behaviour that is in the module, each is met only where a client goes
\* beyond what the program handles (my_utils.h:252-262, main.c:261-272, 375-390, 784-787,
\* 802, 874, 954, message.c:90-110, 138).  The client itself: no command, more parameters
\* than there is room for or none at all, a name longer than its array, a WHOIS without
\* a nick.  Or any client: a second WHOIS of one nick, leaving while others are looking
\* up, and words so long, or a USER with so many parameters, that the reply they are
\* repeated in overflows.
THEOREM UndefinedJustifiedCorrect == Spec => []UndefinedJustified
<1>1. Init => UndefinedJustified
  BY DEF Init, UndefinedJustified
<1>2. CommandsInv /\ NamedOK /\ UndefinedJustified /\ [Next]_vars => UndefinedJustified'
  <2> SUFFICES ASSUME CommandsInv, NamedOK, UndefinedJustified, [Next]_vars
               PROVE  UndefinedJustified'
    OBVIOUS
  <2>1. CASE UNCHANGED vars
    BY <2>1, UndefinedSame
  <2>2. ASSUME NEW c \in Conn,
               \/ \E s \in Lines[c] : Receive(c, s)
               \/ FindUndefined(c) \/ WhoisNull(c) \/ WhoisUndefined(c)
               \/ NameUndefined(c) \/ NameTooLong(c)
        PROVE  UndefinedJustified'
    BY <2>2, LineUndefined, HeadUndefined, NickUndefined, MessageUndefined, NamesUndefined
  <2>3. ASSUME NEW c \in Conn,
               \/ response_PING(c) \/ MotdFound(c) \/ UnknownFound(c) \/ Quit(c)
               \/ WhoisNone(c) \/ WhoisUser(c) \/ WhoisFree(c) \/ PrivmsgUnknown(c)
        PROVE  UndefinedJustified'
    BY <2>3, PongWrites, MotdWrites, UnknownWrites, QuitWrites, WhoisNoneWrites, WhoisUserWrites,
       WhoisFreeWrites, PrivmsgWrites
  <2>4. ASSUME NEW c \in Conn,
               \/ UsersCounted(c) \/ UnknownCounted(c) \/ Clients(c)
               \/ NickRefused(c) \/ UserRefused(c) \/ Nick(c) \/ User(c)
        PROVE  UndefinedJustified'
    BY <2>4, CountWrites, RefusedWrites, WelcomeWrites
  <2>5. ASSUME NEW c \in Conn,
               \/ Accept(c) \/ LoadHead(c) \/ Pong(c) \/ HangUp(c) \/ Disconnect(c) \/ Bind(c)
               \/ WhoisTarget(c) \/ WhoisIgnored(c) \/ PrivmsgKnown(c) \/ UsersStart(c) \/ CountOne(c)
        PROVE  UndefinedJustified'
    BY <2>5, Defined
  <2>6. QED
    BY <2>1, <2>2, <2>3, <2>4, <2>5, Zenon DEF Next
<1>3. QED
  BY <1>1, <1>2, NamedInit, NamedStep, CommandsCorrect, PTL DEF Spec

=============================================================================
