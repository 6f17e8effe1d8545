------------------------------- MODULE Registry -------------------------------
(***************************************************************************)
(* Registration in chirc: the NICK and USER branches of subthread_work     *)
(* (main.c), run by one thread per connection over shared structures: the  *)
(* linked lists nick_head and user_head and the hash tables                *)
(* connection_hash (nick -> fd) and sockfd_nick_hash (fd -> nick).         *)
(*                                                                         *)
(* A step is one access to shared memory.  What my_utils.h does under a    *)
(* mutex is one step; the list heads are read and written by main.c with   *)
(* no mutex held, so their loads and stores are steps of their own.  A     *)
(* store to a head is a data race: it waits in the storing core's buffer   *)
(* (`pending`) and other threads see it when it drains (FlushHead), at the *)
(* latest before that thread's next mutex operation.                       *)
(*                                                                         *)
(* Connections neither open nor close here (see Lifecycle): a connection   *)
(* stands for its thread and for its file descriptor.                      *)
(***************************************************************************)
EXTENDS Naturals, Sequences, FiniteSets

CONSTANTS
    Conn,       \* connections: one thread and one descriptor each
    Name,       \* the first parameters of NICK and USER lines
    None,       \* the NULL pointer
    UserArity,  \* the numbers of parameters a USER line may carry
    MaxLines    \* bound: lines the connections send in all

ASSUME NoneAssumption == None \notin Conn
ASSUME ArityAssumption == UserArity \subseteq Nat
ASSUME MaxLinesAssumption == MaxLines \in Nat

VARIABLES
    head,        \* head[l]: the connection that allocated the head node of l
    chain,       \* chain[l][r]: the nodes linked from the head node r allocated
    pending,     \* pending[c]: c's store to a head is still in its buffer
    loaded,      \* loaded[c]: the head pointer c loaded for its next call
    pc,          \* where c's thread is in the branch of its last line
    connections, \* connection_hash, in the order of insertion
    sockfdNick,  \* sockfd_nick_hash, in the order of insertion
    sent,        \* sent[c]: the lines c's thread has read
    overlapped   \* names two handlers have been working on at the same time

vars == <<head, chain, pending, loaded, pc, connections, sockfdNick, sent,
          overlapped>>

\* The two lists, each named for the command whose branch adds to it.
List == {"NICK", "USER"}
OtherList(l) == IF l = "NICK" THEN "USER" ELSE "NICK"

Line == [cmd : List, name : Name, nparams : Nat]
Node == [name : Name, nparams : Nat]
Entry == [name : Name, fd : Conn]

PC == {"idle", "load", "find", "test", "append", "load_other", "find_other",
       "register", "bind"}

-----------------------------------------------------------------------------
(* The helpers of my_utils.h *)

current(c) == sent[c][Len(sent[c])]

LinesSent == Cardinality({p \in Conn \X (1..MaxLines) : p[2] =< Len(sent[p[1]])})

\* find_user_node: the chain starting at the loaded head holds the name
find_user_node(l, r, n) ==
    r # None /\ \E i \in DOMAIN chain[l][r] : chain[l][r][i].name = n

\* add_user_node: link the node behind the last one of the chain
add_user_node(l, r, node) ==
    chain' = [chain EXCEPT ![l][r] = Append(@, node)]

\* HASH_ADD_STR, HASH_ADD_INT: insert, whether or not the key is there already
add_connection_map_node(entry) == connections' = Append(connections, entry)
add_sockfd_nick_map_node(entry) == sockfdNick' = Append(sockfdNick, entry)

find_connection_map_node(n) ==
    \E i \in DOMAIN connections : connections[i].name = n

-----------------------------------------------------------------------------
(* The steps the two branches share, for the list l *)

Goto(c, label) == pc' = [pc EXCEPT ![c] = label]

At(c, l, label) == pc[c] = label /\ current(c).cmd = l

NodeOf(c) == [name |-> current(c).name, nparams |-> current(c).nparams]

\* The thread reads its next line.  Other threads inside a branch for the same
\* name are remembered: the branches are not atomic.
Receive(c, line) ==
    /\ pc[c] = "idle"
    /\ LinesSent < MaxLines
    /\ sent' = [sent EXCEPT ![c] = Append(@, line)]
    /\ overlapped' =
         IF \E d \in Conn \ {c} : pc[d] # "idle" /\ current(d).name = line.name
         THEN overlapped \union {line.name}
         ELSE overlapped
    /\ UNCHANGED <<head, chain, pending, loaded, connections, sockfdNick>>

\* Evaluate the argument of find_user_node(head of l, name).  A NULL head holds
\* no name, whatever happens to the list before the call takes its mutex.
LoadOwn(c, l) ==
    /\ At(c, l, "load")
    /\ loaded' = [loaded EXCEPT ![c] = head[l]]
    /\ Goto(c, IF head[l] = None THEN "test" ELSE "find")
    /\ UNCHANGED <<head, chain, pending, connections, sockfdNick, sent, overlapped>>

\* The name is there already: the line is dropped without a reply.
FindOwn(c, l) ==
    /\ At(c, l, "find")
    /\ Goto(c, IF find_user_node(l, loaded[c], current(c).name) THEN "idle" ELSE "test")
    /\ UNCHANGED <<head, chain, pending, loaded, connections, sockfdNick, sent,
                   overlapped>>

\* Test the head.  NULL: the new node becomes the head, by a plain store.
\* Otherwise the head is the argument of add_user_node.
TestHead(c, l) ==
    /\ At(c, l, "test")
    /\ \/ /\ head[l] = None
          /\ chain' = [chain EXCEPT ![l][c] = <<NodeOf(c)>>]
          /\ pending' = [pending EXCEPT ![c] = TRUE]
          /\ Goto(c, "load_other")
          /\ UNCHANGED loaded
       \/ /\ head[l] # None
          /\ loaded' = [loaded EXCEPT ![c] = head[l]]
          /\ Goto(c, "append")
          /\ UNCHANGED <<chain, pending>>
    /\ UNCHANGED <<head, connections, sockfdNick, sent, overlapped>>

AppendNode(c, l) ==
    /\ At(c, l, "append")
    /\ add_user_node(l, loaded[c], NodeOf(c))
    /\ Goto(c, "load_other")
    /\ UNCHANGED <<head, pending, loaded, connections, sockfdNick, sent, overlapped>>

\* Evaluate the argument of find_user_node(head of the other list, name).
LoadOther(c, l) ==
    /\ At(c, l, "load_other")
    /\ loaded' = [loaded EXCEPT ![c] = head[OtherList(l)]]
    /\ Goto(c, "find_other")
    /\ UNCHANGED <<head, chain, pending, connections, sockfdNick, sent, overlapped>>

\* Look for the other half of the registration.  Taking the mutex drains the
\* store buffer first.  A match that is not `accepted` ends the branch.
FindOther(c, l, accepted) ==
    /\ At(c, l, "find_other")
    /\ ~pending[c]
    /\ Goto(c, IF find_user_node(OtherList(l), loaded[c], current(c).name) /\ accepted
               THEN "register" ELSE "idle")
    /\ UNCHANGED <<head, chain, pending, loaded, connections, sockfdNick, sent,
                   overlapped>>

\* The nick is in use from here on, then the welcome replies are sent.
Register(c, l) ==
    /\ At(c, l, "register")
    /\ add_connection_map_node([name |-> current(c).name, fd |-> c])
    /\ Goto(c, "bind")
    /\ UNCHANGED <<head, chain, pending, loaded, sockfdNick, sent, overlapped>>

\* After the replies, the descriptor is bound to the nick.
Bind(c, l) ==
    /\ At(c, l, "bind")
    /\ add_sockfd_nick_map_node([name |-> current(c).name, fd |-> c])
    /\ Goto(c, "idle")
    /\ UNCHANGED <<head, chain, pending, loaded, connections, sent, overlapped>>

-----------------------------------------------------------------------------
(* Faulty variants of the steps below: the properties must tell them apart *)

\* The head is tested on the pointer loaded for the search before.
NickTestStale(c) ==
    /\ At(c, "NICK", "test")
    /\ IF loaded[c] = None
       THEN /\ chain' = [chain EXCEPT !["NICK"][c] = <<NodeOf(c)>>]
            /\ pending' = [pending EXCEPT ![c] = TRUE]
            /\ Goto(c, "load_other")
       ELSE Goto(c, "append") /\ UNCHANGED <<chain, pending>>
    /\ UNCHANGED <<head, loaded, connections, sockfdNick, sent, overlapped>>

\* The result of the search for the own half is not tested.
NickFindIgnored(c) ==
    /\ At(c, "NICK", "find")
    /\ Goto(c, "test")
    /\ UNCHANGED <<head, chain, pending, loaded, connections, sockfdNick, sent, overlapped>>

UserFindIgnored(c) ==
    /\ At(c, "USER", "find")
    /\ Goto(c, "test")
    /\ UNCHANGED <<head, chain, pending, loaded, connections, sockfdNick, sent, overlapped>>

\* The test for four parameters, copied into the NICK branch.
NickFindOtherArity(c) == FindOther(c, "NICK", current(c).nparams = 4)

\* The descriptor is bound before the nick is in use.
NickRegisterLate(c) ==
    /\ At(c, "NICK", "register")
    /\ add_sockfd_nick_map_node([name |-> current(c).name, fd |-> c])
    /\ Goto(c, "bind")
    /\ UNCHANGED <<head, chain, pending, loaded, connections, sent, overlapped>>

\* The fd field of the new entry is not assigned.
UserRegisterNoFd(c) ==
    /\ At(c, "USER", "register")
    /\ add_connection_map_node([name |-> current(c).name, fd |-> None])
    /\ Goto(c, "bind")
    /\ UNCHANGED <<head, chain, pending, loaded, sockfdNick, sent, overlapped>>

\* One parameter too few is let through.
UserLineShort(c, n, k) ==
    /\ Receive(c, [cmd |-> "USER", name |-> n, nparams |-> k])
    /\ Goto(c, IF k < 3 THEN "idle" ELSE "load")

-----------------------------------------------------------------------------
(* The NICK branch (one parameter: other arities change nothing) *)

\* A nick in connection_hash is refused with ERR_NICKNAMEINUSE.
NickLine(c, n) ==
    /\ Receive(c, [cmd |-> "NICK", name |-> n, nparams |-> 1])
    /\ Goto(c, IF find_connection_map_node(n) THEN "idle" ELSE "load")

NickLoad(c)      == LoadOwn(c, "NICK")
NickFind(c)      == FindOwn(c, "NICK")
NickTest(c)      == TestHead(c, "NICK")
NickAppend(c)    == AppendNode(c, "NICK")
NickLoadOther(c) == LoadOther(c, "NICK")
NickFindOther(c) == FindOther(c, "NICK", TRUE)
NickRegister(c)  == Register(c, "NICK")
NickBind(c)      == Bind(c, "NICK")

(* The USER branch *)

\* Fewer than four parameters: ERR_NEEDMOREPARAMS, and nothing is kept.
UserLine(c, n, k) ==
    /\ Receive(c, [cmd |-> "USER", name |-> n, nparams |-> k])
    /\ Goto(c, IF k < 4 THEN "idle" ELSE "load")

UserLoad(c)      == LoadOwn(c, "USER")
UserFind(c)      == FindOwn(c, "USER")
UserTest(c)      == TestHead(c, "USER")
UserAppend(c)    == AppendNode(c, "USER")
UserLoadOther(c) == LoadOther(c, "USER")
\* This branch registers on exactly four parameters; NICK takes any USER node.
UserFindOther(c) == FindOther(c, "USER", current(c).nparams = 4)
UserRegister(c)  == Register(c, "USER")
UserBind(c)      == Bind(c, "USER")

\* The buffered store to the head of the thread's list reaches memory.
FlushHead(c) ==
    /\ pending[c]
    /\ head' = [head EXCEPT ![current(c).cmd] = c]
    /\ pending' = [pending EXCEPT ![c] = FALSE]
    /\ UNCHANGED <<chain, loaded, pc, connections, sockfdNick, sent, overlapped>>

-----------------------------------------------------------------------------
Init ==
    /\ head = [l \in List |-> None]
    /\ chain = [l \in List |-> [c \in Conn |-> <<>>]]
    /\ pending = [c \in Conn |-> FALSE]
    /\ loaded = [c \in Conn |-> None]
    /\ pc = [c \in Conn |-> "idle"]
    /\ connections = <<>>
    /\ sockfdNick = <<>>
    /\ sent = [c \in Conn |-> <<>>]
    /\ overlapped = {}

NickStep(c) ==
    \/ NickLoad(c) \/ NickFind(c) \/ NickTest(c) \/ NickAppend(c)
    \/ NickLoadOther(c) \/ NickFindOther(c) \/ NickRegister(c) \/ NickBind(c)

UserStep(c) ==
    \/ UserLoad(c) \/ UserFind(c) \/ UserTest(c) \/ UserAppend(c)
    \/ UserLoadOther(c) \/ UserFindOther(c) \/ UserRegister(c) \/ UserBind(c)

Next ==
    \E c \in Conn :
        \/ \E n \in Name : NickLine(c, n)
        \/ \E n \in Name, k \in UserArity : UserLine(c, n, k)
        \/ NickStep(c)
        \/ UserStep(c)
        \/ FlushHead(c)

Spec == Init /\ [][Next]_vars

-----------------------------------------------------------------------------
(* What the properties speak of *)

Quiescent == \A c \in Conn : pc[c] = "idle"

\* Some line c has sent gives the name to the command.
Said(c, cmd, n) == \E i \in DOMAIN sent[c] : sent[c][i].cmd = cmd /\ sent[c][i].name = n

\* c named n itself, and both halves of n have been sent.
Submitted(n, c) ==
    /\ \/ Said(c, "NICK", n)
       \/ \E j \in DOMAIN sent[c] : /\ sent[c][j].cmd = "USER"
                                    /\ sent[c][j].name = n
                                    /\ sent[c][j].nparams = 4
    /\ \E d \in Conn : Said(d, "NICK", n)
    /\ \E d \in Conn : \E j \in DOMAIN sent[d] : /\ sent[d][j].cmd = "USER"
                                                 /\ sent[d][j].name = n
                                                 /\ sent[d][j].nparams >= 4

\* The nodes a later find_user_node can reach.
Reachable(l) == IF head[l] = None THEN <<>> ELSE chain[l][head[l]]

Half(l, n) == \E i \in DOMAIN Reachable(l) : Reachable(l)[i].name = n

IsHead(l, n) == Reachable(l) # <<>> /\ Reachable(l)[1].name = n

\* c's store to the head of l is still in its buffer.
Storing(c, l) == pending[c] /\ current(c).cmd = l

\* A head node was replaced by another thread's, and its chain is unreachable.
HeadLost(l) == \E c \in Conn : chain[l][c] # <<>> /\ head[l] # c /\ ~Storing(c, l)

\* The head is visible to everyone, and no thread is about to replace it.
Settled(l) == head[l] # None /\ \A c \in Conn : ~Storing(c, l)

-----------------------------------------------------------------------------
(* Properties *)

\* Every variable has its type.
TypeOK ==
    /\ head \in [List -> Conn \union {None}]
    /\ chain \in [List -> [Conn -> Seq(Node)]]
    /\ pending \in [Conn -> BOOLEAN]
    /\ loaded \in [Conn -> Conn \union {None}]
    /\ pc \in [Conn -> PC]
    /\ connections \in Seq(Entry)
    /\ sockfdNick \in Seq(Entry)
    /\ sent \in [Conn -> Seq(Line)]
    /\ overlapped \in SUBSET Name

\* A nick is registered for a connection only if that connection named it in a
\* NICK, or in a USER of exactly four parameters, and both halves have been sent
\* with that name, the USER one with at least four parameters: whatever two
\* handlers interleave, find_user_node never finds a half nobody submitted
\* (main.c:887-912, 983-1009).
RegistrationSound ==
    \A i \in DOMAIN connections : Submitted(connections[i].name, connections[i].fd)

\* A descriptor is bound to a nick in sockfd_nick_hash only while connection_hash
\* holds that nick for that descriptor: the replies of LUSERS, MOTD and WHOIS,
\* which start from sockfd_nick_hash, never name a nick that is still free
\* (main.c:911-933, 1008-1030).
BoundIsRegistered ==
    \A i \in DOMAIN sockfdNick : \E j \in DOMAIN connections :
        connections[j] = sockfdNick[i]

\* Once no handler is running, a name whose two halves are both in the lists is
\* registered, unless its USER half has more than four parameters, or one of
\* the halves heads its list.  Each handler publishes its half before it looks
\* for the other one, so at least one of two concurrent handlers sees both;
\* only the unlocked store of a head can still be in flight when the other
\* list is read (main.c:880-887, 976-983).
NoStrandedName ==
    Quiescent =>
        \A n \in Name :
            Half("NICK", n) /\ Half("USER", n) =>
                \/ find_connection_map_node(n)
                \/ \E i \in DOMAIN Reachable("USER") :
                      Reachable("USER")[i].name = n /\ Reachable("USER")[i].nparams # 4
                \/ IsHead("NICK", n) \/ IsHead("USER", n)

\* connection_hash holds a nick twice only if two handlers overlapped on that
\* nick, or a lost head of user_head made the USER branch run again for a nick
\* that is already registered: that branch never looks into connection_hash
\* (main.c:940-1009).
UniqueNick ==
    \A i, j \in DOMAIN connections :
        i # j /\ connections[i].name = connections[j].name =>
            connections[i].name \in overlapped \/ HeadLost("USER")

\* A name occurs twice in a list only if two handlers overlapped on it: the check
\* and the insertion are two critical sections (main.c:870-884, 940-980), but a
\* name added again after its node was lost does not come back twice.
UniqueNode ==
    \A l \in List : \A i, j \in DOMAIN Reachable(l) :
        i # j /\ Reachable(l)[i].name = Reachable(l)[j].name =>
            Reachable(l)[i].name \in overlapped

\* The race on a head is confined to its first lines: once a head is visible and
\* no store to it is in flight, it never changes again, whatever the threads do,
\* so a node linked behind it stays findable (main.c:878-884, 974-980).
SettledStays ==
    [][\A l \in List : Settled(l) => Settled(l)' /\ head'[l] = head[l]]_vars

-----------------------------------------------------------------------------
(* What the tests and docs say of registration, which the code does not keep *)

\* Welcome only after the connection itself has sent both NICK and USER.
WelcomeNeedsBothCommands ==
    \A i \in DOMAIN connections :
        LET c == connections[i].fd
        IN  /\ \E j \in DOMAIN sent[c] : sent[c][j].cmd = "NICK"
            /\ \E j \in DOMAIN sent[c] : sent[c][j].cmd = "USER"

\* A connection whose lines are NICK n and then USER n, while no other
\* connection uses the name n, ends up registered.
OwnNameRegisters ==
    Quiescent =>
        \A c \in Conn, n \in Name :
            /\ sent[c] = << [cmd |-> "NICK", name |-> n, nparams |-> 1],
                            [cmd |-> "USER", name |-> n, nparams |-> 4] >>
            /\ \A d \in Conn \ {c} : ~Said(d, "NICK", n) /\ ~Said(d, "USER", n)
            => \E i \in DOMAIN connections : connections[i] = [name |-> n, fd |-> c]

=============================================================================
