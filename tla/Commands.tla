------------------------------- MODULE Commands -------------------------------
(***************************************************************************)
(* The commands of chirc: what subthread_work (main.c) does with a line,   *)
(* the replies it builds (message.c), and the tables it looks into.  One   *)
(* thread per connection; a step is one access to shared memory, or one    *)
(* critical section of my_utils.h.  Registry has the steps inside the      *)
(* list work of NICK and USER, which is one step here; Lifecycle has the   *)
(* descriptors, and here a connection keeps its own.                       *)
(*                                                                         *)
(* The words of the protocol are one character each (`Is`).  When the      *)
(* program has run into undefined behaviour, `undefined` says where, and   *)
(* nothing is claimed of what it does afterwards.                          *)
(***************************************************************************)
EXTENDS Integers, Sequences, FiniteSets, SequencesExt, Message

CONSTANTS
    Conn,       \* connections, each with its thread
    Lines,      \* the lines each client may send, as trim_space leaves them
    Common,     \* those the next two bounds tell from the others
    Texts,      \* the lines on which the parser alone is compared
    MaxLines,   \* bound: lines a client sends
    MaxOthers,  \* bound: lines sent in all that are not in Common
    NameSize,   \* the size of the array name of a node: 128 in the code
    BufferSize, \* the size of the array a reply is printed into: 1024 in the code
    servername, \* ctx->network.this_server->servername
    Motd        \* the lines of MOTD_FILE, or NULL when there is no such file

ASSUME LinesAssumption ==
    DOMAIN Lines = Conn /\ Texts \union UNION {Lines[c] : c \in Conn} \subseteq Seq(STRING)
ASSUME MaxLinesAssumption == MaxLines \in Nat /\ MaxOthers \in Nat
ASSUME NullAssumption == NULL \notin Conn \union Nat
ASSUME MessageAssumption ==
    \A c \in Conn : \A s \in Lines[c] : chirc_message_from_string(s) # NULL

\* What the server says of its own accord, of names that fit their arrays, fits the
\* buffer: 12 is what the fixed words of its longest reply take.
ASSUME BufferAssumption ==
    /\ ParamsSize \in Nat /\ ParamsSize >= 5
    /\ NameSize \in Nat /\ NameSize >= 2 /\ BufferSize \in Nat
    /\ servername \in Seq(STRING)
    /\ 2 * Len(servername) + 2 * NameSize + 12 =< BufferSize
    /\ Motd # NULL => /\ Motd \in Seq(Seq(STRING))
                      /\ \A i \in DOMAIN Motd :
                             Len(Motd[i]) + Len(servername) + NameSize + 12 =< BufferSize

VARIABLES
    nick_head,        \* the names in the list nick_head
    user_head,        \* the nodes of the list user_head
    connections,      \* connection_hash, in the order of insertion
    sockfdNick,       \* sockfd_nick_hash, in the order of insertion
    nodes,            \* nodes of sockfd_nick_hash allocated so far
    connection_count,
    pc,               \* where the thread of a connection is
    msg,              \* the message it handles, or NULL
    loaded,           \* the head of sockfd_nick_hash it passes to its next search
    self,             \* the nick that search has found for its descriptor, or NULL
    target,           \* WHOIS: index in connections of the nick asked for, or 0
    iter,             \* HASH_ITER: elements reached, and is there another one
    opened,           \* LUSERS: connection_count, when it has been loaded
    started,          \* LUSERS: how many descriptors had a nick when it started
    report,           \* the number the last step has reported, or NULL
    written,          \* the replies the last step has written
    sent,             \* the lines sent, as what the parser made of them
    again,            \* those sent more than once
    nlines,           \* how many lines a client has sent
    nothers,          \* how many of all lines were not in Common
    undefined         \* the undefined behaviour met, or NULL

tables == <<nick_head, user_head, connections, sockfdNick, nodes, connection_count>>
local == <<msg, loaded, self, target, iter, opened, started>>
output == <<written, report>>
history == <<sent, again, nlines, nothers>>
vars == <<tables, pc, local, output, history, undefined>>

-----------------------------------------------------------------------------
(* Commands *)

\* The words of the protocol, and the texts of the replies.
Letter == [PING |-> "I", PONG |-> "O", QUIT |-> "Q", LUSERS |-> "L", MOTD |-> "D",
           WHOIS |-> "W", PRIVMSG |-> "P", NICK |-> "N", USER |-> "U"]
Exact == {"PING", "PONG", "QUIT", "LUSERS", "MOTD", "WHOIS", "PRIVMSG"}

\* NICK and USER are compared as prefixes, after all others.
Is(cmd, name) == IF name \in Exact THEN cmd = <<Letter[name]>> ELSE cmd[1] = Letter[name]

Text == <<"t", SP, "t">>
Number == <<"0">>

params(c) == msg[c].params
nparams(c) == Len(params(c))
name(c) == params(c)[1]

\* The command at the head of the chain of comparisons that matches.
Known(c) == \E n \in DOMAIN Letter : Is(msg[c].cmd, n)
At(c, label) == pc[c] = label /\ undefined = NULL
Handles(c, n) == msg[c] # NULL /\ Is(msg[c].cmd, n)
Dispatched(c, n) == At(c, "dispatch") /\ Handles(c, n)

Goto(c, label) == pc' = [pc EXCEPT ![c] = label]

\* The handler is done; what it had in its local variables is gone.
Done(c) ==
    /\ Goto(c, "read")
    /\ msg' = [msg EXCEPT ![c] = NULL]
    /\ loaded' = [loaded EXCEPT ![c] = NULL]
    /\ self' = [self EXCEPT ![c] = NULL]
    /\ target' = [target EXCEPT ![c] = 0]
    /\ iter' = [iter EXCEPT ![c] = <<0, FALSE>>]
    /\ opened' = [opened EXCEPT ![c] = NULL]
    /\ started' = [started EXCEPT ![c] = 0]

Undefined(c, cause) ==
    /\ undefined' = [conn |-> c, cause |-> cause]
    /\ written' = <<>> /\ report' = NULL
    /\ UNCHANGED <<tables, pc, local, history>>

-----------------------------------------------------------------------------
(* Replies *)

\* How the twelve functions that build a reply begin: for a connection made up on
\* the spot, with the nick they are given.
reply(type, nick, code, ps) ==
    [nick |-> nick, code |-> code,
     msg |-> WithParams(
         chirc_message_construct_reply(servername, [type |-> type, name |-> nick], code), ps)]

user_reply(code, text, extra, nick) ==
    reply(CONN_TYPE_USER, nick, code,
          (IF extra = NULL THEN <<>> ELSE << <<extra, FALSE>> >>) \o << <<text, TRUE>> >>)
MYINFO_reply(nick) ==
    reply(CONN_TYPE_USER, nick, <<"004">>,
          [i \in 1..4 |-> <<IF i = 1 THEN servername ELSE <<"m">>, FALSE>>])
UNKNOWN_reply(nick, cmd) ==
    reply(CONN_TYPE_USER, nick, <<"421">>, << <<cmd, TRUE>>, <<Text, TRUE>> >>)
ENDOFWHOIS_reply(nick) ==
    reply(CONN_TYPE_USER, nick, <<"318">>, << <<nick, TRUE>>, <<Text, TRUE>> >>)
WHOISSERVER_reply(nick, asked) ==
    reply(CONN_TYPE_USER, nick, <<"312">>,
          << <<asked, FALSE>>, <<servername, FALSE>>, <<Text, TRUE>> >>)
WHOIS_reply(nick, user_msg) ==
    reply(CONN_TYPE_USER, nick, <<"311">>,
          << <<user_msg.cmd, FALSE>> >> \o
          [i \in 1..Len(user_msg.params) |->
              <<user_msg.params[i], i = Len(user_msg.params)>>])
NOSUCHNICK_reply(nick, asked) == user_reply(<<"401">>, Text, asked, nick)
PONG_reply == reply(CONN_TYPE_QUIT, <<>>, <<"PONG">>, << <<<<"x">>, FALSE>> >>)
QUIT_reply(text) == reply(CONN_TYPE_QUIT, <<>>, <<"ERROR">>, << <<text, TRUE>> >>)
MOTD_reply(code, text, nick) == user_reply(code, text, NULL, nick)
LUSERS_reply(code, text, extra, nick) == user_reply(code, text, extra, nick)

\* A message has room in the array of its parameters and, with CR LF and the NUL, in
\* the buffer it is printed into.  Neither is looked at.
Fits(m) ==
    Len(m.params) =< ParamsSize /\ Len(chirc_message_to_string(m)) + 3 =< BufferSize

WriteReport(c, replies, number) ==
    /\ report' = number
    /\ \/ /\ \A i \in 1..Len(replies) : Fits(replies[i].msg)
          /\ written' = [i \in 1..Len(replies) |-> [to |-> c, reply |-> replies[i]]]
          /\ UNCHANGED undefined
       \/ /\ \E i \in 1..Len(replies) : ~Fits(replies[i].msg)
          /\ undefined' = [conn |-> c, cause |-> "reply"]
          /\ written' = <<>>

Write(c, replies) == WriteReport(c, replies, NULL)
Silent == written' = <<>> /\ report' = NULL /\ UNCHANGED undefined

\* The nick of the last node of nick_head, or *.
get_least_user_node == IF nick_head = <<>> THEN Anybody ELSE Last(nick_head).name

\* What LUSERS and MOTD make of a descriptor without a nick.
NickOrEmpty(nick) == IF nick = NULL THEN <<>> ELSE nick

-----------------------------------------------------------------------------
(* A line arrives *)

Accept(c) ==
    /\ At(c, "none")
    /\ connection_count' = connection_count + 1
    /\ Goto(c, "read")
    /\ Silent
    /\ UNCHANGED <<nick_head, user_head, connections, sockfdNick, nodes, local, history>>

\* A line is read and parsed.  The result of the parser is not looked at: without a
\* command cmd is not assigned, and parameters may lie behind the end of their array.
Receive(c, s) ==
    LET m == chirc_message_from_string(s)
    IN  /\ At(c, "read")
        /\ nlines[c] < MaxLines
        /\ nlines' = [nlines EXCEPT ![c] = @ + 1]
        /\ nothers' = IF s \in Common THEN nothers ELSE nothers + 1
        /\ nothers' =< MaxOthers
        /\ sent' = sent \union {<<c, m>>}
        /\ again' = IF <<c, m>> \in sent THEN again \union {<<c, m>>} ELSE again
        /\ written' = <<>> /\ report' = NULL
        /\ \/ /\ m.rc = 0 /\ ~m.overflow
              /\ msg' = [msg EXCEPT ![c] = m]
              /\ Goto(c, "dispatch")
              /\ UNCHANGED undefined
           \/ /\ m.rc = -1
              /\ undefined' = [conn |-> c, cause |-> "command"]
              /\ UNCHANGED <<pc, msg>>
           \/ /\ m.rc = 0 /\ m.overflow
              /\ undefined' = [conn |-> c, cause |-> "params"]
              /\ UNCHANGED <<pc, msg>>
        /\ UNCHANGED <<tables, loaded, self, target, iter, opened, started>>

\* params[0] is printed to the log before anything else is looked at, whatever the
\* command; without a parameter it was never assigned.  What it leads to may also pass
\* for a text, and the thread goes on.
NameUndefined(c) ==
    /\ At(c, "dispatch") /\ msg[c] # NULL
    /\ nparams(c) = 0
    /\ Undefined(c, "name")

-----------------------------------------------------------------------------
(* The search for the nick of a descriptor, in two steps: the head of            *)
(* sockfd_nick_hash is passed by value, and the table is locked after that.      *)

NodesOf(c) == {i \in DOMAIN sockfdNick : sockfdNick[i].fd = c}

\* Who searches: a disconnection and these commands.
Searches(c) ==
    \/ pc[c] = "dispatch" /\ (Handles(c, "LUSERS") \/ Handles(c, "MOTD") \/ ~Known(c))
    \/ pc[c] = "whois"
    \/ pc[c] = "closing"

LoadHead(c) ==
    /\ Searches(c) /\ undefined = NULL
    /\ loaded' = [loaded EXCEPT ![c] = IF sockfdNick = <<>> THEN NULL ELSE sockfdNick[1].node]
    /\ Goto(c, IF pc[c] = "closing" THEN "delete" ELSE "find")
    /\ Silent
    /\ UNCHANGED <<tables, msg, self, target, iter, opened, started, history>>

Freed(c) == loaded[c] # NULL /\ \A i \in DOMAIN sockfdNick : sockfdNick[i].node # loaded[c]

AtFind(c, label) == At(c, label) /\ ~Freed(c)

\* The nicks that may be found, or NULL for none.  Several nodes may have the key, and
\* which is met first depends on how often the table has expanded: that turns the
\* chains round.
find_sockfd_nick_map_node(c) ==
    IF loaded[c] = NULL \/ NodesOf(c) = {} THEN {NULL}
    ELSE {sockfdNick[i].name : i \in NodesOf(c)}

FindUndefined(c) ==
    /\ At(c, "find") \/ At(c, "delete")
    /\ Freed(c)
    /\ Undefined(c, "head")

-----------------------------------------------------------------------------
(* PING, PONG, MOTD, commands nobody knows, QUIT and the end of a connection *)

response_PING(c) ==
    /\ Dispatched(c, "PING")
    /\ Write(c, <<PONG_reply>>)
    /\ Done(c)
    /\ UNCHANGED <<tables, history>>

Pong(c) ==
    /\ Dispatched(c, "PONG")
    /\ Silent
    /\ Done(c)
    /\ UNCHANGED <<tables, history>>

response_MOTD(nick, expect_motd) ==
    IF ~expect_motd \/ Motd = NULL THEN <<MOTD_reply(<<"422">>, Text, nick)>>
    ELSE <<user_reply(<<"375">>, Text, NULL, nick)>>
         \o [i \in 1..Len(Motd) |-> MOTD_reply(<<"372">>, Motd[i], nick)]
         \o <<MOTD_reply(<<"376">>, Text, nick)>>

MotdFound(c) ==
    /\ AtFind(c, "find") /\ Handles(c, "MOTD")
    /\ \E nick \in find_sockfd_nick_map_node(c) : Write(c, response_MOTD(NickOrEmpty(nick), TRUE))
    /\ Done(c)
    /\ UNCHANGED <<tables, history>>

UnknownFound(c) ==
    /\ AtFind(c, "find") /\ ~Known(c)
    /\ \E nick \in find_sockfd_nick_map_node(c) :
           Write(c, IF nick = NULL THEN <<>> ELSE <<UNKNOWN_reply(nick, msg[c].cmd)>>)
    /\ Done(c)
    /\ UNCHANGED <<tables, history>>

\* "Closing Link" and the reason: the only parameter, or a fixed one.
Closing(c) == get_least_user_node \o <<SP>> \o (IF nparams(c) = 1 THEN name(c) ELSE Text)

\* The descriptor is closed and the connection counted out; the thread goes on, and
\* its next read fails.
Quit(c) ==
    /\ Dispatched(c, "QUIT")
    /\ Write(c, <<QUIT_reply(Closing(c))>>)
    /\ connection_count' = connection_count - 1
    /\ msg' = [msg EXCEPT ![c] = NULL]
    /\ Goto(c, "closing")
    /\ UNCHANGED <<nick_head, user_head, connections, sockfdNick, nodes, loaded, self, target,
                   iter, opened, started, history>>

HangUp(c) ==
    /\ At(c, "read")
    /\ Goto(c, "closing")
    /\ Silent
    /\ UNCHANGED <<tables, local, history>>

\* The node found is deleted and freed, the descriptor closed and counted out.
Disconnect(c) ==
    /\ AtFind(c, "delete")
    /\ IF find_sockfd_nick_map_node(c) = {NULL} THEN UNCHANGED sockfdNick
       ELSE \E i \in NodesOf(c) : sockfdNick' = RemoveAt(sockfdNick, i)
    /\ connection_count' = connection_count - 1
    /\ msg' = [msg EXCEPT ![c] = NULL]
    /\ loaded' = [loaded EXCEPT ![c] = NULL]
    /\ Goto(c, "gone")
    /\ Silent
    /\ UNCHANGED <<nick_head, user_head, connections, nodes, self, target, iter, opened, started,
                   history>>

-----------------------------------------------------------------------------
(* WHOIS and PRIVMSG *)

Indices(n) == {i \in DOMAIN connections : connections[i].name = n}

\* 0 when there is none; a name is registered once.
find_connection_map_node(n) ==
    IF Indices(n) = {} THEN 0 ELSE CHOOSE i \in Indices(n) : TRUE

WhoisTarget(c) ==
    /\ Dispatched(c, "WHOIS") /\ nparams(c) = 1
    /\ target' = [target EXCEPT ![c] = find_connection_map_node(name(c))]
    /\ Goto(c, "whois")
    /\ Silent
    /\ UNCHANGED <<tables, msg, loaded, self, iter, opened, started, history>>

\* Any other number of parameters: no reply.
WhoisIgnored(c) ==
    /\ Dispatched(c, "WHOIS") /\ nparams(c) # 1
    /\ Silent
    /\ Done(c)
    /\ UNCHANGED <<tables, history>>

\* Both branches take the name of the node found, also when there is none.
WhoisNull(c) ==
    /\ AtFind(c, "find") /\ Handles(c, "WHOIS")
    /\ find_sockfd_nick_map_node(c) = {NULL}
    /\ Undefined(c, "nick")

WhoisNone(c) ==
    /\ AtFind(c, "find") /\ Handles(c, "WHOIS")
    /\ find_sockfd_nick_map_node(c) # {NULL} /\ target[c] = 0
    /\ \E nick \in find_sockfd_nick_map_node(c) : Write(c, <<NOSUCHNICK_reply(nick, name(c))>>)
    /\ Done(c)
    /\ UNCHANGED <<tables, history>>

\* The reply is built from the message kept in the node ...
WhoisUser(c) ==
    /\ AtFind(c, "find") /\ Handles(c, "WHOIS")
    /\ find_sockfd_nick_map_node(c) # {NULL} /\ target[c] # 0
    /\ connections[target[c]].live
    /\ \E nick \in find_sockfd_nick_map_node(c) :
           /\ self' = [self EXCEPT ![c] = nick]
           /\ Write(c, <<WHOIS_reply(nick, connections[target[c]].msg)>>)
    /\ Goto(c, "free")
    /\ UNCHANGED <<tables, msg, loaded, target, iter, opened, started, history>>

\* ... and that message is freed with the reply, but stays in the node.
WhoisFree(c) ==
    /\ At(c, "free")
    /\ connections[target[c]].live
    /\ connections' = [connections EXCEPT ![target[c]].live = FALSE]
    /\ Write(c, <<WHOISSERVER_reply(self[c], name(c)), ENDOFWHOIS_reply(self[c])>>)
    /\ Done(c)
    /\ UNCHANGED <<nick_head, user_head, sockfdNick, nodes, connection_count, history>>

\* Read after it was freed, or freed a second time.
WhoisUndefined(c) ==
    /\ \/ AtFind(c, "find") /\ Handles(c, "WHOIS") /\ find_sockfd_nick_map_node(c) # {NULL}
       \/ At(c, "free")
    /\ target[c] # 0 /\ ~connections[target[c]].live
    /\ Undefined(c, "message")

\* Nothing is delivered: the receiver is only looked up.
PrivmsgKnown(c) ==
    /\ Dispatched(c, "PRIVMSG")
    /\ nparams(c) > 0 => find_connection_map_node(name(c)) # 0
    /\ Silent
    /\ Done(c)
    /\ UNCHANGED <<tables, history>>

PrivmsgUnknown(c) ==
    /\ Dispatched(c, "PRIVMSG")
    /\ nparams(c) > 0 => find_connection_map_node(name(c)) = 0
    /\ Write(c, <<user_reply(<<"451">>, Text, NULL, get_least_user_node)>>)
    /\ Done(c)
    /\ UNCHANGED <<tables, history>>

-----------------------------------------------------------------------------
(* LUSERS, the command and the part of a registration, which counts the clients  *)
(* three times, with no mutex held                                               *)

Registering(c) == Handles(c, "NICK") \/ Handles(c, "USER")

\* Mutant: the second element is not looked for, as in the third count.
IterStartShort == IF connections = <<>> THEN <<0, FALSE>> ELSE <<1, FALSE>>

\* HASH_ITER has the current element and the one behind it, read before the body.
IterStart == IF connections = <<>> THEN <<0, FALSE>> ELSE <<1, Len(connections) >= 2>>
IterNext(it) == <<it[1] + 1, Len(connections) >= it[1] + 2>>

UsersStart(c) ==
    /\ \/ At(c, "users") /\ UNCHANGED self
       \/ /\ AtFind(c, "find") /\ Handles(c, "LUSERS")
          /\ \E nick \in find_sockfd_nick_map_node(c) :
                 self' = [self EXCEPT ![c] = NickOrEmpty(nick)]
    /\ iter' = [iter EXCEPT ![c] = IterStart]
    /\ started' = [started EXCEPT ![c] = Len(sockfdNick)]
    /\ Goto(c, "users_iter")
    /\ Silent
    /\ UNCHANGED <<tables, msg, loaded, target, opened, history>>

CountOne(c) ==
    /\ At(c, "users_iter") \/ At(c, "unknown_iter")
    /\ iter[c][2]
    /\ iter' = [iter EXCEPT ![c] = IterNext(iter[c])]
    /\ Silent
    /\ UNCHANGED <<tables, pc, msg, loaded, self, target, opened, started, history>>

\* The second count is subtracted from connection_count; which operand is evaluated
\* first is not specified.
UsersCounted(c) ==
    /\ At(c, "users_iter") /\ ~iter[c][2]
    /\ WriteReport(c, <<LUSERS_reply(<<"251">>, Text, NULL, self[c]),
                        LUSERS_reply(<<"252">>, Text, Number, self[c])>>,
                   [what |-> "users", number |-> iter[c][1], since |-> started[c]])
    /\ iter' = [iter EXCEPT ![c] = IterStart]
    /\ \/ opened' = [opened EXCEPT ![c] = connection_count]
       \/ UNCHANGED opened
    /\ Goto(c, "unknown_iter")
    /\ UNCHANGED <<tables, msg, loaded, self, target, started, history>>

UnknownCounted(c) ==
    LET open == IF opened[c] = NULL THEN connection_count ELSE opened[c]
        unknown_cnt == open - iter[c][1]
    IN  /\ At(c, "unknown_iter") /\ ~iter[c][2]
        /\ WriteReport(c, <<LUSERS_reply(<<"253">>, Text, Number, self[c]),
                            LUSERS_reply(<<"254">>, Text, Number, self[c])>>,
                       [what |-> "unknown", number |-> unknown_cnt, since |-> open])
        /\ Goto(c, "clients")
        /\ UNCHANGED <<tables, local, history>>

\* The third count is meant for sockfd_nick_hash, but it is given connection_hash, in
\* whose nodes the handle lies eight bytes further on: what it follows as `next` is
\* the `prev` of the first node, which is NULL.
get_sockfd_nick_map_node_size == IF connections = <<>> THEN 0 ELSE 1

\* A registration goes on with a MOTD that is never there.
Clients(c) ==
    LET me == LUSERS_reply(<<"255">>, Text, NULL, self[c])
        number == [what |-> "clients", number |-> get_sockfd_nick_map_node_size,
                   since |-> started[c]]
    IN  /\ At(c, "clients")
        /\ \/ /\ Registering(c)
              /\ WriteReport(c, <<me>> \o response_MOTD(self[c], FALSE), number)
              /\ Goto(c, "bind")
              /\ UNCHANGED local
           \/ /\ ~Registering(c)
              /\ WriteReport(c, <<me>>, number)
              /\ Done(c)
        /\ UNCHANGED <<tables, history>>

-----------------------------------------------------------------------------
(* NICK and USER *)

find_user_node(l, n) == \E i \in DOMAIN l : l[i].name = n
user_node(n) == user_head[CHOOSE i \in DOMAIN user_head :
                              user_head[i].name = n /\ \A j \in 1..(i - 1) : user_head[j].name # n]

\* Mutant: the fd of the new node is not assigned.
StartWelcomeNoFd(c, m) ==
    /\ connections' = Append(connections, [name |-> name(c), fd |-> NULL, msg |-> m, live |-> TRUE])
    /\ Silent
    /\ self' = [self EXCEPT ![c] = name(c)]
    /\ Goto(c, "users")
    /\ UNCHANGED <<msg, loaded, target, iter, opened, started>>

\* add_connection_map_node, and the replies up to the counts of LUSERS.
StartWelcome(c, m) ==
    /\ connections' = Append(connections, [name |-> name(c), fd |-> c, msg |-> m, live |-> TRUE])
    /\ Write(c, <<user_reply(<<"001">>, Text, NULL, name(c)), user_reply(<<"002">>, Text, NULL, name(c)),
                  user_reply(<<"003">>, Text, NULL, name(c)), MYINFO_reply(name(c))>>)
    /\ self' = [self EXCEPT ![c] = name(c)]
    /\ Goto(c, "users")
    /\ UNCHANGED <<msg, loaded, target, iter, opened, started>>

NoWelcome(c) == Silent /\ Done(c) /\ UNCHANGED connections

\* The parameters counted wrongly, or a name that is taken.
NickRefused(c) ==
    LET inUse == nparams(c) = 1 /\ find_connection_map_node(name(c)) # 0
    IN  /\ Dispatched(c, "NICK")
        /\ \/ /\ nparams(c) = 0
              /\ Write(c, <<user_reply(<<"431">>, Text, NULL, get_least_user_node)>>)
           \/ /\ inUse
              /\ Write(c, <<user_reply(<<"433">>, Text, name(c), Anybody)>>)
           \/ /\ nparams(c) > 1 \/ (nparams(c) = 1 /\ ~inUse /\ find_user_node(nick_head, name(c)))
              /\ Silent
        /\ Done(c)
        /\ UNCHANGED <<tables, history>>

NickNew(c) ==
    /\ Dispatched(c, "NICK") /\ nparams(c) = 1
    /\ find_connection_map_node(name(c)) = 0 /\ ~find_user_node(nick_head, name(c))

Nick(c) ==
    /\ NickNew(c) /\ Len(name(c)) < NameSize
    /\ nick_head' = Append(nick_head, [name |-> name(c)])
    /\ IF find_user_node(user_head, name(c))
       THEN StartWelcome(c, user_node(name(c)).msg)
       ELSE NoWelcome(c)
    /\ UNCHANGED <<user_head, sockfdNick, nodes, connection_count, history>>

UserRefused(c) ==
    /\ Dispatched(c, "USER")
    /\ \/ /\ nparams(c) < 4
          /\ Write(c, <<user_reply(<<"461">>, Text, <<"USER">>, get_least_user_node)>>)
       \/ /\ nparams(c) >= 4 /\ find_user_node(user_head, name(c))
          /\ Silent
    /\ Done(c)
    /\ UNCHANGED <<tables, history>>

UserNew(c) ==
    Dispatched(c, "USER") /\ nparams(c) >= 4 /\ ~find_user_node(user_head, name(c))

User(c) ==
    LET m == [cmd |-> msg[c].cmd, params |-> params(c)]
    IN  /\ UserNew(c) /\ Len(name(c)) < NameSize
        /\ user_head' = Append(user_head, [name |-> name(c), msg |-> m])
        /\ IF find_user_node(nick_head, name(c)) /\ nparams(c) = 4
           THEN StartWelcome(c, m)
           ELSE NoWelcome(c)
        /\ UNCHANGED <<nick_head, sockfdNick, nodes, connection_count, history>>

\* The name is copied into the array of the node whatever its length.
NameTooLong(c) ==
    /\ NickNew(c) \/ UserNew(c)
    /\ Len(name(c)) >= NameSize
    /\ Undefined(c, "size")

\* Mutant: only the NICK branch binds the descriptor.
BindNick(c) ==
    /\ At(c, "bind")
    /\ sockfdNick' = IF Handles(c, "USER") THEN sockfdNick
                     ELSE Append(sockfdNick, [fd |-> c, name |-> self[c], node |-> nodes])
    /\ nodes' = nodes + 1
    /\ Silent
    /\ Done(c)
    /\ UNCHANGED <<nick_head, user_head, connections, connection_count, history>>

\* The descriptor gets its nick.
Bind(c) ==
    /\ At(c, "bind")
    /\ sockfdNick' = Append(sockfdNick, [fd |-> c, name |-> self[c], node |-> nodes])
    /\ nodes' = nodes + 1
    /\ Silent
    /\ Done(c)
    /\ UNCHANGED <<nick_head, user_head, connections, connection_count, history>>

-----------------------------------------------------------------------------
Init ==
    /\ nick_head = <<>> /\ user_head = <<>>
    /\ connections = <<>> /\ sockfdNick = <<>> /\ nodes = 0
    /\ connection_count = 0
    /\ pc = [c \in Conn |-> "none"]
    /\ msg = [c \in Conn |-> NULL]
    /\ loaded = [c \in Conn |-> NULL]
    /\ self = [c \in Conn |-> NULL]
    /\ target = [c \in Conn |-> 0]
    /\ iter = [c \in Conn |-> <<0, FALSE>>]
    /\ opened = [c \in Conn |-> NULL]
    /\ started = [c \in Conn |-> 0]
    /\ written = <<>> /\ report = NULL
    /\ sent = {} /\ again = {} /\ nlines = [c \in Conn |-> 0] /\ nothers = 0
    /\ undefined = NULL

Next ==
    \E c \in Conn :
        \/ Accept(c) \/ (\E s \in Lines[c] : Receive(c, s)) \/ NameUndefined(c)
        \/ LoadHead(c) \/ FindUndefined(c)
        \/ response_PING(c) \/ Pong(c) \/ MotdFound(c) \/ UnknownFound(c)
        \/ Quit(c) \/ HangUp(c) \/ Disconnect(c)
        \/ WhoisTarget(c) \/ WhoisIgnored(c) \/ WhoisNull(c) \/ WhoisNone(c)
        \/ WhoisUser(c) \/ WhoisFree(c) \/ WhoisUndefined(c)
        \/ PrivmsgKnown(c) \/ PrivmsgUnknown(c)
        \/ UsersStart(c) \/ CountOne(c) \/ UsersCounted(c) \/ UnknownCounted(c) \/ Clients(c)
        \/ NickRefused(c) \/ Nick(c) \/ UserRefused(c) \/ User(c) \/ NameTooLong(c)
        \/ Bind(c)

Spec == Init /\ [][Next]_vars

-----------------------------------------------------------------------------
(* What the properties speak of *)

PCs == {"none", "read", "dispatch", "find", "whois", "free", "users", "users_iter",
        "unknown_iter", "clients", "bind", "closing", "delete", "gone"}

Leaving == {"closing", "delete", "gone"}
Left == \E c \in Conn : pc[c] \in Leaving

\* The lines c has sent that could be parsed, and those of them with the command n.
SentBy(c) == {p[2] : p \in {q \in sent : q[1] = c /\ q[2].rc = 0}}
SentAs(c, n) == {m \in SentBy(c) : Is(m.cmd, n)}

\* The names a connection has registered.
NamesOf(c) == {connections[i].name : i \in {j \in DOMAIN connections : connections[j].fd = c}}

Asking(n) ==
    {p \in sent : /\ p[2].rc = 0 /\ Is(p[2].cmd, "WHOIS")
                  /\ Len(p[2].params) = 1 /\ p[2].params[1] = n}

\* WHOIS n has been sent twice.
AskedTwice(n) ==
    LET asking == Asking(n)
    IN  (\E p, q \in asking : p # q) \/ asking \intersect again # {}

\* What a client makes of a reply is what it was built from.
ReadsAs(read, m) ==
    read.rc = 0 /\ read.prefix = m.prefix /\ read.cmd = m.cmd /\ read.params = m.params

Reads(m) == ReadsAs(chirc_message_from_string(chirc_message_to_string(m)), m)

\* A message that leaves no room for what a reply adds to its words: the server, a nick
\* and some fixed words, which are shorter here than in the code.
Crowds(m) ==
    Len(chirc_message_to_string([m EXCEPT !.prefix = NULL])) + Len(servername) + NameSize + 12
        > BufferSize

\* Some client has used a command or a name that is not one plain word, or has sent a
\* USER with an empty parameter, or with a space or a colon in one but the last.
OddWords ==
    \E c \in Conn :
        \/ \E m \in SentBy(c) : ~Plain(m.cmd)
        \/ \E m \in SentAs(c, "USER") : \E i \in 1..(Len(m.params) - 1) : ~Plain(m.params[i])
        \/ \E m \in SentAs(c, "NICK") \union SentAs(c, "WHOIS") :
               m.params # <<>> /\ ~Plain(m.params[1])

ParsesAs(s) ==
    LET m == chirc_message_from_string(s)
    IN  WellSpaced(s) /\ m.rc = 0 => IsMessage(s, m)

-----------------------------------------------------------------------------
(* Properties *)

\* Every variable has its type.
TypeOK ==
    /\ \A i \in DOMAIN connections : /\ connections[i].fd \in Conn
                                     /\ connections[i].live \in BOOLEAN
    /\ \A i \in DOMAIN sockfdNick : /\ sockfdNick[i].fd \in Conn
                                    /\ sockfdNick[i].node \in 0..(nodes - 1)
    /\ nodes \in Nat
    /\ nlines \in [Conn -> 0..MaxLines] /\ nothers \in 0..MaxOthers
    /\ connection_count \in Int
    /\ pc \in [Conn -> PCs]
    /\ loaded \in [Conn -> Nat \union {NULL}]
    /\ target \in [Conn -> 0..Len(connections)]
    /\ iter \in [Conn -> (0..Len(connections)) \X BOOLEAN]
    /\ opened \in [Conn -> Int \union {NULL}]
    /\ started \in [Conn -> 0..nodes]
    /\ \A p \in sent : p[1] \in Conn /\ p[2].rc \in {0, -1}
    /\ again \subseteq sent

\* A line without double spaces is taken apart the way the grammar of messages says:
\* prefix, command and parameters print as the same line, and none but the last
\* parameter is empty, begins with a colon or holds a space (message.c:13-84).
ParsesAsGrammar ==
    sent = {} => \A s \in Texts \union UNION {Lines[c] : c \in Conn} : ParsesAs(s)

\* A reply reaches its client as the prefix, the code and the parameters it was built
\* from, and names a nick that client has registered, or *.  The exceptions: LUSERS and
\* MOTD leave the nick out for a client without one, four error replies name the last
\* nick of anyone, and a name or a command that is not a plain word may be echoed
\* (main.c:230-718, message.c:88-182).
RepliesRead ==
    \A i \in DOMAIN written :
        LET r == written[i].reply
        IN  /\ Reads(r.msg) \/ OddWords \/ (r.nick = <<>> /\ NamesOf(written[i].to) = {})
            /\ \/ r.nick \in NamesOf(written[i].to) \union {Anybody, <<>>}
               \/ r.code \in {<<"431">>, <<"451">>, <<"461">>}

\* The numbers of LUSERS, counted while other clients register and leave: not fewer users
\* than had a nick when it began, not more than are registered at its end; a negative
\* number of unknown connections only when a client has left, has registered twice or
\* came after connection_count was read; and never more than one client
\* (main.c:584-611, my_utils.h:230-241, 294-305).
LusersCounts ==
    report # NULL =>
        CASE report.what = "users" -> report.number \in report.since..Len(connections)
          [] report.what = "unknown" ->
                report.number < 0 =>
                    \/ Left
                    \/ \E c \in Conn : Cardinality(NamesOf(c)) > 1
                    \/ report.since < Cardinality({c \in Conn : pc[c] # "none"})
          [] report.what = "clients" ->
                report.number =< 1 /\ (report.since > 0 => report.number = 1)

\* Of the undefined behaviour that is in this module, each is met only where a client
\* goes beyond what the program handles.  The client itself: no command, more parameters
\* than there is room for, no parameter at all, a name longer than its array, a WHOIS
\* without a nick.  Or any client: a WHOIS of one nick for the second time, leaving
\* while others are looking up, and a message so long, or a USER with so many
\* parameters, that the reply it is repeated in overflows
\* (my_utils.h:252-262, main.c:261-272, 375-390, 784-787, 802, 874, 954, message.c:90-110,
\* 138).
UndefinedJustified ==
    undefined # NULL =>
        LET c == undefined.conn
        IN  CASE undefined.cause = "command" -> \E p \in sent : p[1] = c /\ p[2].rc = -1
              [] undefined.cause = "params" -> \E m \in SentBy(c) : Len(m.params) > ParamsSize
              [] undefined.cause = "name" -> \E m \in SentBy(c) : Len(m.params) = 0
              [] undefined.cause = "size" ->
                    \E m \in SentAs(c, "NICK") \union SentAs(c, "USER") :
                        Len(m.params) # 0 /\ Len(m.params[1]) >= NameSize
              [] undefined.cause = "nick" -> NamesOf(c) = {}
              [] undefined.cause = "message" -> \E n \in UNION {NamesOf(d) : d \in Conn} : AskedTwice(n)
              [] undefined.cause = "head" -> \E d \in Conn \ {c} : pc[d] = "gone"
              [] undefined.cause = "reply" ->
                    \/ \E m \in SentBy(c) : Crowds(m)
                    \/ \E d \in Conn : \E m \in SentAs(d, "USER") :
                           Crowds(m) \/ Len(m.params) + 2 > ParamsSize

=============================================================================
