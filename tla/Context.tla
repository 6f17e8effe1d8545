-------------------------------- MODULE Context --------------------------------
(***************************************************************************)
(* The server context (ctx.c) with what hangs on it: users, channels, the  *)
(* connections, and channelusers, each of which is in two tables at once,  *)
(* that of its channel and that of its user (channeluser.c).  StartUp      *)
(* initialises the context and fills in the network; the commands that     *)
(* would use the rest are still to be written in this server, so that a    *)
(* user of the library may be any of them: it calls the functions in any   *)
(* order their headers allow, and frees what it has removed.               *)
(*                                                                         *)
(* A table is the sequence of its items, as module HashTable shows.  The   *)
(* modes arrays of ten bytes are sequences; Mode has fewer members.        *)
(***************************************************************************)
EXTENDS StartUp

CONSTANTS
    User,      \* places for chirc_user_t
    Channel,   \* places for chirc_channel_t
    Nick,      \* nicks of users
    Name,      \* names of channels
    Socket,    \* sockets of connections
    Mode,      \* letters of modes
    OPER,      \* the letter 'o'
    MaxSize,   \* bound: users, channels, connections, channelusers and modes in all
    MaxServers \* bound: servers in the table while the library is called

ModesSize == 10

ASSUME ModeAssumption == OPER \in Mode /\ IsFiniteSet(Mode) /\ Cardinality(Mode) < ModesSize
ASSUME BoundAssumption == MaxSize \in Nat /\ MaxServers \in Nat
ASSUME PlacesAssumption == NULL \notin User \union Channel \union Nick \union Name

\* The structs; the tables in them are sequences of channelusers.
chirc_user_t ==
    [nick : Nick, registered : BOOLEAN, modes : Seq(Mode), channels : Seq(Channel \X User)]
chirc_channel_t == [name : Name, modes : Seq(Mode), users : Seq(Channel \X User)]
chirc_channeluser_t == Seq(Mode)
chirc_connection_t == [type : {"unknown", "user", "server"}, socket : Socket]

ASSUME StructsAssumption ==
    /\ NULL \notin chirc_user_t /\ NULL \notin chirc_channel_t /\ NULL \notin chirc_channeluser_t
    /\ NULL \notin chirc_connection_t /\ NULL \notin Channel \X User

VARIABLES
    users,        \* ctx->users, a table keyed by nick
    channels,     \* ctx->channels, keyed by name
    connections,  \* ctx->connections, keyed by socket
    user,         \* the structs at the places, or NULL
    channel,
    channeluser   \* one place for each channel and user

tables == <<users, channels, connections>>
heap == <<user, channel, channeluser>>
vars == <<startVars, tables, heap>>

-----------------------------------------------------------------------------
(* utils.c *)

has_mode(modes, m) == Contains(modes, m)
set_mode(modes, m) == IF has_mode(modes, m) THEN modes ELSE Append(modes, m)

\* Mutant: the array ends where the mode was.
remove_modeCut(modes, m) ==
    IF has_mode(modes, m) THEN SubSeq(modes, 1, SelectInSeq(modes, LAMBDA x : x = m) - 1)
    ELSE modes

\* The modes behind m move up.
remove_mode(modes, m) ==
    IF has_mode(modes, m) THEN RemoveAt(modes, SelectInSeq(modes, LAMBDA x : x = m)) ELSE modes

-----------------------------------------------------------------------------
(* Queries *)

\* The item leaves the table, and the others keep their order.
HASH_DELETE(table, x) == RemoveAt(table, CHOOSE i \in DOMAIN table : table[i] = x)

chirc_user_init == [nick |-> NULL, registered |-> FALSE, modes |-> <<>>, channels |-> <<>>]
chirc_channel_init == [name |-> NULL, modes |-> <<>>, users |-> <<>>]
chirc_connection_init == [type |-> "unknown", socket |-> NULL]

chirc_user_is_oper(u) == has_mode(user[u].modes, OPER)
chirc_user_num_channels(u) == Len(user[u].channels)
chirc_channel_num_users(k) == Len(channel[k].users)

\* A loop over a table that counts the items that pass the test.
Count(table, Test(_)) == Cardinality({i \in DOMAIN table : Test(table[i])})

chirc_ctx_numusers == Count(users, LAMBDA u : user[u].registered)
chirc_ctx_numchannels == Len(channels)
chirc_ctx_numops == Count(users, chirc_user_is_oper)
chirc_ctx_unknown_connections == Count(connections, LAMBDA c : c.type = "unknown")

\* The first item that passes the test, or NULL.
Found(table, Test(_)) ==
    LET at == SelectInSeq(table, Test) IN IF at = 0 THEN NULL ELSE table[at]

chirc_ctx_get_user(nick) == Found(users, LAMBDA u : user[u].nick = nick)
chirc_ctx_get_channel(name) == Found(channels, LAMBDA k : channel[k].name = name)
chirc_channeluser_get(k, u) == Found(channel[k].users, LAMBDA cu : cu[2] = u)

-----------------------------------------------------------------------------
(* Users, channels and connections *)

UserPlaces == {u \in User : user[u] # NULL}
ChannelPlaces == {k \in Channel : channel[k] # NULL}
Members == {p \in Channel \X User : channeluser[p] # NULL}

\* A call to the library while the server runs.
Running == phase = "running" /\ Len(servers) =< MaxServers
Call == Running /\ UNCHANGED startVars

\* One that may allocate something.
Room ==
    Cardinality(UserPlaces) + Cardinality(ChannelPlaces) + Cardinality(Members) + Len(connections)
    + MapThenSumSet(LAMBDA u : Len(user[u].modes), UserPlaces)
    + MapThenSumSet(LAMBDA k : Len(channel[k].modes), ChannelPlaces)
    + MapThenSumSet(LAMBDA p : Len(channeluser[p]), Members) < MaxSize

chirc_ctx_add_user(u, nick) ==
    /\ user[u] = NULL
    /\ user' = [user EXCEPT ![u] = [chirc_user_init EXCEPT !.nick = nick]]
    /\ users' = Append(users, u)
    /\ UNCHANGED <<channels, connections, channel, channeluser>>

\* A user of the library asks for the nick first, or leaves that to
\* chirc_ctx_get_or_create_user, which returns the user it has found.
AddUser(u, nick) ==
    Call /\ Room /\ chirc_ctx_get_user(nick) = NULL /\ chirc_ctx_add_user(u, nick)

RemoveUser(u) ==
    /\ Call /\ Contains(users, u)
    /\ users' = HASH_DELETE(users, u)
    /\ UNCHANGED <<channels, connections, heap>>

\* The asserts of chirc_user_free and chirc_channel_free abort the program.
Abort ==
    /\ phase' = "aborted"
    /\ UNCHANGED <<args, opts, lines, servers, this_server, tables, heap>>

FreeUser(u) ==
    /\ Running /\ user[u] # NULL /\ ~Contains(users, u)
    /\ \/ user[u].channels # <<>> /\ Abort
       \/ /\ user[u].channels = <<>> /\ UNCHANGED <<startVars, tables, channel, channeluser>>
          /\ user' = [user EXCEPT ![u] = NULL]

chirc_ctx_add_channel(k, name) ==
    /\ channel[k] = NULL
    /\ channel' = [channel EXCEPT ![k] = [chirc_channel_init EXCEPT !.name = name]]
    /\ channels' = Append(channels, k)
    /\ UNCHANGED <<users, connections, user, channeluser>>

AddChannel(k, name) ==
    Call /\ Room /\ chirc_ctx_get_channel(name) = NULL /\ chirc_ctx_add_channel(k, name)

RemoveChannel(k) ==
    /\ Call /\ Contains(channels, k)
    /\ channels' = HASH_DELETE(channels, k)
    /\ UNCHANGED <<users, connections, heap>>

FreeChannel(k) ==
    /\ Running /\ channel[k] # NULL /\ ~Contains(channels, k)
    /\ \/ channel[k].users # <<>> /\ Abort
       \/ /\ channel[k].users = <<>> /\ UNCHANGED <<startVars, tables, user, channeluser>>
          /\ channel' = [channel EXCEPT ![k] = NULL]

AddConnection(s) ==
    /\ Call /\ Room /\ Found(connections, LAMBDA c : c.socket = s) = NULL
    /\ connections' = Append(connections, [chirc_connection_init EXCEPT !.socket = s])
    /\ UNCHANGED <<users, channels, heap>>

\* Removed, and freed with it.
RemoveConnection(i) ==
    /\ Call
    /\ connections' = RemoveAt(connections, i)
    /\ UNCHANGED <<users, channels, heap>>

\* Fields the library leaves to its users: a user has registered, and the connection
\* of a user or a server is known as one.
Register(u) ==
    /\ Call /\ Contains(users, u) /\ ~user[u].registered
    /\ user' = [user EXCEPT ![u].registered = TRUE]
    /\ UNCHANGED <<tables, channel, channeluser>>

Identify(i) ==
    /\ Call /\ connections[i].type = "unknown"
    /\ \E t \in {"user", "server"} : connections' = [connections EXCEPT ![i].type = t]
    /\ UNCHANGED <<users, channels, heap>>

-----------------------------------------------------------------------------
(* Users in channels *)

chirc_channeluser_get_or_create(k, u) ==
    /\ Call /\ Room /\ Contains(channels, k) /\ Contains(users, u)
    /\ IF chirc_channeluser_get(k, u) # NULL THEN UNCHANGED heap
       ELSE /\ channeluser' = [channeluser EXCEPT ![<<k, u>>] = <<>>]
            /\ user' = [user EXCEPT ![u].channels = Append(@, <<k, u>>)]
            /\ channel' = [channel EXCEPT ![k].users = Append(@, <<k, u>>)]
    /\ UNCHANGED tables

\* Mutant: the table of the user is forgotten.
chirc_channeluser_removeHalf(k, u) ==
    /\ channel' = [channel EXCEPT ![k].users = HASH_DELETE(@, <<k, u>>)]
    /\ UNCHANGED user

chirc_channeluser_remove(k, u) ==
    /\ channel' = [channel EXCEPT ![k].users = HASH_DELETE(@, <<k, u>>)]
    /\ user' = [user EXCEPT ![u].channels = HASH_DELETE(@, <<k, u>>)]

\* The struct is freed once it has been removed from both tables.
Leave(k, u) ==
    /\ Call /\ channeluser[<<k, u>>] # NULL
    /\ chirc_channeluser_remove(k, u)
    /\ channeluser' = [channeluser EXCEPT ![<<k, u>>] = NULL]
    /\ UNCHANGED tables

-----------------------------------------------------------------------------
(* Modes of users, of channels and of users in channels *)

SetMode(m) ==
    /\ Call /\ Room
    /\ \/ /\ \E u \in UserPlaces : user' = [user EXCEPT ![u].modes = set_mode(@, m)]
          /\ UNCHANGED <<channel, channeluser>>
       \/ /\ \E k \in ChannelPlaces : channel' = [channel EXCEPT ![k].modes = set_mode(@, m)]
          /\ UNCHANGED <<user, channeluser>>
       \/ /\ \E p \in Members : channeluser' = [channeluser EXCEPT ![p] = set_mode(@, m)]
          /\ UNCHANGED <<user, channel>>
    /\ UNCHANGED tables

RemoveMode(m) ==
    /\ Call
    /\ \/ /\ \E u \in UserPlaces : user' = [user EXCEPT ![u].modes = remove_mode(@, m)]
          /\ UNCHANGED <<channel, channeluser>>
       \/ /\ \E k \in ChannelPlaces : channel' = [channel EXCEPT ![k].modes = remove_mode(@, m)]
          /\ UNCHANGED <<user, channeluser>>
       \/ /\ \E p \in Members : channeluser' = [channeluser EXCEPT ![p] = remove_mode(@, m)]
          /\ UNCHANGED <<user, channel>>
    /\ UNCHANGED tables

-----------------------------------------------------------------------------
(* The end, and the whole *)

\* Users are freed first, with the assert of chirc_user_free, then the tables are
\* cleared; the structs stay allocated.  In network mode the table of connections is
\* cleared twice and that of the servers not at all.
chirc_ctx_free ==
    /\ phase = "running"
    /\ \/ (\E u \in ToSet(users) : user[u].channels # <<>>) /\ Abort
       \/ /\ \A u \in ToSet(users) : user[u].channels = <<>>
          /\ phase' = "freed"
          /\ users' = <<>> /\ channels' = <<>> /\ connections' = <<>>
          /\ UNCHANGED <<args, opts, lines, servers, this_server, heap>>

\* chirc_ctx_init; nothing is allocated yet.
Init ==
    /\ StartInit
    /\ users = <<>> /\ channels = <<>> /\ connections = <<>>
    /\ user = [u \in User |-> NULL]
    /\ channel = [k \in Channel |-> NULL]
    /\ channeluser = [p \in Channel \X User |-> NULL]

Start == StartNext /\ UNCHANGED <<tables, heap>>

Next ==
    \/ Start
    \/ \E u \in User, n \in Nick : AddUser(u, n)
    \/ \E u \in User : RemoveUser(u)
    \/ \E u \in User : FreeUser(u)
    \/ \E u \in User : Register(u)
    \/ \E k \in Channel, n \in Name : AddChannel(k, n)
    \/ \E k \in Channel : RemoveChannel(k)
    \/ \E k \in Channel : FreeChannel(k)
    \/ \E k \in Channel, u \in User : chirc_channeluser_get_or_create(k, u)
    \/ \E k \in Channel, u \in User : Leave(k, u)
    \/ \E s \in Socket : AddConnection(s)
    \/ \E i \in DOMAIN connections : RemoveConnection(i)
    \/ \E i \in DOMAIN connections : Identify(i)
    \/ \E m \in Mode : SetMode(m)
    \/ \E m \in Mode : RemoveMode(m)
    \/ chirc_ctx_free

Spec == Init /\ [][Next]_vars

-----------------------------------------------------------------------------
(* Properties *)

Distinct(table) == Cardinality(ToSet(table)) = Len(table)

\* Each channeluser is once in the table of its channel and once in that of its user, and
\* the tables hold nothing else; what the tables lead to has not been freed; and no two
\* users have a nick, no two channels a name in common (channeluser.c:71-104, ctx.c:157-261).
TablesAgree ==
    /\ \A k \in Channel, u \in User :
           channeluser[<<k, u>>] # NULL <=>
               /\ channel[k] # NULL /\ Contains(channel[k].users, <<k, u>>)
               /\ user[u] # NULL /\ Contains(user[u].channels, <<k, u>>)
    /\ \A k \in ChannelPlaces :
           /\ Distinct(channel[k].users)
           /\ \A p \in ToSet(channel[k].users) : p[1] = k /\ channeluser[p] # NULL
    /\ \A u \in UserPlaces :
           /\ Distinct(user[u].channels)
           /\ \A p \in ToSet(user[u].channels) : p[2] = u /\ channeluser[p] # NULL
    /\ ToSet(users) \subseteq UserPlaces /\ ToSet(channels) \subseteq ChannelPlaces
    /\ Distinct([i \in DOMAIN users |-> user[users[i]].nick])
    /\ Distinct([i \in DOMAIN channels |-> channel[channels[i]].name])

\* What a user of the context sees of it, as module Directory has it.
people ==
    [u \in User |->
        IF user[u] = NULL THEN NULL
        ELSE [nick |-> user[u].nick, registered |-> user[u].registered,
              modes |-> ToSet(user[u].modes), listed |-> Contains(users, u)]]

rooms ==
    [k \in Channel |->
        IF channel[k] = NULL THEN NULL
        ELSE [name |-> channel[k].name, modes |-> ToSet(channel[k].modes),
              listed |-> Contains(channels, k)]]

members ==
    [p \in Channel \X User |-> IF channeluser[p] = NULL THEN NULL ELSE ToSet(channeluser[p])]

TypeIn(table, s) ==
    LET c == Found(table, LAMBDA x : x.socket = s) IN IF c = NULL THEN NULL ELSE c.type

open == [s \in Socket |-> TypeIn(connections, s)]

counts ==
    [users |-> chirc_ctx_numusers, ops |-> chirc_ctx_numops,
     channels |-> chirc_ctx_numchannels, unknown |-> chirc_ctx_unknown_connections,
     in |-> [k \in Channel |-> IF channel[k] = NULL THEN 0 ELSE chirc_channel_num_users(k)],
     of |-> [u \in User |-> IF user[u] = NULL THEN 0 ELSE chirc_user_num_channels(u)]]

state == IF phase \in {"freed", "aborted"} THEN phase ELSE "up"

\* NULL is none of the values of Directory's variables.
ASSUME DirectoryAssumption ==
    /\ NULL \notin [nick : Nick, registered : BOOLEAN, modes : SUBSET Mode, listed : BOOLEAN]
    /\ NULL \notin [name : Name, modes : SUBSET Mode, listed : BOOLEAN]
    /\ \A modes \in SUBSET Mode : modes # NULL
    /\ NULL \notin {"unknown", "user", "server"}

Abstract == INSTANCE Directory

\* The context is a directory of users, channels and who is in which, with sets of modes
\* and counts that are always right (ctx.h, channel.h, channeluser.h, user.h, utils.h).
ImplementsDirectory == Abstract!Spec

=============================================================================
