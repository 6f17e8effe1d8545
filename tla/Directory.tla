------------------------------- MODULE Directory -------------------------------
(***************************************************************************)
(* What the context promises (ctx.h, channel.h, channeluser.h, user.h):    *)
(* users and channels found by name while they are listed, a relation of   *)
(* users in channels, sets of modes, and counts of all of them.            *)
(***************************************************************************)
EXTENDS Integers, FiniteSets

CONSTANTS NULL, User, Channel, Nick, Name, Socket, Mode, OPER

VARIABLES
    people,   \* the users there are, listed or not
    rooms,    \* the channels there are, listed or not
    members,  \* the modes of a user in a channel, or NULL outside of it
    open,     \* the type of the connection of a socket, or NULL
    counts,   \* the numbers users of the context may ask for
    state     \* up, freed, or aborted by a failed assertion

vars == <<people, rooms, members, open, counts, state>>

Listed(things) == {x \in DOMAIN things : things[x] # NULL /\ things[x].listed}

In(k) == {u \in User : members[k, u] # NULL}
Of(u) == {k \in Channel : members[k, u] # NULL}

Tally ==
    [users |-> Cardinality({u \in Listed(people) : people[u].registered}),
     ops |-> Cardinality({u \in Listed(people) : OPER \in people[u].modes}),
     channels |-> Cardinality(Listed(rooms)),
     unknown |-> Cardinality({s \in Socket : open[s] = "unknown"}),
     in |-> [k \in Channel |-> Cardinality(In(k))],
     of |-> [u \in User |-> Cardinality(Of(u))]]

Up == state = "up" /\ counts' = Tally'

-----------------------------------------------------------------------------
ChangePeople == Up /\ UNCHANGED <<rooms, members, open, state>>
ChangeRooms == Up /\ UNCHANGED <<people, members, open, state>>
ChangeMembers == Up /\ UNCHANGED <<people, rooms, open, state>>
ChangeOpen == Up /\ UNCHANGED <<people, rooms, members, state>>

AddUser(u, n) ==
    /\ people[u] = NULL
    /\ \A v \in Listed(people) : people[v].nick # n
    /\ people' = [people EXCEPT ![u] = [nick |-> n, registered |-> FALSE, modes |-> {},
                                        listed |-> TRUE]]

RemoveUser(u) == u \in Listed(people) /\ people' = [people EXCEPT ![u].listed = FALSE]

\* A user is freed after it has been removed from the context and from its channels ...
FreeUser(u) ==
    /\ people[u] # NULL /\ u \notin Listed(people) /\ Of(u) = {}
    /\ people' = [people EXCEPT ![u] = NULL]

Register(u) == u \in Listed(people) /\ people' = [people EXCEPT ![u].registered = TRUE]

AddChannel(k, n) ==
    /\ rooms[k] = NULL
    /\ \A l \in Listed(rooms) : rooms[l].name # n
    /\ rooms' = [rooms EXCEPT ![k] = [name |-> n, modes |-> {}, listed |-> TRUE]]

RemoveChannel(k) == k \in Listed(rooms) /\ rooms' = [rooms EXCEPT ![k].listed = FALSE]

\* ... and a channel after its last user has left.
FreeChannel(k) ==
    /\ rooms[k] # NULL /\ k \notin Listed(rooms) /\ In(k) = {}
    /\ rooms' = [rooms EXCEPT ![k] = NULL]

Join(k, u) ==
    /\ k \in Listed(rooms) /\ u \in Listed(people) /\ members[k, u] = NULL
    /\ members' = [members EXCEPT ![<<k, u>>] = {}]

Leave(k, u) == members[k, u] # NULL /\ members' = [members EXCEPT ![<<k, u>>] = NULL]

AddConnection(s) == open[s] = NULL /\ open' = [open EXCEPT ![s] = "unknown"]
RemoveConnection(s) == open[s] # NULL /\ open' = [open EXCEPT ![s] = NULL]
Identify(s) == open[s] = "unknown" /\ \E t \in {"user", "server"} : open' = [open EXCEPT ![s] = t]

\* One more mode or one less.
Changed(modes, m) == {modes \union {m}, modes \ {m}}

UserMode(u, m) ==
    people[u] # NULL /\ \E ms \in Changed(people[u].modes, m) : people' = [people EXCEPT ![u].modes = ms]
ChannelMode(k, m) ==
    rooms[k] # NULL /\ \E ms \in Changed(rooms[k].modes, m) : rooms' = [rooms EXCEPT ![k].modes = ms]
MemberMode(k, u, m) ==
    members[k, u] # NULL /\ \E ms \in Changed(members[k, u], m) : members' = [members EXCEPT ![<<k, u>>] = ms]

-----------------------------------------------------------------------------
\* Freed too early: a user that is removed but still in a channel, a channel that is
\* removed but not empty, or the context while a listed user is in a channel.
Abort ==
    /\ state = "up"
    /\ \/ \E u \in User : people[u] # NULL /\ Of(u) # {}
       \/ \E k \in Channel : rooms[k] # NULL /\ k \notin Listed(rooms) /\ In(k) # {}
    /\ state' = "aborted"
    /\ UNCHANGED <<people, rooms, members, open, counts>>

\* Nothing is listed any more.
End ==
    /\ \A u \in Listed(people) : Of(u) = {}
    /\ people' = [u \in User |-> IF people[u] = NULL THEN NULL ELSE [people[u] EXCEPT !.listed = FALSE]]
    /\ rooms' = [k \in Channel |-> IF rooms[k] = NULL THEN NULL ELSE [rooms[k] EXCEPT !.listed = FALSE]]
    /\ open' = [s \in Socket |-> NULL]
    /\ state' = "freed"
    /\ Up /\ UNCHANGED members

Init ==
    /\ people = [u \in User |-> NULL] /\ rooms = [k \in Channel |-> NULL]
    /\ members = [p \in Channel \X User |-> NULL] /\ open = [s \in Socket |-> NULL]
    /\ counts = Tally /\ state = "up"

Next ==
    \/ /\ ChangePeople
       /\ \E u \in User :
              \/ RemoveUser(u) \/ FreeUser(u) \/ Register(u)
              \/ \E n \in Nick : AddUser(u, n)
              \/ \E m \in Mode : UserMode(u, m)
    \/ /\ ChangeRooms
       /\ \E k \in Channel :
              \/ RemoveChannel(k) \/ FreeChannel(k)
              \/ \E n \in Name : AddChannel(k, n)
              \/ \E m \in Mode : ChannelMode(k, m)
    \/ /\ ChangeMembers
       /\ \E k \in Channel, u \in User :
              Join(k, u) \/ Leave(k, u) \/ \E m \in Mode : MemberMode(k, u, m)
    \/ /\ ChangeOpen
       /\ \E s \in Socket : AddConnection(s) \/ RemoveConnection(s) \/ Identify(s)
    \/ Abort
    \/ End

Spec == Init /\ [][Next]_vars

=============================================================================
