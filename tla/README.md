# Verification of chirc

chirc is an IRC server in C: one process, an accept loop, and one detached thread
per connection that parses lines and answers them. All of that is in `src/main.c`,
`src/message.c` and `include/my_utils.h`. `src/ctx.c`, `channel*.c`, `user.c`,
`server.c`, `connection.c` and `handlers.c` are the data model of a larger server, of
which the running one uses the network file and `this_server`. Strings come from the
vendored sds library, tables from the vendored uthash. (Paths below are relative to
the repository.)

## Inventory

| Component | State | Operations | Hard behaviour |
|---|---|---|---|
| Registration (`main.c` 847-1034) | lists `nick_head`, `user_head`; hashes `connection_hash` (nick -> fd), `sockfd_nick_hash` (fd -> nick) | NICK, USER | all threads share the tables; a mutex per call, none across calls, none for the heads |
| Connection life cycle (`main.c` 64-70, 715-754, 796-813, 1070-1142) | descriptors, threads, `connection_count`, `is_running`, `sockfd_nick_hash` | accept, read, QUIT, disconnection, SIGINT, clean-up | reuse of descriptor numbers, QUIT without leaving the loop, SIGPIPE, EMFILE, `pthread_create` unchecked |
| Shared tables (`my_utils.h`) | as above and three mutexes | add, find, delete, size | find and delete are separate critical sections; the head is passed by value before the mutex is taken |
| Receive buffer (`main.c` 203-228, 730-786) | `buf`, `pos`, `temp_command`, `full_command` | read, cut a line, `trim_space` | fragments, several lines in one read, handlers that print into `buf`, a full buffer, NUL bytes |
| Commands and replies (`main.c` 230-713, 798-1042) | messages stored in `connection_hash` nodes | PING, PONG, WHOIS, PRIVMSG, LUSERS, MOTD, QUIT, unknown | lifetime of stored messages, counts read while others write, replies that name somebody else or overflow their buffer |
| Messages (`message.c`) | prefix, command, parameters | parse, build, print | number of parameters, result ignored |
| Start-up (`main.c` 75-201, `ctx.c` 286-350) | options, table of servers, `this_server` | read options, load the network file | a file checked while the table is filled |
| Context (`ctx.c`, `channel.c`, `channeluser.c`, `user.c`, `server.c`, `utils.c`) | tables of users, channels, connections; memberships; modes | add, get or create, remove, free, count | a membership is in two tables; asserts when something is freed too early |
| Strings (`lib/sds`) | header of one of five types, bytes | append, trim, cut, print, split, join, quote | growth from one header type to another, indices out of range |
| Tables (`lib/uthash`) | items in two linkings, buckets | add, insert in order, replace, delete, find, sort, iterate, clear | expansion, deletion in six cases, the tail, deletion while iterating |
| Handlers, log, `utils_list.h` | none | none that the program calls | none |

Correctness, component by component. *Registration*: a nick is registered once, for
a connection that asked for it; a client that sends both halves is registered; a
bound descriptor has a registered nick. *Life cycle*: no descriptor leaks, no thread
serves another's client, a node dies once and with its connection, the count is
right, hung-up clients are reaped, SIGINT stops the server. *Receive buffer*: the
lines handled are the lines sent. *Commands*: what a client reads is what was meant,
for the right client; the numbers reported agree; no stored message is used after
it is freed. *Messages*: a line is taken apart the way the grammar says. *Start-up*:
a file is loaded exactly when it is well formed. *Context*: both tables of each
membership agree and the counts count. *Strings*: the header tells the truth about
the memory. *Tables*: links, counts and buckets agree and are invisible.

## Plan

Done: `Registry` (the two branches of a registration at the grain of shared-memory
accesses), `Lifecycle` (accept loop, threads, descriptors, failures), `ReceiveBuffer`
against the abstract `Framing`, `Message`, `Commands`, `StartUp` and `Context` against
the abstract `Directory`, `Sds` against `ByteString`, `HashTable` against
`OrderedItems`; theorems for every invariant and every action property of these, and for
the four refinements, but for what the last paragraph of *Proofs* names.

Left, in this order:

1. A proof of the invariant that is only model-checked: `RepliesRead`.
2. The clean-up of lists and mutexes against running threads.

## Modules

**`Registry.tla`** has one thread per connection. `pc[c]` says where the thread is
in the branch of its last line; an action is one critical section of
`my_utils.h`, or one load or store of a list head:

| label | action | code (NICK; USER) |
|---|---|---|
| idle | `NickLine`, `UserLine` | 847-868; 938-950 |
| load, find | `NickLoad`, `NickFind`, ... | 870-872; 940, 952 |
| test | `NickTest` (test the head, store or load it) | 873-884; 953-980 |
| append | `NickAppend` (`add_user_node`) | 884; 980 |
| load_other, find_other | `NickLoadOther`, `NickFindOther` | 887-889; 983-986 |
| register | `NickRegister` (`add_connection_map_node`) | 891-927; 988-1024 |
| bind | `NickBind` (`add_sockfd_nick_map_node`) | 929-933; 1026-1030 |

`chain[l][c]` is the chain of nodes that starts with a node c's thread made a head;
`head[l]` names the thread whose node is the head, so a lost head is a chain no
one can reach. The unlocked stores `nick_head = nick_node` and
`user_head = user_node` are data races: the store waits in `pending` until
`FlushHead`, and at the latest until the thread's next mutex operation, so
another thread may read the old head after the program order says it is gone.
`overlapped` and `sent` record history for the properties. A name that is in
`connection_hash` twice, a USER that finds its own node and a NICK that is in use
are all kept as the code has them. Left out: NICK with no parameter or more than
one, which changes no table, and USER with no parameter, whose name is an
uninitialised pointer.

**`Lifecycle.tla`** names a socket by the client that opened it. `fds` maps numbers
to sockets and accept takes the lowest free one. A thread knows only its number
`fd[t]`; `reading[t]` is the socket its last `read` resolved the number to, which a
blocked `read` keeps even when the number is closed and reused. `acc` is the place
of the accept loop, `pc` of each thread. A registration is the line `REG`: its two
insertions are the steps `Register` and `Bind`. QUIT closes, counts, and reads
again; the disconnect branch is `FindNode`, `DeleteNode` (or `DeleteStale`, when the
node is gone already: a double free), `CloseDescriptor`, `CountClosed`. `Sigpipe` is
a reply to a client that has hung up: nothing handles the signal, so it ends the
process. A search by descriptor may return any node with that number: uthash puts a new item at the head of its
chain, but every `HASH_EXPAND_BUCKETS` turns the chains round (`uthash.h` 857-871), so which of several is met
first depends on what else is in the table. `FindNode` has the load of the head and the locked search in one step;
`Commands` separates them. `nicks` is the size of `connection_hash`. `OpenListener` covers `socket`, `bind`
and `listen` and their failures; `CreateFails` is a `pthread_create` nobody checks: the
connection stays open and counted (`pc` = failed), and detaching a `tid` that was never
assigned may end the process. Left out: `registered_connection_count`, which nothing
reads, data lost on a reset, and what the clean-up does to the lists and the mutexes.

**`ReceiveBuffer.tla`** is one connection's `subthread_work` seen as bytes: `wire` is
what the client has sent and `read` has not returned, `buf` and `pos` are the
variables of that name, and a byte is a character, a space, CR, LF, NUL, or a
character of a text the server printed.

| action | code |
|---|---|
| `Read(n)`: n bytes behind the first `pos` | 732, 756 |
| `ReadNothing`: 0 bytes, taken for a disconnection | 744-754 |
| `SkipBlank`: a line cut off, trimmed, and dropped | 759-781 |
| `HandleLine(k)`: a line cut off, trimmed, handled; k > 0: its reply was printed into `buf` | 759-795, 814-1047 |
| `Quit(k)`: the same for QUIT, which prints a text with what the client sent, and closes | 759-784, 796-813 |
| `NoLine`: the inner loop ends | 759 |
| `RunOut`: `strstr` or `strlen` reads on behind a full array | 759, 776 |

Which handler prints into `buf` depends on the command and the tables; here any line
may, with any of the lengths in `TextLen`; only QUIT is told from the others (`Quits`). A client may send any byte.
`strstr` stops at a NUL, so no line behind one is ever cut: `buf` fills up, `read` is asked for 0 bytes, and the client is
disconnected (`ReadNothing`), or it waits for an answer as long as it does not fill `buf`. The text of QUIT repeats a
parameter, of any length: `QuitLen` has lengths that do not fit `buf`, where `sprintf` overflows it (`undefined`). After a
QUIT that fits the connection is over (`closed`); that the thread reads the number on, and maybe another client under it,
is in `Lifecycle`. From the first text that hits waiting
bytes (`spoiled`) no property speaks of what is handled. `RunOut` is undefined
behaviour: it may end the thread's model (`undefined`) or go well, which is
`NoLine` or `HandleLine`. `taken`, `handled` and `stream` record history.
**`Framing.tla`** is the promise: the lines sent are delivered in order, once each,
as their words, blank ones skipped (**`Words.tla`** defines the words of a line).
The refinement mapping reads `delivered` as the words of `handled`, and `state` off
`pc` and `spoiled`. A line may only spoil when a later one has been sent already.
Left out: a `read` that fails (its branch does what the one for 0 bytes does).

**`Message.tla`** is `message.c` as functions: `chirc_message_from_string` with the
positions `strtok_r` finds and the look at the character behind them, the builders, and
`chirc_message_to_string`. Letters, digits and protocol words are one character each;
what matters is where spaces and colons are. `IsMessage` is the grammar, stated over the
positions of a line without a parser. A parameter past the array (`ParamsSize`) is `overflow`, a line
without a command `rc` -1.

**`Commands.tla`** is what `subthread_work` does with a parsed line, one access to shared
memory or one critical section per step, with the replies it writes (`written`) and the
number it reports (`report`):

| action | code |
|---|---|
| `Receive` | 783-786, `message.c` 13-84 |
| `LoadHead`, then `UsersStart`, `MotdFound`, `UnknownFound`, `WhoisTarget`..., `Disconnect` | the head passed by value, then the search (`my_utils.h` 252-262), which may find any node of the descriptor |
| `response_PING`, `Pong`, `Quit` | 788-813 |
| `WhoisTarget`, `WhoisNone`, `WhoisUser`, `WhoisFree`, `WhoisIgnored` | 259-428, 824-830 |
| `PrivmsgKnown`, `PrivmsgUnknown` | 831-846 |
| `UsersStart`, `CountOne`, `UsersCounted`, `UnknownCounted`, `Clients` | 584-611: the three counts of LUSERS |
| `NickRefused`, `Nick`, `UserRefused`, `User`, `Bind` | 847-1034, the list work in one step (`Registry` has it in detail) |
| two disjuncts of `Receive` | a line without a command, or with more parameters than `params` holds |
| `NameUndefined` | 787: the log of `params[0]`, for every command without parameters; the thread may also go on |
| a disjunct of `WriteReport` (`Fits`) | a reply that overflows `buffer` (`message.c` 90-110), its parameters `params` (138), or the text of QUIT `buf` (802) |
| `FindUndefined`, `WhoisNull`, `WhoisUndefined`, `NameTooLong` | a freed head, a NULL node, a message freed before, a name longer than its array |

The last four rows set `undefined`, which stops the model: nothing is claimed of what the
program does then, only (`UndefinedJustified`) of how it can get there. It speaks of this module's undefined behaviour only: what sharing a descriptor leads
to is in `Lifecycle`, the arrays of the receive buffer in `ReceiveBuffer`, the heads of the lists in `Registry`. `sent` and `again`
record history. `Lifecycle` has descriptors and their reuse; here a connection keeps its own.

Facts the model shows and keeps: the third count of LUSERS follows `connection_hash` with
the layout of `sockfd_nick_map_t`, so it is 1 as soon as anyone is registered
(`main.c` 609); the number of unknown connections is the difference of a counter that goes
down and a table that never shrinks, and may be negative; PRIVMSG to a known nick
delivers nothing; the lines of the MOTD keep their line feed (`main.c` 532-536 looks at the terminator);
errors 431, 451 and 461 are addressed
to the nick of whoever is the last node of `nick_head`.

**`StartUp.tla`** is `main` up to `chirc_run`: an action per option, then standalone mode
(`Standalone`) or the network file, a line per step (`LoadLine`), over bytes. `WellFormed`
says what such a file is without splitting or searching, of each line up to its first NUL. **`Context.tla`** extends it
with the library behind `ctx.h`: one action per function, in any order the headers
allow. A table is the sequence of its items, which `HashTable` justifies. `Room` is one bound
on everything that is allocated. **`Directory.tla`** is the promise: people, rooms, a
relation of members, sets of modes, and counts defined as cardinalities. The refinement
mapping reads the sequences as sets and the counts off the code's loops. Facts kept:
`chirc_ctx_free` aborts when a listed user is in a channel, and never empties the table
of servers, but that of the connections twice (ctx.c 58-90); an empty line makes a network
file unusable; `-p` has no effect with a network file, nor `-s` without one.
`chirc_channeluser_remove` is declared `int` and returns nothing: no caller may use the value, and
the model has none. The `modes` arrays of ten bytes are filled without a test of their
length: `ModeAssumption` is that there are fewer letters than that.

**`SdsText.tla`** has the pure functions of `sds.c`: numbers, formats, split, join, quoting and its reader.
A loop is a function of the number of its rounds, and a round (`SplitRound`, `ArgsRound`) an operator of its
own on the variables of the loop, so that it can be proved about.
**`Sds.tla`** is a string in memory: header type, `len`, `alloc`, the size of the allocation
and its bytes; an action per operation, and a step per piece of `sdscatfmt` and `sdscatrepr`,
which users must not interrupt. Fields are as wide as their type (`Limit`).
**`ByteString.tla`** is the promise: a sequence of bytes, each call what its documentation says. A text that is
set or appended counts with all its bytes or up to its first NUL, as the call takes a length or a C string.

**`HashTable.tla`** is `uthash.h`: the application order, the chains, the counts,
expansion with `expand_mult`, `ideal_chain_maxlen` and `noexpand`, the merge sort, and `HASH_ITER`
with a body that deletes (`IterStart`, `IterDelete`, `IterNext`). An item that was deleted
is freed and its handle unreadable. **`OrderedItems.tla`** is the promise: a sequence of items.

**`MC*.tla`** give the constants for TLC: sets of lines, files, command lines, keys that
collide, and the symmetry sets. The theorems are in **`RegistryProofs.tla`**,
**`LifecycleProofs.tla`**, **`ReceiveBufferProofs.tla`**, **`CommandsProofs.tla`**,
**`ContextProofs.tla`**, **`SdsProofs.tla`** and **`HashTableProofs.tla`**; each has its inductive
invariant in a section of that name or at the start. **`SequenceLemmas.tla`** has what the last ones
share: induction, loops by rounds, and sequences without repetitions.

Beside a definition, or in a section of its own, each specification module has faulty
variants (a dropped test, a missing assignment, a swapped order); a property is kept only
if one of them breaks it.

## Runs

| Run | Bounds | Shows |
|---|---|---|
| `registry_names` (948 225 states) | 3 connections, 2 names, USER with 3 and 4 parameters, 4 lines | `TypeOK`, `RegistrationSound`, `BoundIsRegistered`, `NoStrandedName`, `UniqueNick`, `UniqueNode`, `SettledStays` |
| `registry_halves` | 2 connections, 1 name, 3 lines | violated: a welcome needs both commands of the client |
| `registry_own` | 2 connections, 2 names, 4 lines | violated: a client with a name of its own is registered |
| `lifecycle_safety` (2 632 792) | 3 clients, 2 descriptors, 2 lines | `TypeOK`, `NoLeak`, `ReadsOwn`, `DeletesLive`, `BindingCurrent`, `CountExact` |
| `lifecycle_live` (178 671) | 2 clients, 2 descriptors, 2 lines, fair | `Reaped`, `Drains`, `StopsAfterSigint` |
| `lifecycle_thread` | 2 clients, 1 descriptor | violated: a thread handles its own connection |
| `receive_frame` (77 406) | buffer of 6, 3 lines out of 8, texts of 2 and 4, those of QUIT of 3 and 6, fair | `TypeOK`, `StreamIntact`, `DisconnectJustified`, `RefinesFraming`, `Served` |
| `receive_batch` | buffer of 10, 2 lines | violated: all lines of one read are handled |
| `commands` (1 161 794) | 2 clients, 3 lines each, 1 line that is not a plain registration or WHOIS, arrays for 6 parameters, names of 1 and replies of 21 characters | `TypeOK`, `ParsesAsGrammar`, `RepliesRead`, `LusersCounts`, `UndefinedJustified` |
| `context` (137 206) | command lines of up to 3 options, 14 network files; 2 users, 2 channels, 1 socket, 2 modes, 6 things in all | `NetworkLoads`, `TablesAgree`, `ImplementsDirectory` |
| `sds` (12 164) | strings of up to 3 bytes, header types for lengths below 2, 3, 4, 6, 64 | `TypeOK`, `Sane`, `CutsAsDocumented`, `SplitJoins`, `ReprReads`, `ImplementsByteString` |
| `hash_table` (4 633) | 4 items, 3 keys, 2 of one hash; 2 buckets that grow at their first item | `TypeOK`, `Fsck`, `Answers`, `ChainsBounded`, `ImplementsOrderedItems` |

*Bounds.* `MaxLines` is the only bound on the registry: with four lines two
connections can each send both halves of a name, or fight over both heads with a
line to spare; three connections let a third thread use a list whose head two
others race for, and with two names a node can be linked behind a head that is
then lost. In `Lifecycle` three clients over two descriptors give a number back
and take it again while the old thread is alive, and let accept fail for want of
descriptors; two lines are enough for a QUIT and a registration, or two
registrations, on one connection. That a stale node of a former owner is found and deleted instead of the present
one takes three lines, two of them on the former connection, which this run does not reach: there `BindingCurrent` rests on
its theorem (TLC agreed on 3 clients with 1 descriptor and 3 lines, and on 2 clients with 2 and 4 lines). In `receive_frame` the buffer holds two
short lines, or one that fills it to the last byte, with or without spaces that
`trim_space` removes; one line is a byte too long, one ends in a CR of its own, one has a NUL, one is QUIT, and
`read` returns every possible number of bytes. Texts of 2 and of 4 cover a part of
what is waiting, and all of it. In `commands` three lines let a client register and try one
thing more, ask twice for a nick, or ask while the other one leaves; `MaxOthers` lets one
of all lines be one of the odd ones, since they do not interact with each other but through the
tables. With `BufferSize` = 24 every reply to a plain line fits, and for each reply that
repeats something a client sent there is a line too long for it. The parser is also compared with the grammar on all lines of up to 6 characters
out of a space, a colon and a letter (`Texts`).
`MaxSize` = 6 holds two users, two channels and two memberships, or one membership and a
mode, or a connection in the place of either;
`MaxServers` = 0 has the library called in standalone mode only, as no function it calls
reads the table of servers. `MaxLen` = 3 over the scaled `Limit` passes through all five header types,
and `MaxPrealloc` = 4 through both ways to preallocate. The table doubles until it gives up;
`MaxBuckets` = 64 is there to stop it otherwise.

*Deadlock* is not checked in most runs: the server may stop (`down`, `killed`, `undefined`,
`exit`), and clients need not send anything. It is checked for `Sds` and `HashTable`,
which can always go on.

*Fairness* (`FairSpec`): weak fairness of the accept loop and of each thread, that
is, the scheduler of the operating system runs a thread that can run. No step of
a thread is disabled again by another thread once it is enabled, but by the end of
the process, and none is a choice of the environment; whether `pthread_create` succeeds is,
but the accept loop goes on either way. Clients and SIGINT are not
fair: nobody has to connect, send or hang up. SIGPIPE has no fairness either.
In `ReceiveBuffer` the fair step is the thread's: it runs, and what was sent arrives.

### What the violated properties show

* `OwnNameRegisters`: the check-then-add sequences and the two unlocked heads are
  races; a client can be left without a welcome, for good, because a retry finds the
  half that is in the list and is dropped.
* `WelcomeNeedsBothCommands`: halves are matched by name only.
* `OneThreadPerConnection`: after a QUIT the thread reads the next client's
  descriptor.
* `EveryMessageHandled`: a reply printed into the receive buffer covers lines that
  came with the same `read`; they are never handled.

The passing properties say how far each of these goes: `UniqueNode`, `UniqueNick`,
`SettledStays` and `NoStrandedName` confine the races to overlapping handlers of
one name and to the first store of a head; `ReadsOwn`, `DeletesLive`, `NoLeak` and
`CountExact` confine the damage of a QUIT to threads that share its number, and that of a
missing thread to its own connection; `StreamIntact` and
`DisconnectJustified` confine the loss of input to printed texts, to lines that
do not fit or hold a NUL, and to what comes behind a QUIT; `Served` promises nothing of lines behind a NUL. `StreamIntact` and the refinement say nothing of what is handled once
`buf` is spoiled, but `TypeOK` keeps `pos` inside `buf` there too.
`UndefinedJustified` lists, for each kind of undefined behaviour in `Commands`, what
somebody must have sent or done before; `RepliesRead` and `LusersCounts` name the
replies and the numbers that may be wrong, and hold all others to be right.

## Proofs

All for any connections, names, places, sizes and bounds, from the assumptions beside the
constants:

* `NoneAssumption`, `NullAssumption`, `PlacesAssumption`, `StructsAssumption`, `DirectoryAssumption`:
  NULL is not a connection, a place, a name, a struct, nor a value `Directory` has;
* `ArityAssumption`, `MaxLinesAssumption`, `FdAssumption`, `LinesAssumption`, `BoundAssumption`,
  `MaxPreallocAssumption`: numbers are natural, each client has lines, which are sequences of characters;
* `UpperAssumption`, `NoTextAssumption`: a small letter has one capital, and neither is a space or a colon; NULL is
  not a text;
* `SizeAssumption`, `BodiesAssumption`, `TextAssumption`, `QuitAssumption`: a buffer has a byte, a line ends at
  its own CR LF only, a text of the server's own fits into the buffer with its NUL; that of QUIT has any length;
* `MessageAssumption`: NULL is not what the parser returns;
* `BufferAssumption`: there is room for the parameters and the words a reply has of its own, the server's name twice
  and two names that fit their arrays, or a line of the MOTD (`main.c` 230-718, `message.c` 90);
* `ArgsAssumption`, `ServerAssumption`: a command line is a sequence of the options `getopt` is given (`main.c`
  82-115), with any bytes, and any lines in the network files; NULL is not a server;
* `ModeAssumption`: there are fewer letters of modes than places in the arrays (`chirc.h` 179, 280, 320);
* `LimitAssumption`, `TextsAssumption`, `FormatsAssumption`, `SetsAssumption`, `MapsAssumption`,
  `MaxLenAssumption`: the widths of the headers grow with the type, texts and sets are bytes, and no string
  grows beyond the widest header, which is that of 64 bits;
* `HashAssumption`: the items are finitely many, neither NULL nor a freed struct is an item or a handle, hash
  values are natural numbers, and the macros' two parameters are positive. The ranks by which
  `HASH_SORT` compares are integers: a comparison that is not a total preorder is outside of it.

The invariants were checked with TLC on the instances of the runs before they were proved.

*Registry.* `TypeCorrect` proves `TypeOK`. `BoundCorrect` (`BoundIsRegistered`) needs
`BindingOK`: a thread at `bind` has its entry in `connection_hash`, and entries are
only appended. `RegistrationCorrect` (`RegistrationSound`) needs more than the final
table: `NodesSaid` (every node in a chain was sent by somebody, with its
parameters), `FoundOther` (a thread at `register` saw the other half, and its own
line is admissible) and `SubmittedInv`; `sent` only grows, so what was submitted
stays submitted. `SettledForever` (`SettledStays`) needs `ControlOK`, which ties
`pending`, `loaded` and `pc` together: a store can be in flight only between `test` and the
next mutex, and only the thread that saw NULL has one.

`UniqueNodeCorrect`: a check and the insertion it guards are two critical sections, so the
invariant (`ListParts`) speaks of the thread between them. `AbsentOK`: a thread alone on its name
holds every chain that has the name and can still be seen. `StoringOK` and `HeadOK` say which
chains nobody sees yet or any more (a head in a store buffer, a head another thread has
overwritten), and `OverlapOK` that two threads in a branch for one name are on record.
`UniqueNickCorrect` adds `UserHeld` (a registered name once had a USER node) and `Fresh` (a
thread alone on its name, past its search, has not been overtaken by a registration).
`NoStrandedNameCorrect` is by `Paired`: of two halves behind the heads, one came second, and its
thread either has registered the name or still will; when no handler runs, it has.

*Lifecycle.* `TypeCorrect`, `NoLeakCorrect` and `ReadsOwnCorrect` follow from `FdInv`. `NoLeak` and
`ReadsOwn` are not inductive alone: the number a thread holds must be known to be
its own connection's until a QUIT on that number (`HoldsOK`), a socket in the
backlog has no number yet (`BacklogOK`, `FreshOK`, `AcceptOK`), and a blocked read
refers to a connection that was open under the number (`ReadingOK`). `CountCorrect` (`CountExact`) is by
`CountInv`: each step moves one thread and the count together; it uses
cardinality facts of finite sets; that the counted connections are finitely many is part
of the invariant, so `Conn` need not be finite.
`DeletesLiveCorrect` and `BindingCurrentCorrect` share `NodeInv`. A number may have nodes of former
owners in the table, and a search may find any of them. Without a QUIT such a node is there only if some connection with
that number has registered twice (`RegisteredTwice`, which stays true for ever); until then every client has one node at
most (`SingleOK`), under its own number (`NodesOK`), so the node found is the one of the thread that leaves, and it is
gone before the descriptor is closed (`LeavingOK`).

*ReceiveBuffer.* `StreamCorrect` (`StreamIntact`) is for any buffer size, any lines and
any way `read` splits the stream, by `BufferInv`. `StreamIntact` alone is not
inductive: cutting a line lowers `pos`, and the cut must not go below 0 when the
line is one nobody sent. `QuietTail` adds that there is no LF behind `pos`, so a
CR LF is found before `pos` or not at all.
The rest is about sequences: `CutShift` and `CutPrint` relate what was cut off and
what moved to the front, `ReadStep` what was read.
`DisconnectJustifiedCorrect` needs to know why `read` was called with no room: `Aligned` (what has
been taken ends with a line that was sent, so `buf` begins with one) and `SearchedOK` (`read` is called only when
there is no line in `buf`, and a free place holds a NUL). A full buffer without a line then
is one line that does not fit, or begins with one that holds a NUL. `JustInv` has both, and is part of `FramingInv`, since that a
QUIT was handled is read off the words of the lines.
`BufferTypesCorrect` (`TypeOK`) adds `RestTypes`: that what is handled are lines at all, also those nobody sent.
`FramingCorrect` is the refinement of `Framing`. `LineEnds` has the places in the stream where the lines that
were sent end, and `HandledOK` that what was cut off ends at one of them and that the words of what was handled are those of
the lines up to there, but the blank ones. `trim_space` keeps the words of a line (`LineTrimmed`): by induction on the
line, one character after the other, with the words so far and whether the last character is in one.
`CommandsGrow` is the same for the lines: one more line is one more command or none.

*Commands.* `CommandsTypeCorrect`, `UndefinedJustifiedCorrect` and `LusersCountsCorrect` are by
`CommandsInv`, whose part `Own(c)` is about one thread. It has, per thread, that the message under way was
sent and parsed (`MsgOK`), that the node a WHOIS holds is of the nick it asked for (`TargetOK`), that a client
with a name has its node in `sockfd_nick_hash` but between the two insertions (`NickOK`),
that the head a search starts from is still linked unless somebody has left (`LoadedOK`), and
that a count has not passed the users there were when it began (`CountOK`). `DeadOK` remembers who freed the message
of a node. `UndefinedJustifiedCorrect` also has to know that a reply fits unless somebody's line is to blame (`Excused`):
what the parser returns prints no longer than its parts (`PrintedLen`, along the places at which the pieces end), whatever the spaces of
the line (`ParsedTypes`); names that were registered fit their arrays (`Fitting`), the messages kept for WHOIS are somebody's USER
line (`Stored`), and so are those a thread holds between two steps (`HoldOK`, together `NamedOK`).
`ParsesAsGrammarCorrect` follows `strtok_r` through a line without double spaces: by induction on the characters
(`Spaced`), the tokens lie one behind the other with one space between (`LaidOut`), so a printed message, whose pieces are joined by
`FlattenDefined`, spells the line (`Spells`). `RoomOK` bounds one table by the other: each node of `sockfd_nick_hash`, and each
thread about to insert one, has a node of `connection_hash` of its own.

*Context.* `TablesAgreeCorrect` is by `ContextInv` (`MembersOK`: both tables of a membership hold it, once,
exactly when its struct is there; `ListsOK`: what is listed is there and has a name of its own).
`DirectoryCorrect` is the refinement: each step of the library, with the code's sequences, searches and loops, is a
step of `Directory` or none. It needs more of the state (`DirectoryInv`: no mode and no socket is
there twice), that a sequence without repetitions counts its set (`CountItems`, `CountsRight`), and
that `RemoveAt` where the first search hit is removes that item and keeps the others.
`NetworkLoadsCorrect` is by `LoadInv`: after `k` lines the table has the fields of the first `k` (`ReadSoFar`),
no name twice, and `this_server` is the one with the name or NULL. It rests on what the loader
makes of a line (`LineRead`): `sdstrim` leaves its row (`RowPart`), and the tokens are the stretches of that with the same
number of commas before (`CommaSplit`, by induction on the rounds of `sdssplitlen`), so there are four exactly when the
commas are three, and each is the field `WellFormed` means.

*Sds.* `SdsTypeCorrect` and `SaneCorrect` are by `SdsInv`: between two steps the string is a
`String`, terminated (`Ended`) but inside `sdscatfmt`. `Sane` alone is not inductive, since
the fields are cut to the width of the header: `String` adds that length and capacity fit the type, so that no cut
changes them. Growth is the hard step: `sdsMakeRoomFor` doubles or preallocates, then
picks a type for the new capacity, and may move to another header. That a text or a format
is written byte by byte behind the old end is in `WrittenString`, `CopyString` and `CatString`.
`SdsImplementsBytes` is the refinement: each step changes the bytes users see (`Seems`) as `ByteString` says, or
not at all. It needs `CallInv` for the calls that take several steps: what has been written and the pieces
that are left make up the old bytes and the text that is printed (`Pending`), and nobody looks before `Return`.
`CutsCorrect` is `CutsAsDocumented`. `SplitCorrect` (`SplitJoins`) follows the loop of `sdssplitlen`: after each
round the tokens so far, each with a separator behind it, make up the text up to `start` (`Passed`).
`ReprCorrect` (`ReprReads`) follows `sdssplitargs` through what `sdscatrepr` writes: one round reads what stands for one
byte and appends that byte, at the place where the pieces before it end (`FlattenPlaces`).

*HashTable.* All five theorems are by `Inv`. `Holds(h, o)` says that the hash is the list `o`: both links of each
item lead to its neighbours in `o`, the tail and the count are those of `o`, only the items of `o` are not
freed, and every bucket has a chain of its own, linked both ways and counted, with exactly the
items whose hash values lead to it. `Fsck`, `Answers` and `ChainsBounded` follow from it and from the walks:
`Walk` stops at the end of a list that `Leads` says it follows. The inductive steps are those of the macros: a
deletion has six cases by what is before and behind the item; `HASH_EXPAND_BUCKETS` moves items one at a time, so there
is an invariant of its loop (an old bucket is split into two new ones, none other is touched), and the bound on
chains needs `expand_mult` to be counted per bucket. The merge sort is proved with its two loops: the runs of width `w` are
sorted and stable and their items a permutation of the list, and merging two neighbours makes one of `2w`, so
the list is a stable sorted permutation when one run is left. `IterInv` is for
`HASH_ITER`: what `tmp` points at has not been freed, and it is next to `el` as long as `el` has not been. `HashImplementsItems` is the
refinement, with insertion in order, replacement and sorting, on sequences.

*SequenceLemmas.* The provers cannot instantiate the library's induction theorems, which take a
predicate. A set can take its place: `LeastNumber` comes from `WFMin`, `Induction` is for a set that has 0 and the
successor of each of its members, and a proof by induction picks the set of the numbers for which its formula holds. For
the same reason that a recursive function is what its equation says cannot be cited: `RoundsExist` proves that a function
with that equation exists, for any loop that goes from state to state by a function, and `FlattenDefined` that `FlattenSeq`
has it.

*Only model-checked*:

* `RepliesRead`: it has the parser read what the printer made of every reply;
* all liveness (`Reaped`, `Drains`, `StopsAfterSigint`, `Served`): the proof system does not reason about ENABLED and
  fairness.

## Not modelled

* `handlers.c`: a dispatch table with PING and PONG that nobody calls; `connection.c`: two stubs
  that return `CHIRC_OK`; `log.c`: output only; `include/utils_list.h` and the uthash headers
  `utlist.h`, `utstring.h`, `utarray.h`: nothing uses them. `lib/uthash/src` repeats the
  headers of `lib/uthash/include`.
* `main.c`: the socket addresses, host names and texts of replies; `my_utils.h`: `del_user_node` and the
  printing functions, which have no caller; the clean-up of lists and mutexes.
* `sds.c`: allocations that fail, `sdsfree`, `sdsAllocSize`, `sdscmp`, `sdsfromlonglong`, `SDS_NOINIT`, the
  self-test, and a format of `sdscatfmt` that ends in a lone percent sign.
* `uthash.h`: the hash functions (any function of the key will do), the Bloom filter,
  `HASH_SELECT`, allocations that fail.
* `message.c`: `chirc_message_free`, which changes nothing but the allocator; who frees what is
  in `Commands` where it matters (`WhoisFree`).
* The test-suite is read as a statement of what the server should do; findings quote it.
