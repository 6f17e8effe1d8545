-------------------------------- MODULE StartUp --------------------------------
(***************************************************************************)
(* The start of chirc (main.c): the options, and the network file that is  *)
(* loaded line by line when one is given (chirc_ctx_load_network, ctx.c).  *)
(* A file is the sequence of what getline returns, each a sequence of      *)
(* bytes.  The logging level and the operator's password are not followed  *)
(* beyond whether the latter is there.                                     *)
(***************************************************************************)
EXTENDS Integers, Sequences, FiniteSets, SequencesExt, SdsText

CONSTANTS
    NULL,
    Args,     \* the command lines: sequences of options
    hostname  \* what gethostname returns

COMMA == 44
SPACE == 32
CR == 13
LF == 10

\* An option and its argument: NULL if it has none, or is a file that cannot be read.
ProgramOption ==
    [opt : {"passwd", "port", "servername"}, arg : Seq(Byte)]
    \union [opt : {"network_file"}, arg : {NULL} \union Seq(Seq(Byte))]
    \union [opt : {"verbosity", "help", "unknown"}, arg : {NULL}]

chirc_server_t == [servername : Seq(Byte), hostname : Seq(Byte), port : Seq(Byte), passwd : Seq(Byte)]

ASSUME ArgsAssumption == Args \subseteq Seq(ProgramOption)
ASSUME ServerAssumption == NULL \notin chirc_server_t

\* "6667"
DefaultPort == <<54, 54, 54, 55>>

VARIABLES
    phase,        \* where main is
    args,         \* the options still to be read
    opts,         \* what those read have set
    lines,        \* the lines of the network file still to be read
    servers,      \* ctx->network.servers, in the order of insertion
    this_server   \* ctx->network.this_server, or NULL

startVars == <<phase, args, opts, lines, servers, this_server>>

NoOptions == [port |-> NULL, passwd |-> NULL, servername |-> NULL, network_file |-> NULL]

-----------------------------------------------------------------------------
(* Options *)

\* A later option of a kind replaces an earlier one; -v and -q set nothing but the
\* logging level.
ReadOption ==
    /\ phase = "options" /\ args # <<>>
    /\ args' = Tail(args)
    /\ \/ /\ Head(args).opt \in DOMAIN opts /\ Head(args).arg # NULL
          /\ opts' = [opts EXCEPT ![Head(args).opt] = Head(args).arg]
       \/ /\ Head(args).opt = "verbosity"
          /\ UNCHANGED opts
    /\ UNCHANGED <<phase, lines, servers, this_server>>

\* -h, an unknown option, or a network file that cannot be read now.
ExitOption ==
    /\ phase = "options" /\ args # <<>>
    /\ \/ Head(args).opt \in {"help", "unknown"}
       \/ Head(args).opt = "network_file" /\ Head(args).arg = NULL
    /\ phase' = "exit"
    /\ UNCHANGED <<args, opts, lines, servers, this_server>>

EndOfOptions ==
    /\ phase = "options" /\ args = <<>>
    /\ phase' = "check"
    /\ UNCHANGED <<args, opts, lines, servers, this_server>>

\* A password is required, and with a network file the name of this server.
Complete == opts.passwd # NULL /\ (opts.network_file # NULL => opts.servername # NULL)

Incomplete ==
    /\ phase = "check" /\ ~Complete
    /\ phase' = "exit"
    /\ UNCHANGED <<args, opts, lines, servers, this_server>>

\* Standalone mode: this server only, and not in the table of servers.
Standalone ==
    /\ phase = "check" /\ Complete /\ opts.network_file = NULL
    /\ this_server' = [servername |-> hostname, hostname |-> hostname, passwd |-> NULL,
                       port |-> IF opts.port = NULL THEN DefaultPort ELSE opts.port]
    /\ phase' = "ready"
    /\ UNCHANGED <<args, opts, lines, servers>>

-----------------------------------------------------------------------------
(* chirc_ctx_load_network *)

\* sdstrim of " \r\n"
Trimmed(l) ==
    LET kept == {i \in 1..Len(l) : ~strchr(<<SPACE, CR, LF>>, l[i])}
    IN  IF kept = {} THEN <<>>
        ELSE SubSeq(l, CHOOSE i \in kept : \A j \in kept : i =< j,
                       CHOOSE i \in kept : \A j \in kept : j =< i)

tokens(l) == sdssplitlen(Trimmed(CString(l)), <<COMMA>>)

chirc_ctx_get_server(name) ==
    LET at == SelectInSeq(servers, LAMBDA x : x.servername = name)
    IN  IF at = 0 THEN NULL ELSE servers[at]

chirc_ctx_add_server(ns) == servers' = Append(servers, ns)

\* Mutant: a name is not looked up before it is added.
LoadableTwice(l) == Len(tokens(l)) = 4

\* Four fields, the first of them a name that is not in the table.
Loadable(l) == Len(tokens(l)) = 4 /\ chirc_ctx_get_server(tokens(l)[1]) = NULL

\* The file may be gone since the options were read.
Open ==
    /\ phase = "check" /\ Complete /\ opts.network_file # NULL
    /\ \/ phase' = "load" /\ lines' = opts.network_file
       \/ phase' = "exit" /\ UNCHANGED lines
    /\ UNCHANGED <<args, opts, servers, this_server>>

LoadLine ==
    /\ phase = "load" /\ lines # <<>> /\ Loadable(Head(lines))
    /\ LET t == tokens(Head(lines))
           ns == [servername |-> t[1], hostname |-> t[2], port |-> t[3], passwd |-> t[4]]
       IN  /\ chirc_ctx_add_server(ns)
           /\ this_server' = IF t[1] = opts.servername THEN ns ELSE this_server
    /\ lines' = Tail(lines)
    /\ UNCHANGED <<phase, args, opts>>

LoadFails ==
    /\ phase = "load"
    /\ IF lines = <<>> THEN this_server = NULL ELSE ~Loadable(Head(lines))
    /\ phase' = "exit_load"
    /\ UNCHANGED <<args, opts, lines, servers, this_server>>

Loaded ==
    /\ phase = "load" /\ lines = <<>> /\ this_server # NULL
    /\ phase' = "ready"
    /\ UNCHANGED <<args, opts, lines, servers, this_server>>

\* The options are no longer needed; chirc_run is given the context.
Run ==
    /\ phase = "ready"
    /\ phase' = "running"
    /\ opts' = NoOptions
    /\ UNCHANGED <<args, lines, servers, this_server>>

StartInit ==
    /\ phase = "options"
    /\ args \in Args
    /\ opts = NoOptions /\ lines = <<>> /\ servers = <<>> /\ this_server = NULL

StartNext ==
    \/ ReadOption \/ ExitOption \/ EndOfOptions \/ Incomplete \/ Standalone
    \/ Open \/ LoadLine \/ LoadFails \/ Loaded \/ Run

-----------------------------------------------------------------------------
(* What a network file should look like, said without splitting or searching *)

\* What of a line is read: not the blanks around it, nor what is behind a NUL.
Row(l) ==
    LET visible == {i \in 1..Len(l) : l[i] \notin {SPACE, CR, LF} /\ \A j \in 1..i : l[j] # NUL}
    IN  {i \in 1..Len(l) : \E a, b \in visible : a =< i /\ i =< b}

Commas(l) == {i \in Row(l) : l[i] = COMMA}

\* The places of the field of l that has n commas before it.
FieldAt(l, n) ==
    {i \in Row(l) : l[i] # COMMA /\ Cardinality({c \in Commas(l) : c < i}) = n}

\* Is s that field?
IsField(s, l, n) ==
    LET at == FieldAt(l, n)
    IN  /\ Len(s) = Cardinality(at)
        /\ \A i \in at : s[Cardinality({j \in at : j =< i})] = l[i]

SameName(l, m) ==
    /\ Cardinality(FieldAt(l, 0)) = Cardinality(FieldAt(m, 0))
    /\ \A i \in FieldAt(l, 0), j \in FieldAt(m, 0) :
           Cardinality({k \in FieldAt(l, 0) : k =< i}) = Cardinality({k \in FieldAt(m, 0) : k =< j})
           => l[i] = m[j]

WellFormed(file, name) ==
    /\ \A i \in 1..Len(file) : Cardinality(Commas(file[i])) = 3
    /\ \A i, j \in 1..Len(file) : i # j => ~SameName(file[i], file[j])
    /\ \E i \in 1..Len(file) : IsField(name, file[i], 0)

\* A network file is loaded exactly when each of its lines, the last one too, has four
\* fields, no name occurs twice and this server is among them; and then each server has
\* its own four fields, in the order of the file (ctx.c:286-350, main.c:179-197).
NetworkLoads ==
    LET file == opts.network_file
    IN  /\ phase = "exit_load" => ~WellFormed(file, opts.servername)
        /\ phase = "ready" /\ file # NULL =>
               /\ WellFormed(file, opts.servername)
               /\ Len(servers) = Len(file)
               /\ \A i \in 1..Len(file) :
                      /\ IsField(servers[i].servername, file[i], 0)
                      /\ IsField(servers[i].hostname, file[i], 1)
                      /\ IsField(servers[i].port, file[i], 2)
                      /\ IsField(servers[i].passwd, file[i], 3)
               /\ this_server \in ToSet(servers)
               /\ this_server.servername = opts.servername

=============================================================================
