---------------------------- MODULE RegistryProofs ----------------------------
(***************************************************************************)
(* Theorems about Registry, for any connections, names, arities and bound: *)
(* the types and what a thread holds while it works, then which names the  *)
(* lists hold, how often, and what that means for connection_hash.         *)
(***************************************************************************)
EXTENDS Registry, TLAPS

-----------------------------------------------------------------------------
(* The two branches take the same steps: case analyses go by the step *)

ReceiveStep(c) ==
    \E line \in Line :
        /\ Receive(c, line)
        /\ \/ Goto(c, "idle")
           \/ /\ Goto(c, "load")
              /\ line.cmd = "USER" => line.nparams >= 4
              /\ line.cmd = "NICK" => ~find_connection_map_node(line.name)

BranchStep(c, l) ==
    \/ LoadOwn(c, l) \/ FindOwn(c, l) \/ TestHead(c, l) \/ AppendNode(c, l)
    \/ LoadOther(c, l) \/ FindOther(c, l, l = "NICK" \/ current(c).nparams = 4)
    \/ Register(c, l) \/ Bind(c, l)

\* Every step reads a line, advances a branch, or drains a store buffer.
LEMMA StepCases ==
    ASSUME Next
    PROVE  \E c \in Conn :
              \/ ReceiveStep(c)
              \/ \E l \in List : BranchStep(c, l)
              \/ FlushHead(c)
<1>1. PICK c \in Conn :
         \/ \E n \in Name : NickLine(c, n)
         \/ \E n \in Name, k \in UserArity : UserLine(c, n, k)
         \/ NickStep(c)
         \/ UserStep(c)
         \/ FlushHead(c)
  BY DEF Next
<1>2. ASSUME NEW n \in Name, NickLine(c, n) PROVE ReceiveStep(c)
  <2>1. [cmd |-> "NICK", name |-> n, nparams |-> 1] \in Line
    BY DEF Line, List
  <2>2. Receive(c, [cmd |-> "NICK", name |-> n, nparams |-> 1])
    BY <1>2 DEF NickLine
  <2>3. Goto(c, "idle") \/ (Goto(c, "load") /\ ~find_connection_map_node(n))
    BY <1>2 DEF NickLine
  <2>4. QED
    BY <2>1, <2>2, <2>3 DEF ReceiveStep
<1>3. ASSUME NEW n \in Name, NEW k \in UserArity, UserLine(c, n, k) PROVE ReceiveStep(c)
  <2>1. k \in Nat
    BY ArityAssumption
  <2>2. [cmd |-> "USER", name |-> n, nparams |-> k] \in Line
    BY <2>1 DEF Line, List
  <2>3. Receive(c, [cmd |-> "USER", name |-> n, nparams |-> k])
    BY <1>3 DEF UserLine
  <2>4. Goto(c, "idle") \/ (Goto(c, "load") /\ k >= 4)
    <3>1. CASE k < 4
      BY <3>1, <1>3 DEF UserLine
    <3>2. CASE ~(k < 4)
      BY <3>2, <2>1, <1>3 DEF UserLine
    <3>3. QED
      BY <3>1, <3>2
  <2>5. QED
    BY <2>2, <2>3, <2>4 DEF ReceiveStep
<1>4. ASSUME NickStep(c) PROVE BranchStep(c, "NICK")
  <2>1. ("NICK" = "NICK" \/ current(c).nparams = 4) = TRUE
    OBVIOUS
  <2>2. QED
    BY <1>4, <2>1 DEF NickStep, BranchStep, NickLoad, NickFind, NickTest, NickAppend,
                     NickLoadOther, NickFindOther, NickRegister, NickBind
<1>5. ASSUME UserStep(c) PROVE BranchStep(c, "USER")
  <2>1. ("USER" = "NICK" \/ current(c).nparams = 4) = (current(c).nparams = 4)
    OBVIOUS
  <2>2. QED
    BY <1>5, <2>1 DEF UserStep, BranchStep, UserLoad, UserFind, UserTest, UserAppend,
                     UserLoadOther, UserFindOther, UserRegister, UserBind
<1>6. QED
  BY <1>1, <1>2, <1>3, <1>4, <1>5 DEF List

-----------------------------------------------------------------------------
(* Types and control *)

\* A thread inside a branch has a line, a USER line there has its four
\* parameters, a store is buffered only until the mutex of the second search,
\* and a node is appended to a list that has a head.
ControlOK ==
    \A c \in Conn :
        /\ pc[c] # "idle" => /\ sent[c] # <<>>
                             /\ current(c).cmd = "USER" => current(c).nparams >= 4
        /\ pending[c] => pc[c] \in {"load_other", "find_other"}
        /\ pc[c] = "append" => loaded[c] # None

\* The line a thread inside a branch is handling is a line.
LEMMA CurrentLine ==
    ASSUME TypeOK, ControlOK, NEW c \in Conn, pc[c] # "idle"
    PROVE  current(c) \in Line /\ NodeOf(c) \in Node
<1>1. sent[c] \in Seq(Line) /\ sent[c] # <<>>
  <2>1. sent[c] \in Seq(Line)
    BY DEF TypeOK
  <2>2. sent[c] # <<>>
    BY DEF ControlOK
  <2>3. QED
    BY <2>1, <2>2
<1>2. Len(sent[c]) \in 1..Len(sent[c])
  BY <1>1
<1>3. current(c) \in Line
  BY <1>1, <1>2 DEF current
<1>4. QED
  BY <1>3 DEF NodeOf, Line, Node

\* A thread's line stays the same while it is inside its branch.
LEMMA CurrentStays ==
    ASSUME NEW c \in Conn, sent' = sent
    PROVE  current(c)' = current(c)
BY DEF current

LEMMA InitControl == Init => TypeOK /\ ControlOK
BY DEF Init, TypeOK, ControlOK, List, PC

LEMMA ReceiveControl ==
    ASSUME TypeOK, ControlOK, NEW c \in Conn, ReceiveStep(c)
    PROVE  TypeOK' /\ ControlOK'
<1>1. PICK line \in Line :
         /\ Receive(c, line)
         /\ \/ Goto(c, "idle")
            \/ Goto(c, "load") /\ (line.cmd = "USER" => line.nparams >= 4)
  BY DEF ReceiveStep
<1>2. sent' = [sent EXCEPT ![c] = Append(sent[c], line)] /\ pc[c] = "idle"
  BY <1>1 DEF Receive
<1>3. sent[c] \in Seq(Line)
  BY DEF TypeOK
<1>4. /\ Append(sent[c], line) \in Seq(Line)
      /\ Append(sent[c], line) # <<>>
      /\ Append(sent[c], line)[Len(Append(sent[c], line))] = line
  BY <1>3
<1>5. sent' \in [Conn -> Seq(Line)] /\ sent'[c] # <<>> /\ current(c)' = line
  BY <1>2, <1>4 DEF TypeOK, current
<1>6. overlapped' \in SUBSET Name
  BY <1>1 DEF Receive, TypeOK, Line
<1>7. TypeOK'
  BY <1>1, <1>5, <1>6 DEF TypeOK, Receive, Goto, PC
<1>8. ASSUME NEW d \in Conn, d # c
      PROVE  sent'[d] = sent[d] /\ pc'[d] = pc[d] /\ current(d)' = current(d)
  BY <1>1, <1>2, <1>8 DEF TypeOK, Goto, current
<1>9. ControlOK'
  BY <1>1, <1>2, <1>5, <1>8 DEF ControlOK, TypeOK, Receive, Goto
<1>10. QED
  BY <1>7, <1>9

LEMMA BranchControl ==
    ASSUME TypeOK, ControlOK, NEW c \in Conn, NEW l \in List, BranchStep(c, l)
    PROVE  TypeOK' /\ ControlOK'
<1>1. sent' = sent /\ \A d \in Conn : current(d)' = current(d)
  BY CurrentStays DEF BranchStep, LoadOwn, FindOwn, TestHead, AppendNode, LoadOther,
                      FindOther, Register, Bind
<1>2. pc[c] # "idle"
  BY DEF BranchStep, LoadOwn, FindOwn, TestHead, AppendNode, LoadOther,
         FindOther, Register, Bind, At
<1>3. current(c) \in Line /\ NodeOf(c) \in Node
  BY <1>2, CurrentLine
<1>4. [name |-> current(c).name, fd |-> c] \in Entry
  BY <1>3 DEF Line, Entry
<1>5. OtherList(l) \in List
  BY DEF OtherList, List
<1>6. CASE LoadOwn(c, l)
  BY <1>1, <1>6, <1>5 DEF LoadOwn, TypeOK, ControlOK, At, Goto, PC
<1>7. CASE FindOwn(c, l)
  BY <1>1, <1>7 DEF FindOwn, TypeOK, ControlOK, At, Goto, PC
<1>8. CASE TestHead(c, l)
  <2>1. <<NodeOf(c)>> \in Seq(Node)
    BY <1>3
  <2>2. chain' \in [List -> [Conn -> Seq(Node)]]
    <3>1. CASE chain' = chain
      BY <3>1 DEF TypeOK
    <3>2. CASE chain' = [chain EXCEPT ![l][c] = <<NodeOf(c)>>]
      BY <2>1, <3>2 DEF TypeOK
    <3>3. QED
      BY <1>8, <3>1, <3>2 DEF TestHead
  <2>3. TypeOK'
    BY <1>1, <1>8, <2>2 DEF TestHead, TypeOK, At, Goto, PC
  <2>4. ControlOK'
    BY <1>1, <1>8 DEF TestHead, TypeOK, ControlOK, At, Goto
  <2>5. QED
    BY <2>3, <2>4
<1>9. CASE AppendNode(c, l)
  <2>1. loaded[c] \in Conn
    BY <1>9 DEF AppendNode, At, TypeOK, ControlOK
  <2>2. Append(chain[l][loaded[c]], NodeOf(c)) \in Seq(Node)
    BY <1>3, <2>1 DEF TypeOK
  <2>3. chain' \in [List -> [Conn -> Seq(Node)]]
    BY <1>9, <2>1, <2>2 DEF AppendNode, add_user_node, TypeOK
  <2>4. QED
    BY <1>1, <1>9, <2>3 DEF AppendNode, TypeOK, ControlOK, At, Goto, PC
<1>10. CASE LoadOther(c, l)
  BY <1>1, <1>10, <1>5 DEF LoadOther, TypeOK, ControlOK, At, Goto, PC
<1>11. CASE FindOther(c, l, l = "NICK" \/ current(c).nparams = 4)
  BY <1>1, <1>11 DEF FindOther, TypeOK, ControlOK, At, Goto, PC
<1>12. CASE Register(c, l)
  BY <1>1, <1>12, <1>4 DEF Register, add_connection_map_node, TypeOK, ControlOK, At, Goto, PC
<1>13. CASE Bind(c, l)
  BY <1>1, <1>13, <1>4 DEF Bind, add_sockfd_nick_map_node, TypeOK, ControlOK, At, Goto, PC
<1>14. QED
  BY <1>6, <1>7, <1>8, <1>9, <1>10, <1>11, <1>12, <1>13 DEF BranchStep

LEMMA FlushControl ==
    ASSUME TypeOK, ControlOK, NEW c \in Conn, FlushHead(c)
    PROVE  TypeOK' /\ ControlOK'
<1>1. pc[c] # "idle"
  BY DEF FlushHead, ControlOK
<1>2. current(c).cmd \in List
  BY <1>1, CurrentLine DEF Line
<1>3. sent' = sent /\ \A d \in Conn : current(d)' = current(d)
  BY CurrentStays DEF FlushHead
<1>4. QED
  BY <1>2, <1>3 DEF FlushHead, TypeOK, ControlOK

LEMMA NextControl == TypeOK /\ ControlOK /\ [Next]_vars => TypeOK' /\ ControlOK'
<1> SUFFICES ASSUME TypeOK, ControlOK, [Next]_vars PROVE TypeOK' /\ ControlOK'
  OBVIOUS
<1>1. CASE Next
  BY <1>1, StepCases, ReceiveControl, BranchControl, FlushControl
<1>2. CASE UNCHANGED vars
  BY <1>2 DEF vars, TypeOK, ControlOK, current
<1>3. QED
  BY <1>1, <1>2

LEMMA ControlCorrect == Spec => [](TypeOK /\ ControlOK)
BY InitControl, NextControl, PTL DEF Spec

\* Every variable keeps its type, for any number of connections and lines.
THEOREM TypeCorrect == Spec => []TypeOK
BY ControlCorrect, PTL

-----------------------------------------------------------------------------
(* The list heads *)

LEMMA SettledStep ==
    ASSUME TypeOK, ControlOK, Next, NEW k \in List, Settled(k)
    PROVE  Settled(k)' /\ head'[k] = head[k]
<1>1. PICK c \in Conn :
         \/ ReceiveStep(c)
         \/ \E l \in List : BranchStep(c, l)
         \/ FlushHead(c)
  BY StepCases
<1>2. CASE ReceiveStep(c)
  <2>1. PICK line \in Line : Receive(c, line)
    BY <1>2 DEF ReceiveStep
  <2>2. ~pending[c]
    BY <2>1 DEF Receive, ControlOK
  <2>3. ASSUME NEW d \in Conn \ {c} PROVE current(d)' = current(d)
    BY <2>1 DEF Receive, TypeOK, current
  <2>4. QED
    BY <2>1, <2>2, <2>3 DEF Receive, Settled, Storing
<1>3. ASSUME NEW l \in List, BranchStep(c, l)
      PROVE  Settled(k)' /\ head'[k] = head[k]
  <2>1. sent' = sent /\ head' = head /\ \A d \in Conn : current(d)' = current(d)
    BY <1>3, CurrentStays DEF BranchStep, LoadOwn, FindOwn, TestHead, AppendNode,
       LoadOther, FindOther, Register, Bind
  <2>2. CASE TestHead(c, l) /\ k = l
    BY <2>1, <2>2 DEF TestHead, Settled, Storing
  <2>3. CASE TestHead(c, l) /\ k # l
    BY <2>1, <2>3 DEF TestHead, Settled, Storing, At, TypeOK
  <2>4. CASE ~TestHead(c, l)
    <3>1. pending' = pending
      BY <1>3, <2>4 DEF BranchStep, LoadOwn, FindOwn, AppendNode, LoadOther, FindOther,
                        Register, Bind
    <3>2. QED
      BY <2>1, <3>1 DEF Settled, Storing
  <2>5. QED
    BY <2>2, <2>3, <2>4
<1>4. CASE FlushHead(c)
  <2>1. sent' = sent /\ \A d \in Conn : current(d)' = current(d)
    BY <1>4, CurrentStays DEF FlushHead
  <2>2. current(c).cmd # k
    BY <1>4 DEF FlushHead, Settled, Storing
  <2>3. head'[k] = head[k]
    BY <1>4, <2>2 DEF FlushHead, TypeOK
  <2>4. \A d \in Conn : pending'[d] => pending[d]
    BY <1>4 DEF FlushHead, TypeOK
  <2>5. QED
    BY <2>1, <2>3, <2>4 DEF Settled, Storing
<1>5. QED
  BY <1>1, <1>2, <1>3, <1>4

\* Once a head is visible and no store to it is in flight, the list keeps it.
THEOREM SettledForever == Spec => SettledStays
<1>1. TypeOK /\ ControlOK /\ [Next]_vars
        => [\A l \in List : Settled(l) => Settled(l)' /\ head'[l] = head[l]]_vars
  BY SettledStep
<1>2. QED
  BY <1>1, ControlCorrect, PTL DEF Spec, SettledStays

-----------------------------------------------------------------------------
(* The two hash tables *)

\* Between the two insertions the thread's own entry is in connection_hash.
BindingOK ==
    \A c \in Conn : pc[c] = "bind" =>
        \E j \in DOMAIN connections :
            connections[j] = [name |-> current(c).name, fd |-> c]

LEMMA BindingStep ==
    ASSUME TypeOK, ControlOK, BindingOK, BoundIsRegistered, Next
    PROVE  BindingOK' /\ BoundIsRegistered'
<1>1. PICK c \in Conn :
         \/ ReceiveStep(c)
         \/ \E l \in List : BranchStep(c, l)
         \/ FlushHead(c)
  BY StepCases
<1>2. CASE ReceiveStep(c)
  <2>1. PICK line \in Line : /\ Receive(c, line)
                             /\ Goto(c, "idle") \/ Goto(c, "load")
    BY <1>2 DEF ReceiveStep
  <2>2. ASSUME NEW d \in Conn, pc'[d] = "bind"
        PROVE  pc[d] = "bind" /\ current(d)' = current(d)
    BY <2>1, <2>2 DEF Receive, Goto, TypeOK, current
  <2>3. QED
    BY <2>1, <2>2 DEF Receive, BindingOK, BoundIsRegistered
<1>3. ASSUME NEW l \in List, BranchStep(c, l)
      PROVE  BindingOK' /\ BoundIsRegistered'
  <2>1. sent' = sent /\ \A d \in Conn : current(d)' = current(d)
    BY <1>3, CurrentStays DEF BranchStep, LoadOwn, FindOwn, TestHead, AppendNode,
       LoadOther, FindOther, Register, Bind
  <2>2. CASE Register(c, l)
    <3>1. /\ connections' = Append(connections, [name |-> current(c).name, fd |-> c])
          /\ sockfdNick' = sockfdNick
          /\ pc' = [pc EXCEPT ![c] = "bind"]
      BY <2>2 DEF Register, add_connection_map_node, Goto
    <3>2. connections \in Seq(Entry)
      BY DEF TypeOK
    <3>3. /\ \A j \in DOMAIN connections : j \in DOMAIN connections'
                                          /\ connections'[j] = connections[j]
          /\ Len(connections') \in DOMAIN connections'
          /\ connections'[Len(connections')] = [name |-> current(c).name, fd |-> c]
      BY <3>1, <3>2
    <3>4. BoundIsRegistered'
      BY <3>1, <3>3 DEF BoundIsRegistered
    <3>5. BindingOK'
      BY <2>1, <3>1, <3>3 DEF BindingOK, TypeOK
    <3>6. QED
      BY <3>4, <3>5
  <2>3. CASE Bind(c, l)
    <3>1. /\ sockfdNick' = Append(sockfdNick, [name |-> current(c).name, fd |-> c])
          /\ connections' = connections
          /\ pc[c] = "bind"
          /\ pc' = [pc EXCEPT ![c] = "idle"]
      BY <2>3 DEF Bind, add_sockfd_nick_map_node, Goto, At
    <3>2. sockfdNick \in Seq(Entry)
      BY DEF TypeOK
    <3>3. \A i \in DOMAIN sockfdNick' :
             \/ i \in DOMAIN sockfdNick /\ sockfdNick'[i] = sockfdNick[i]
             \/ sockfdNick'[i] = [name |-> current(c).name, fd |-> c]
      BY <3>1, <3>2
    <3>4. BoundIsRegistered'
      BY <3>1, <3>3 DEF BoundIsRegistered, BindingOK
    <3>5. BindingOK'
      BY <2>1, <3>1 DEF BindingOK, TypeOK
    <3>6. QED
      BY <3>4, <3>5
  <2>4. CASE ~Register(c, l) /\ ~Bind(c, l)
    <3>1. /\ connections' = connections /\ sockfdNick' = sockfdNick
          /\ \A d \in Conn : pc'[d] = "bind" => pc[d] = "bind"
      BY <1>3, <2>4 DEF BranchStep, LoadOwn, FindOwn, TestHead, AppendNode, LoadOther,
                        FindOther, Goto, TypeOK
    <3>2. QED
      BY <2>1, <3>1 DEF BindingOK, BoundIsRegistered
  <2>5. QED
    BY <2>2, <2>3, <2>4
<1>4. CASE FlushHead(c)
  <2>1. sent' = sent /\ \A d \in Conn : current(d)' = current(d)
    BY <1>4, CurrentStays DEF FlushHead
  <2>2. QED
    BY <1>4, <2>1 DEF FlushHead, BindingOK, BoundIsRegistered
<1>5. QED
  BY <1>1, <1>2, <1>3, <1>4

\* sockfd_nick_hash never binds a descriptor to a nick that connection_hash does
\* not hold for that descriptor.
THEOREM BoundCorrect == Spec => []BoundIsRegistered
<1>1. Init => BindingOK /\ BoundIsRegistered
  BY DEF Init, BindingOK, BoundIsRegistered
<1>2. TypeOK /\ ControlOK /\ BindingOK /\ BoundIsRegistered /\ [Next]_vars
        => BindingOK' /\ BoundIsRegistered'
  <2>1. ASSUME BindingOK, BoundIsRegistered, UNCHANGED vars
        PROVE  BindingOK' /\ BoundIsRegistered'
    BY <2>1 DEF vars, BindingOK, BoundIsRegistered, current
  <2>2. QED
    BY <2>1, BindingStep
<1>3. QED
  BY <1>1, <1>2, ControlCorrect, PTL DEF Spec

-----------------------------------------------------------------------------
(* Registrations come from lines that were sent *)

\* Some connection has sent the half of name n that belongs to list l.
HalfSaid(l, n) ==
    \E d \in Conn : \E j \in DOMAIN sent[d] :
        /\ sent[d][j].cmd = l
        /\ sent[d][j].name = n
        /\ l = "USER" => sent[d][j].nparams >= 4

\* Every node, in the list or lost, is a half somebody sent.
NodesSaid ==
    \A l \in List, r \in Conn : \A i \in DOMAIN chain[l][r] :
        HalfSaid(l, chain[l][r][i].name)

\* A thread about to register a name has found its other half.
FoundOther ==
    \A c \in Conn : pc[c] = "register" =>
        /\ HalfSaid(OtherList(current(c).cmd), current(c).name)
        /\ current(c).cmd = "USER" => current(c).nparams = 4

SubmittedInv == TypeOK /\ ControlOK /\ NodesSaid /\ FoundOther /\ RegistrationSound

\* Lines are only ever added to what a connection has sent.
SentGrows ==
    \A d \in Conn : \A j \in DOMAIN sent[d] :
        j \in DOMAIN sent'[d] /\ sent'[d][j] = sent[d][j]

LEMMA HalfSaidGrows ==
    ASSUME SentGrows, NEW l, NEW n, HalfSaid(l, n)
    PROVE  HalfSaid(l, n)'
BY DEF SentGrows, HalfSaid

LEMMA SubmittedGrows ==
    ASSUME SentGrows, NEW n, NEW c \in Conn, Submitted(n, c)
    PROVE  Submitted(n, c)'
BY DEF SentGrows, Submitted, Said

LEMMA SoundGrows ==
    ASSUME SentGrows, TypeOK, RegistrationSound, connections' = connections
    PROVE  RegistrationSound'
<1>1. ASSUME NEW i \in DOMAIN connections PROVE connections[i].fd \in Conn
  <2>1. connections[i] \in Entry
    BY DEF TypeOK
  <2>2. QED
    BY <2>1 DEF Entry
<1>2. QED
  BY <1>1, SubmittedGrows DEF RegistrationSound

\* The line a thread is handling is one of the halves said.
LEMMA CurrentSaid ==
    ASSUME TypeOK, ControlOK, NEW c \in Conn, pc[c] # "idle"
    PROVE  /\ HalfSaid(current(c).cmd, current(c).name)
           /\ Len(sent[c]) \in DOMAIN sent[c]
           /\ current(c) = sent[c][Len(sent[c])]
<1>1. sent[c] \in Seq(Line) /\ sent[c] # <<>>
  <2>1. sent[c] \in Seq(Line)
    BY DEF TypeOK
  <2>2. sent[c] # <<>>
    BY DEF ControlOK
  <2>3. QED
    BY <2>1, <2>2
<1>2. Len(sent[c]) \in DOMAIN sent[c]
  BY <1>1
<1>3. current(c).cmd = "USER" => current(c).nparams >= 4
  BY DEF ControlOK
<1>4. QED
  BY <1>2, <1>3 DEF HalfSaid, current

LEMMA ReceiveSubmitted ==
    ASSUME SubmittedInv, NEW c \in Conn, ReceiveStep(c)
    PROVE  SentGrows /\ NodesSaid' /\ FoundOther' /\ RegistrationSound'
<1>1. PICK line \in Line : /\ Receive(c, line)
                           /\ Goto(c, "idle") \/ Goto(c, "load")
  BY DEF ReceiveStep
<1>2. sent[c] \in Seq(Line)
  BY DEF SubmittedInv, TypeOK
<1>3. SentGrows
  BY <1>1, <1>2 DEF Receive, SentGrows, SubmittedInv, TypeOK
<1>4. NodesSaid'
  BY <1>1, <1>3, HalfSaidGrows DEF Receive, NodesSaid, SubmittedInv
<1>5. ASSUME NEW d \in Conn, pc'[d] = "register"
      PROVE  pc[d] = "register" /\ current(d)' = current(d)
  BY <1>1, <1>5 DEF Receive, Goto, SubmittedInv, TypeOK, current
<1>6. FoundOther'
  BY <1>3, <1>5, HalfSaidGrows DEF FoundOther, SubmittedInv
<1>7. RegistrationSound'
  BY <1>1, <1>3, SoundGrows DEF Receive, SubmittedInv
<1>8. QED
  BY <1>3, <1>4, <1>6, <1>7

LEMMA SentSame ==
    ASSUME SubmittedInv, sent' = sent
    PROVE  SentGrows /\ \A l, n : HalfSaid(l, n) => HalfSaid(l, n)'
<1>1. SentGrows
  BY DEF SentGrows
<1>2. QED
  BY <1>1, HalfSaidGrows

LEMMA BranchSubmitted ==
    ASSUME SubmittedInv, NEW c \in Conn, NEW l \in List, BranchStep(c, l)
    PROVE  NodesSaid' /\ FoundOther' /\ RegistrationSound'
<1> USE DEF SubmittedInv
<1>1. sent' = sent /\ \A d \in Conn : current(d)' = current(d)
  BY CurrentStays DEF BranchStep, LoadOwn, FindOwn, TestHead, AppendNode,
     LoadOther, FindOther, Register, Bind
<1>2. pc[c] # "idle" /\ current(c).cmd = l
  BY DEF BranchStep, LoadOwn, FindOwn, TestHead, AppendNode, LoadOther, FindOther,
         Register, Bind, At
<1>3. HalfSaid(l, current(c).name) /\ NodeOf(c) \in Node
  BY <1>2, CurrentSaid, CurrentLine
<1>4. NodesSaid'
  <2>1. ASSUME NEW k \in List, NEW r \in Conn, NEW i \in DOMAIN chain'[k][r]
        PROVE  \/ i \in DOMAIN chain[k][r] /\ chain'[k][r][i] = chain[k][r][i]
               \/ k = l /\ chain'[k][r][i] = NodeOf(c)
    <3>1. CASE chain' = chain
      BY <2>1, <3>1
    <3>2. CASE TestHead(c, l) /\ chain' = [chain EXCEPT ![l][c] = <<NodeOf(c)>>]
      <4>1. CASE k = l /\ r = c
        BY <2>1, <3>2, <4>1 DEF TypeOK
      <4>2. CASE ~(k = l /\ r = c)
        <5>1. chain'[k][r] = chain[k][r]
          BY <3>2, <4>2 DEF TypeOK
        <5>2. QED
          BY <2>1, <5>1
      <4>3. QED
        BY <4>1, <4>2
    <3>3. CASE AppendNode(c, l)
      <4>1. chain' = [chain EXCEPT ![l][loaded[c]] = Append(@, NodeOf(c))]
        BY <3>3 DEF AppendNode, add_user_node
      <4>2. chain[k][r] \in Seq(Node)
        BY DEF TypeOK
      <4>3. CASE k = l /\ r = loaded[c]
        <5>1. chain'[k][r] = Append(chain[k][r], NodeOf(c))
          BY <4>1, <4>3 DEF TypeOK
        <5>2. QED
          BY <2>1, <4>2, <4>3, <5>1
      <4>4. CASE ~(k = l /\ r = loaded[c])
        <5>1. chain'[k][r] = chain[k][r]
          BY <4>1, <4>4 DEF TypeOK
        <5>2. QED
          BY <2>1, <5>1
      <4>5. QED
        BY <4>3, <4>4
    <3>4. QED
      BY <3>1, <3>2, <3>3 DEF BranchStep, LoadOwn, FindOwn, TestHead, LoadOther,
                              FindOther, Register, Bind
  <2>2. QED
    BY <1>1, <1>3, <2>1, SentSame DEF NodesSaid, NodeOf
<1>5. FoundOther'
  <2>1. ASSUME NEW d \in Conn, pc'[d] = "register"
        PROVE  \/ pc[d] = "register"
               \/ /\ HalfSaid(OtherList(l), current(d).name)
                  /\ d = c
                  /\ l = "NICK" \/ current(c).nparams = 4
    <3>1. CASE FindOther(c, l, l = "NICK" \/ current(c).nparams = 4)
      <4>1. CASE d = c
        <5>1. /\ find_user_node(OtherList(l), loaded[c], current(c).name)
              /\ l = "NICK" \/ current(c).nparams = 4
          BY <2>1, <3>1, <4>1 DEF FindOther, Goto, TypeOK
        <5>2. loaded[c] \in Conn /\ OtherList(l) \in List
          BY <5>1 DEF find_user_node, TypeOK, OtherList, List
        <5>3. HalfSaid(OtherList(l), current(c).name)
          BY <5>1, <5>2 DEF find_user_node, NodesSaid
        <5>4. QED
          BY <4>1, <5>1, <5>3
      <4>2. CASE d # c
        BY <2>1, <3>1, <4>2 DEF FindOther, Goto, TypeOK
      <4>3. QED
        BY <4>1, <4>2
    <3>2. CASE ~FindOther(c, l, l = "NICK" \/ current(c).nparams = 4)
      BY <2>1, <3>2 DEF BranchStep, LoadOwn, FindOwn, TestHead, AppendNode, LoadOther,
                        Register, Bind, Goto, TypeOK
    <3>3. QED
      BY <3>1, <3>2
  <2>2. l = "USER" => ~(l = "NICK")
    OBVIOUS
  <2>3. QED
    BY <1>1, <1>2, <2>1, <2>2, SentSame DEF FoundOther
<1>6. RegistrationSound'
  <2>1. CASE Register(c, l)
    <3>1. connections' = Append(connections, [name |-> current(c).name, fd |-> c])
      BY <2>1 DEF Register, add_connection_map_node
    <3>2. connections \in Seq(Entry)
      BY DEF TypeOK
    <3>3. ASSUME NEW i \in DOMAIN connections'
          PROVE  \/ i \in DOMAIN connections /\ connections'[i] = connections[i]
                 \/ connections'[i] = [name |-> current(c).name, fd |-> c]
      BY <3>1, <3>2, <3>3
    <3>4. /\ HalfSaid(OtherList(l), current(c).name)
          /\ l = "USER" => current(c).nparams = 4
      BY <1>2, <2>1 DEF Register, At, FoundOther
    <3>5. HalfSaid("NICK", current(c).name) /\ HalfSaid("USER", current(c).name)
      BY <1>3, <3>4 DEF OtherList, List
    <3>6. Len(sent[c]) \in DOMAIN sent[c] /\ current(c) = sent[c][Len(sent[c])]
      BY <1>2, CurrentSaid
    <3>7. Submitted(current(c).name, c)
      BY <1>2, <3>4, <3>5, <3>6 DEF Submitted, Said, HalfSaid, List
    <3>8. ASSUME NEW n, NEW d \in Conn, Submitted(n, d) PROVE Submitted(n, d)'
      BY <1>1, <3>8, SentSame, SubmittedGrows
    <3>9. ASSUME NEW i \in DOMAIN connections'
          PROVE  \E e \in Entry : connections'[i] = e /\ Submitted(e.name, e.fd)'
      <4>1. CASE i \in DOMAIN connections /\ connections'[i] = connections[i]
        <5>1. connections[i] \in Entry
          BY <3>2, <4>1
        <5>2. PICK e \in Entry : e = connections[i] /\ e.fd \in Conn
          BY <5>1 DEF Entry
        <5>3. Submitted(e.name, e.fd)
          BY <4>1, <5>2 DEF RegistrationSound
        <5>4. QED
          BY <3>8, <4>1, <5>2, <5>3
      <4>2. CASE connections'[i] = [name |-> current(c).name, fd |-> c]
        <5>1. PICK e \in Entry : e = [name |-> current(c).name, fd |-> c]
          BY <1>2, CurrentLine DEF Entry, Line
        <5>2. e.name = current(c).name /\ e.fd = c
          BY <5>1
        <5>3. Submitted(e.name, e.fd)'
          BY <3>7, <3>8, <5>2
        <5>4. QED
          BY <4>2, <5>1, <5>3
      <4>3. QED
        BY <3>3, <3>9, <4>1, <4>2
    <3>10. QED
      BY <3>9 DEF RegistrationSound, Submitted, Said
  <2>2. CASE ~Register(c, l)
    <3>1. connections' = connections
      BY <2>2 DEF BranchStep, LoadOwn, FindOwn, TestHead, AppendNode, LoadOther,
                  FindOther, Bind
    <3>2. QED
      BY <1>1, <3>1, SentSame, SoundGrows
  <2>3. QED
    BY <2>1, <2>2
<1>7. QED
  BY <1>4, <1>5, <1>6

LEMMA SubmittedStep == SubmittedInv /\ [Next]_vars => SubmittedInv'
<1> SUFFICES ASSUME SubmittedInv, [Next]_vars PROVE SubmittedInv'
  OBVIOUS
<1>1. TypeOK' /\ ControlOK'
  BY NextControl DEF SubmittedInv
<1>2. ASSUME sent' = sent, chain' = chain, pc' = pc, connections' = connections
      PROVE  NodesSaid' /\ FoundOther' /\ RegistrationSound'
  <2>1. \A d \in Conn : current(d)' = current(d)
    BY <1>2, CurrentStays
  <2>2. RegistrationSound'
    BY <1>2, SentSame, SoundGrows DEF SubmittedInv
  <2>3. QED
    BY <1>2, <2>1, <2>2, SentSame DEF SubmittedInv, NodesSaid, FoundOther
<1>3. CASE Next
  <2>1. PICK c \in Conn :
           \/ ReceiveStep(c)
           \/ \E l \in List : BranchStep(c, l)
           \/ FlushHead(c)
    BY <1>3, StepCases
  <2>2. ASSUME FlushHead(c) PROVE NodesSaid' /\ FoundOther' /\ RegistrationSound'
    <3>1. sent' = sent /\ chain' = chain /\ pc' = pc /\ connections' = connections
      BY <2>2 DEF FlushHead
    <3>2. QED
      BY <1>2, <3>1
  <2>3. NodesSaid' /\ FoundOther' /\ RegistrationSound'
    BY <2>1, <2>2, <1>2, ReceiveSubmitted, BranchSubmitted
  <2>4. QED
    BY <1>1, <2>3 DEF SubmittedInv
<1>4. CASE UNCHANGED vars
  BY <1>1, <1>2, <1>4 DEF vars, SubmittedInv
<1>5. QED
  BY <1>3, <1>4

\* Whatever the handlers interleave, a nick is registered only for a connection
\* that named it, and only after both halves of it were sent.
THEOREM RegistrationCorrect == Spec => []RegistrationSound
<1>1. Init => SubmittedInv
  <2>1. ASSUME Init PROVE NodesSaid /\ FoundOther /\ RegistrationSound
    BY <2>1 DEF Init, NodesSaid, FoundOther, RegistrationSound
  <2>2. QED
    BY <2>1, InitControl DEF SubmittedInv
<1>2. SubmittedInv => RegistrationSound
  BY DEF SubmittedInv
<1>3. QED
  BY <1>1, <1>2, SubmittedStep, PTL DEF Spec

-----------------------------------------------------------------------------
(* The nodes of the lists *)

\* Some node of the chain that r heads has the name.
Holding(l, r, n) == \E i \in DOMAIN chain[l][r] : chain[l][r][i].name = n

\* r does not head l, and no store of its is on the way.
Lost(l, r) == head[l] # r /\ ~Storing(r, l)

\* Until its store reaches memory a new head is a chain of one node that nobody sees.
StoringOK ==
    \A l \in List, c \in Conn :
        Storing(c, l) => chain[l][c] = <<NodeOf(c)>> /\ head[l] # c

\* A list somebody has started has a head, but for the stores on the way.
HeadOK ==
    \A l \in List, c \in Conn : chain[l][c] # <<>> => Storing(c, l) \/ head[l] # None

\* A thread appends to a chain that everyone could see.
AppendOK ==
    \A c \in Conn : pc[c] = "append" =>
        head[current(c).cmd] # None /\ ~Storing(loaded[c], current(c).cmd)

\* Two threads inside a branch for one name have been noted.
OverlapOK ==
    \A c, d \in Conn :
        c # d /\ pc[c] # "idle" /\ pc[d] # "idle" /\ current(c).name = current(d).name
            => current(c).name \in overlapped

\* A thread alone on its name, once it has loaded the head, holds every chain that
\* has the name and could still be seen; once it has searched, there is none.
AbsentOK ==
    \A c \in Conn :
        pc[c] \in {"find", "test", "append"} /\ current(c).name \notin overlapped =>
            /\ \A r \in Conn : Holding(current(c).cmd, r, current(c).name) =>
                  (pc[c] = "find" /\ r = loaded[c]) \/ Lost(current(c).cmd, r)
            /\ pc[c] = "append" => ~Holding(current(c).cmd, loaded[c], current(c).name)

\* Chains, reachable or not, have a name twice only after an overlap.
ChainsUnique ==
    \A l \in List, r \in Conn : \A i, j \in DOMAIN chain[l][r] :
        i # j /\ chain[l][r][i].name = chain[l][r][j].name =>
            chain[l][r][i].name \in overlapped

ListParts == StoringOK /\ HeadOK /\ AppendOK /\ OverlapOK /\ AbsentOK /\ ChainsUnique

\* The name has, or had, a USER node.
HasUser(n) == \E r \in Conn : Holding("USER", r, n)

UserHeld ==
    /\ \A i \in DOMAIN connections : HasUser(connections[i].name)
    /\ \A c \in Conn :
          \/ pc[c] = "register"
          \/ pc[c] \in {"load_other", "find_other"} /\ current(c).cmd = "USER"
          => HasUser(current(c).name)

\* A thread alone on its name, inside the NICK branch, or inside the USER branch
\* beyond its search: the name is not registered, unless a head was lost.
Fresh ==
    \A c \in Conn :
        /\ pc[c] \notin {"idle", "bind"}
        /\ current(c).name \notin overlapped
        /\ current(c).cmd = "USER" => pc[c] \notin {"load", "find"} /\ ~HeadLost("USER")
        => ~find_connection_map_node(current(c).name)

NickParts == UserHeld /\ Fresh /\ UniqueNick

\* A node for the name behind the head.
Behind(l, n) ==
    head[l] # None /\ \E i \in DOMAIN chain[l][head[l]] : i > 1 /\ chain[l][head[l]][i].name = n

\* The thread will find the other half of n and register it.
WillRegister(c, n) ==
    /\ current(c).name = n
    /\ current(c).cmd = "USER" => current(c).nparams = 4
    /\ \/ pc[c] \in {"load_other", "register"}
       \/ pc[c] = "find_other" /\ loaded[c] = head[OtherList(current(c).cmd)]

\* Two halves behind the heads are registered, or a thread is about to do it.
Paired ==
    \A n \in Name :
        /\ Behind("NICK", n) /\ Behind("USER", n)
        /\ \A i \in DOMAIN Reachable("USER") :
              Reachable("USER")[i].name = n => Reachable("USER")[i].nparams = 4
        => find_connection_map_node(n) \/ \E c \in Conn : WillRegister(c, n)

-----------------------------------------------------------------------------
(* What a step changes *)

\* A step of a branch is the thread's own, and leaves heads and lines alone.
LEMMA BranchFrame ==
    ASSUME TypeOK, NEW c \in Conn, NEW l \in List, BranchStep(c, l)
    PROVE  /\ sent' = sent /\ overlapped' = overlapped /\ head' = head
           /\ \A d \in Conn : current(d)' = current(d) /\ NodeOf(d)' = NodeOf(d)
           /\ pc[c] # "idle" /\ current(c).cmd = l
           /\ \A d \in Conn \ {c} : /\ pc'[d] = pc[d]
                                     /\ loaded'[d] = loaded[d]
                                     /\ pending'[d] = pending[d]
<1>1. sent' = sent /\ overlapped' = overlapped /\ head' = head
  BY DEF BranchStep, LoadOwn, FindOwn, TestHead, AppendNode, LoadOther, FindOther, Register, Bind
<1>2. pc[c] # "idle" /\ current(c).cmd = l
  BY DEF BranchStep, LoadOwn, FindOwn, TestHead, AppendNode, LoadOther, FindOther, Register,
         Bind, At
<1>3. \A d \in Conn \ {c} : pc'[d] = pc[d] /\ loaded'[d] = loaded[d] /\ pending'[d] = pending[d]
  BY DEF TypeOK, BranchStep, LoadOwn, FindOwn, TestHead, AppendNode, LoadOther, FindOther,
         Register, Bind, Goto
<1>4. QED
  BY <1>1, <1>2, <1>3 DEF current, NodeOf

\* Only a thread at its test or its insertion changes a chain: it starts its own,
\* or appends its node to the one it loaded.
LEMMA ChainCases ==
    ASSUME TypeOK, ControlOK, ListParts, NEW c \in Conn, NEW l \in List, BranchStep(c, l)
    PROVE  \/ chain' = chain
           \/ /\ pc[c] = "test" /\ TestHead(c, l) /\ head[l] = None
              /\ chain[l][c] = <<>> /\ chain'[l][c] = <<NodeOf(c)>>
              /\ \A k \in List, r \in Conn : k # l \/ r # c => chain'[k][r] = chain[k][r]
           \/ /\ pc[c] = "append" /\ AppendNode(c, l) /\ loaded[c] \in Conn
              /\ chain'[l][loaded[c]] = Append(chain[l][loaded[c]], NodeOf(c))
              /\ \A k \in List, r \in Conn : k # l \/ r # loaded[c] => chain'[k][r] = chain[k][r]
<1>1. CASE TestHead(c, l)
  <2>1. CASE head[l] = None
    <3>1. chain' = [chain EXCEPT ![l][c] = <<NodeOf(c)>>] /\ pc[c] = "test"
      BY <1>1, <2>1 DEF TestHead, At
    <3>2. ~Storing(c, l)
      BY <3>1 DEF ControlOK, Storing
    <3>3. chain[l][c] = <<>>
      BY <2>1, <3>2 DEF ListParts, HeadOK
    <3>4. /\ chain'[l][c] = <<NodeOf(c)>>
          /\ \A k \in List, r \in Conn : k # l \/ r # c => chain'[k][r] = chain[k][r]
      BY <3>1 DEF TypeOK
    <3>5. QED
      BY <1>1, <2>1, <3>1, <3>3, <3>4
  <2>2. CASE head[l] # None
    BY <1>1, <2>2 DEF TestHead
  <2>3. QED
    BY <2>1, <2>2
<1>2. CASE AppendNode(c, l)
  <2>1. chain' = [chain EXCEPT ![l][loaded[c]] = Append(@, NodeOf(c))] /\ pc[c] = "append"
    BY <1>2 DEF AppendNode, add_user_node, At
  <2>2. loaded[c] \in Conn
    BY <2>1 DEF ControlOK, TypeOK
  <2>3. QED
    BY <1>2, <2>1, <2>2 DEF TypeOK
<1>3. QED
  BY <1>1, <1>2 DEF BranchStep, LoadOwn, FindOwn, LoadOther, FindOther, Register, Bind

\* Chains only grow, by the name of the thread's line.
LEMMA HoldingCases ==
    ASSUME TypeOK, ControlOK, ListParts, NEW c \in Conn, NEW l \in List, BranchStep(c, l),
           NEW k \in List, NEW r \in Conn, NEW n
    PROVE  /\ Holding(k, r, n) => Holding(k, r, n)'
           /\ Holding(k, r, n)' =>
                 \/ Holding(k, r, n)
                 \/ /\ k = l /\ n = current(c).name
                    /\ \/ pc[c] = "test" /\ r = c
                       \/ pc[c] = "append" /\ r = loaded[c]
<1>1. NodeOf(c).name = current(c).name
  BY DEF NodeOf
<1>2. CASE chain'[k][r] = chain[k][r]
  BY <1>2 DEF Holding
<1>3. CASE pc[c] = "test" /\ k = l /\ r = c /\ chain[l][c] = <<>> /\ chain'[l][c] = <<NodeOf(c)>>
  BY <1>1, <1>3 DEF Holding
<1>4. CASE /\ pc[c] = "append" /\ k = l /\ r = loaded[c]
           /\ chain'[l][loaded[c]] = Append(chain[l][loaded[c]], NodeOf(c))
  <2>1. chain[k][r] \in Seq(Node)
    BY DEF TypeOK
  <2>2. chain'[k][r] = Append(chain[k][r], NodeOf(c))
    BY <1>4
  <2>3. \A i \in DOMAIN chain[k][r] : i \in DOMAIN chain'[k][r]
                                     /\ chain'[k][r][i] = chain[k][r][i]
    BY <2>1, <2>2
  <2>4. \A i \in DOMAIN chain'[k][r] : \/ i \in DOMAIN chain[k][r]
                                       \/ chain'[k][r][i] = NodeOf(c)
    BY <2>1, <2>2
  <2>5. QED
    BY <1>1, <1>4, <2>3, <2>4 DEF Holding
<1>5. QED
  BY <1>2, <1>3, <1>4, ChainCases

\* A store to a head is buffered by the test of an empty head only.
LEMMA StoringCases ==
    ASSUME TypeOK, ControlOK, NEW c \in Conn, NEW l \in List, BranchStep(c, l),
           NEW k \in List, NEW d \in Conn
    PROVE  /\ Storing(d, k) => Storing(d, k)'
           /\ Storing(d, k)' => \/ Storing(d, k)
                                \/ /\ d = c /\ k = l /\ pc[c] = "test" /\ TestHead(c, l)
                                   /\ head[l] = None
<1>1. current(d)' = current(d) /\ current(c).cmd = l
  BY BranchFrame
<1>2. pending'[d] # pending[d] => /\ d = c /\ pc[c] = "test" /\ TestHead(c, l) /\ head[l] = None
                                  /\ pending'[c]
  BY DEF TypeOK, BranchStep, LoadOwn, FindOwn, TestHead, AppendNode, LoadOther, FindOther,
         Register, Bind, At
<1>3. pending[d] => pending'[d]
  BY <1>2
<1>4. QED
  BY <1>1, <1>2, <1>3 DEF Storing

-----------------------------------------------------------------------------
(* The list invariant: reading a line, and draining a buffer *)

LEMMA ReceiveFrame ==
    ASSUME TypeOK, ControlOK, NEW c \in Conn, ReceiveStep(c)
    PROVE  /\ pc[c] = "idle" /\ pc'[c] \in {"idle", "load"}
           /\ \A d \in Conn \ {c} : /\ pc'[d] = pc[d] /\ current(d)' = current(d)
                                    /\ NodeOf(d)' = NodeOf(d)
           /\ UNCHANGED <<head, chain, pending, loaded, connections, sockfdNick>>
           /\ overlapped \subseteq overlapped'
           /\ \A k : \A d \in Conn : Storing(d, k)' <=> Storing(d, k)
<1>1. PICK line \in Line : Receive(c, line) /\ (Goto(c, "idle") \/ Goto(c, "load"))
  BY DEF ReceiveStep
<1>2. /\ pc[c] = "idle" /\ pc'[c] \in {"idle", "load"} /\ ~pending[c]
      /\ \A d \in Conn \ {c} : pc'[d] = pc[d] /\ sent'[d] = sent[d]
  BY <1>1 DEF Receive, Goto, TypeOK, ControlOK
<1>3. UNCHANGED <<head, chain, pending, loaded, connections, sockfdNick>>
  BY <1>1 DEF Receive
<1>4. overlapped \subseteq overlapped'
  BY <1>1 DEF Receive
<1>5. \A d \in Conn \ {c} : current(d)' = current(d) /\ NodeOf(d)' = NodeOf(d)
  BY <1>2 DEF current, NodeOf
<1>6. QED
  BY <1>2, <1>3, <1>4, <1>5 DEF Storing

LEMMA ReceiveList ==
    ASSUME TypeOK, ControlOK, ListParts, NEW c \in Conn, ReceiveStep(c)
    PROVE  ListParts'
<1> USE ReceiveFrame DEF ListParts
<1>1. StoringOK'
  <2>1. ASSUME NEW l \in List, NEW d \in Conn, Storing(d, l) PROVE NodeOf(d)' = NodeOf(d)
    BY <2>1 DEF Storing, ControlOK
  <2>2. QED
    BY <2>1 DEF StoringOK
<1>2. HeadOK'
  BY DEF HeadOK
<1>3. AppendOK'
  <2>1. ASSUME NEW d \in Conn, pc'[d] = "append"
        PROVE  head'[current(d).cmd] # None /\ ~Storing(loaded[d], current(d).cmd)'
    <3>1. d # c /\ pc[d] = "append"
      BY <2>1
    <3>2. loaded[d] \in Conn
      BY <3>1 DEF ControlOK, TypeOK
    <3>3. QED
      BY <3>1, <3>2 DEF AppendOK
  <2>2. QED
    BY <2>1 DEF AppendOK
<1>4. OverlapOK'
  <2>1. PICK line \in Line : Receive(c, line)
    BY DEF ReceiveStep
  <2>2. current(c)' = line
    <3>1. sent[c] \in Seq(Line) /\ sent'[c] = Append(sent[c], line)
      BY <2>1 DEF Receive, TypeOK
    <3>2. QED
      BY <3>1 DEF current
  <2>3. \A d \in Conn \ {c} : pc[d] # "idle" /\ current(d).name = line.name
                                 => line.name \in overlapped'
    BY <2>1 DEF Receive
  <2>4. QED
    BY <2>2, <2>3 DEF OverlapOK
<1>5. AbsentOK'
  <2> SUFFICES ASSUME NEW d \in Conn, pc'[d] \in {"find", "test", "append"},
                      current(d)'.name \notin overlapped'
               PROVE  /\ \A r \in Conn : Holding(current(d).cmd, r, current(d).name) =>
                            (pc[d] = "find" /\ r = loaded[d]) \/ Lost(current(d).cmd, r)
                      /\ pc[d] = "append" => ~Holding(current(d).cmd, loaded[d], current(d).name)
    BY DEF AbsentOK, Holding, Lost
  <2>1. d # c /\ current(d).name \notin overlapped
    OBVIOUS
  <2>2. QED
    BY <2>1 DEF AbsentOK
<1>6. ChainsUnique'
  BY DEF ChainsUnique
<1>7. QED
  BY <1>1, <1>2, <1>3, <1>4, <1>5, <1>6

LEMMA FlushFrame ==
    ASSUME TypeOK, ControlOK, NEW c \in Conn, FlushHead(c)
    PROVE  /\ UNCHANGED <<chain, loaded, pc, connections, sockfdNick, sent, overlapped>>
           /\ \A d \in Conn : current(d)' = current(d) /\ NodeOf(d)' = NodeOf(d)
           /\ current(c).cmd \in List /\ Storing(c, current(c).cmd)
           /\ head'[current(c).cmd] = c
           /\ \A l \in List : l # current(c).cmd => head'[l] = head[l]
           /\ \A l : \A d \in Conn : Storing(d, l)' <=> Storing(d, l) /\ d # c
<1>1. UNCHANGED <<chain, loaded, pc, connections, sockfdNick, sent, overlapped>>
  BY DEF FlushHead
<1>2. current(c).cmd \in List
  <2>1. pc[c] # "idle"
    BY DEF FlushHead, ControlOK
  <2>2. QED
    BY <2>1, CurrentLine DEF Line
<1>3. /\ pending[c] /\ head' = [head EXCEPT ![current(c).cmd] = c]
      /\ pending' = [pending EXCEPT ![c] = FALSE]
  BY DEF FlushHead
<1>4. QED
  BY <1>1, <1>2, <1>3 DEF current, NodeOf, Storing, TypeOK

LEMMA FlushList ==
    ASSUME TypeOK, ControlOK, ListParts, NEW c \in Conn, FlushHead(c)
    PROVE  ListParts'
<1> USE FlushFrame DEF ListParts
<1>1. StoringOK'
  BY DEF StoringOK
<1>2. HeadOK'
  BY NoneAssumption DEF HeadOK, Storing
<1>3. AppendOK'
  <2>1. ASSUME NEW d \in Conn, pc[d] = "append" PROVE loaded[d] \in Conn
    BY <2>1 DEF ControlOK, TypeOK
  <2>2. ASSUME NEW d \in Conn, pc[d] = "append" PROVE current(d).cmd \in List
    BY <2>2, CurrentLine DEF Line
  <2>3. QED
    BY <2>1, <2>2, NoneAssumption DEF AppendOK
<1>4. OverlapOK'
  BY DEF OverlapOK
<1>5. AbsentOK'
  <2> SUFFICES ASSUME NEW d \in Conn, pc[d] \in {"find", "test", "append"},
                      current(d).name \notin overlapped, NEW r \in Conn,
                      Holding(current(d).cmd, r, current(d).name),
                      ~(pc[d] = "find" /\ r = loaded[d])
               PROVE  Lost(current(d).cmd, r)'
    BY DEF AbsentOK, Holding
  <2>1. Lost(current(d).cmd, r) /\ current(d).cmd \in List
    BY CurrentLine DEF AbsentOK, Line
  <2>2. r # c \/ current(c).cmd # current(d).cmd
    BY <2>1 DEF Lost
  <2>3. QED
    BY <2>1, <2>2 DEF Lost
<1>6. ChainsUnique'
  BY DEF ChainsUnique
<1>7. QED
  BY <1>1, <1>2, <1>3, <1>4, <1>5, <1>6

-----------------------------------------------------------------------------
(* The list invariant: the steps of a branch *)

LEMMA BranchStores ==
    ASSUME TypeOK, ControlOK, ListParts, NEW c \in Conn, NEW l \in List, BranchStep(c, l)
    PROVE  StoringOK' /\ HeadOK' /\ AppendOK' /\ OverlapOK'
<1> USE BranchFrame DEF ListParts
<1>1. StoringOK'
  <2> SUFFICES ASSUME NEW k \in List, NEW d \in Conn, Storing(d, k)'
               PROVE  chain'[k][d] = <<NodeOf(d)>> /\ head[k] # d
    BY DEF StoringOK
  <2>1. CASE Storing(d, k)
    <3>1. chain[k][d] = <<NodeOf(d)>> /\ head[k] # d
      BY <2>1 DEF StoringOK
    <3>2. chain'[k][d] = chain[k][d]
      <4>1. ~(pc[c] = "test" /\ k = l /\ d = c)
        BY <2>1 DEF Storing, ControlOK
      <4>2. ~(pc[c] = "append" /\ k = l /\ d = loaded[c])
        BY <2>1 DEF AppendOK
      <4>3. QED
        BY <4>1, <4>2, ChainCases
    <3>3. QED
      BY <3>1, <3>2
  <2>2. CASE ~Storing(d, k)
    <3>1. d = c /\ k = l /\ pc[c] = "test" /\ TestHead(c, l) /\ head[l] = None
      BY <2>2, StoringCases
    <3>2. chain' = [chain EXCEPT ![l][c] = <<NodeOf(c)>>]
      BY <3>1 DEF TestHead
    <3>3. chain'[l][c] = <<NodeOf(c)>>
      BY <3>2 DEF TypeOK
    <3>4. QED
      BY <3>1, <3>3, NoneAssumption
  <2>3. QED
    BY <2>1, <2>2
<1>2. HeadOK'
  <2> SUFFICES ASSUME NEW k \in List, NEW d \in Conn, chain'[k][d] # <<>>
               PROVE  Storing(d, k)' \/ head[k] # None
    BY DEF HeadOK
  <2>1. CASE chain[k][d] # <<>>
    BY <2>1, StoringCases DEF HeadOK
  <2>2. CASE chain[k][d] = <<>>
    <3>1. chain'[k][d] # chain[k][d]
      BY <2>2
    <3>2. CASE pc[c] = "append" /\ k = l
      BY <3>2 DEF AppendOK
    <3>3. CASE pc[c] = "test" /\ TestHead(c, l) /\ k = l /\ d = c /\ head[l] = None
      BY <3>3 DEF TestHead, Storing, TypeOK
    <3>4. QED
      BY <3>1, <3>2, <3>3, ChainCases
  <2>3. QED
    BY <2>1, <2>2
<1>3. AppendOK'
  <2> SUFFICES ASSUME NEW d \in Conn, pc'[d] = "append",
                      NEW h, h = loaded'[d], NEW k, k = current(d).cmd
               PROVE  head[k] # None /\ ~Storing(h, k)'
    BY DEF AppendOK, Storing
  <2>1. h \in Conn /\ head[k] # None /\ ~Storing(h, k) /\ k \in List
    <3>1. CASE d # c
      <4>1. pc[d] = "append" /\ h = loaded[d]
        BY <3>1
      <4>2. k \in List
        BY <4>1, CurrentLine DEF Line
      <4>3. QED
        BY <4>1, <4>2 DEF AppendOK, ControlOK, TypeOK
    <3>2. CASE d = c
      <4>1. TestHead(c, l) /\ head[l] # None /\ loaded' = [loaded EXCEPT ![c] = head[l]]
        BY <3>2 DEF TypeOK, BranchStep, LoadOwn, FindOwn, TestHead, AppendNode, LoadOther,
                    FindOther, Register, Bind, Goto
      <4>2. QED
        BY <3>2, <4>1 DEF TypeOK, StoringOK
    <3>3. QED
      BY <3>1, <3>2
  <2>2. QED
    BY <2>1, StoringCases
<1>4. OverlapOK'
  <2>1. \A d \in Conn : pc'[d] # "idle" => pc[d] # "idle"
    OBVIOUS
  <2>2. QED
    BY <2>1 DEF OverlapOK
<1>5. QED
  BY <1>1, <1>2, <1>3, <1>4

LEMMA BranchAbsent ==
    ASSUME TypeOK, ControlOK, ListParts, NEW c \in Conn, NEW l \in List, BranchStep(c, l)
    PROVE  AbsentOK'
<1> USE BranchFrame DEF ListParts
<1>0. overlapped' = overlapped /\ \A d \in Conn : current(d)' = current(d)
  OBVIOUS
<1> SUFFICES ASSUME NEW d \in Conn, pc'[d] \in {"find", "test", "append"},
                    NEW k, k = current(d).cmd, NEW n, n = current(d).name, n \notin overlapped,
                    NEW h, h = loaded'[d]
             PROVE  /\ \A r \in Conn : Holding(k, r, n)' =>
                          (pc'[d] = "find" /\ r = h) \/ Lost(k, r)'
                    /\ pc'[d] = "append" => ~Holding(k, h, n)'
  BY <1>0, Zenon DEF AbsentOK
<1>1. k \in List /\ pc[d] # "idle"
  BY CurrentLine DEF Line
<1>2. ~pending'[d]
  <2>1. ControlOK'
    BY BranchControl
  <2>2. QED
    BY <2>1 DEF ControlOK
<1>3. CASE d # c
  <2>1. current(c).name # n
    BY <1>1, <1>3 DEF OverlapOK
  <2>2. ASSUME NEW r \in Conn, Holding(k, r, n)' PROVE Holding(k, r, n)
    BY <1>1, <2>1, <2>2, HoldingCases
  <2>3. ASSUME NEW r \in Conn, Holding(k, r, n), Lost(k, r) PROVE Lost(k, r)'
    <3>1. CASE Storing(r, k)'
      <4>1. r = c /\ k = l /\ pc[c] = "test" /\ TestHead(c, l) /\ head[l] = None
        BY <1>1, <2>3, <3>1, StoringCases DEF Lost
      <4>2. chain[k][r] = <<>> \/ Storing(c, l)
        BY <4>1 DEF HeadOK
      <4>3. QED
        BY <2>3, <4>1, <4>2 DEF Holding, Lost
    <3>2. CASE ~Storing(r, k)'
      BY <1>1, <2>3, <3>2 DEF Lost
    <3>3. QED
      BY <3>1, <3>2
  <2>4. pc[d] = "append" => loaded[d] \in Conn
    BY DEF ControlOK, TypeOK
  <2>5. /\ \A r \in Conn : Holding(k, r, n) => (pc[d] = "find" /\ r = loaded[d]) \/ Lost(k, r)
        /\ pc[d] = "append" => ~Holding(k, loaded[d], n)
    BY <1>3 DEF AbsentOK
  <2>6. pc'[d] = pc[d] /\ loaded'[d] = loaded[d]
    BY <1>3
  <2>7. QED
    BY <2>2, <2>3, <2>4, <2>5, <2>6
<1>4. CASE d = c
  <2>1. k = l
    BY <1>4
  <2>2. CASE LoadOwn(c, l)
    <3>1. /\ chain' = chain /\ pending' = pending /\ pc[c] = "load"
          /\ loaded'[c] = head[l]
          /\ pc'[c] = IF head[l] = None THEN "test" ELSE "find"
      BY <2>2 DEF LoadOwn, Goto, At, TypeOK
    <3>2. ASSUME NEW r \in Conn, Holding(k, r, n), head[l] # r PROVE Lost(k, r)'
      <4>1. CASE Storing(r, k)
        <5>1. chain[k][r] = <<NodeOf(r)>>
          BY <1>1, <4>1 DEF StoringOK
        <5>2. current(r).name = n
          BY <3>2, <5>1 DEF Holding, NodeOf
        <5>3. pending[r] /\ ~pending[c] /\ pc[r] # "idle"
          BY <3>1, <4>1 DEF Storing, ControlOK
        <5>4. QED
          BY <1>1, <1>4, <5>2, <5>3 DEF OverlapOK
      <4>2. CASE ~Storing(r, k)
        BY <1>1, <2>1, <3>1, <3>2, <4>2 DEF Lost, Storing
      <4>3. QED
        BY <4>1, <4>2
    <3>3. ASSUME NEW r \in Conn, Holding(k, r, n)' PROVE Holding(k, r, n)
      BY <3>1, <3>3 DEF Holding
    <3>4. QED
      BY <1>4, <3>1, <3>2, <3>3, NoneAssumption
  <2>3. CASE FindOwn(c, l)
    <3>1. /\ chain' = chain /\ pending' = pending /\ pc[c] = "find"
          /\ ~find_user_node(l, loaded[c], n)
          /\ pc'[c] = "test" /\ loaded' = loaded
      BY <1>4, <2>3 DEF FindOwn, Goto, At, TypeOK
    <3>2. \A r \in Conn : Lost(k, r) => Lost(k, r)'
      BY <3>1 DEF Lost, Storing
    <3>3. \A r \in Conn : Holding(k, r, n)' => Holding(k, r, n) /\ r # loaded[c]
      BY <2>1, <3>1, NoneAssumption DEF Holding, find_user_node
    <3>4. QED
      BY <1>4, <3>1, <3>2, <3>3 DEF AbsentOK
  <2>4. CASE TestHead(c, l)
    <3>1. /\ head[l] # None /\ loaded'[c] = head[l] /\ pc[c] = "test" /\ pc'[c] = "append"
          /\ chain' = chain /\ pending' = pending
      BY <1>4, <2>4 DEF TestHead, Goto, At, TypeOK
    <3>2. \A r \in Conn : Lost(k, r) => Lost(k, r)'
      BY <3>1 DEF Lost, Storing
    <3>3. \A r \in Conn : Holding(k, r, n)' => Holding(k, r, n)
      BY <3>1 DEF Holding
    <3>4. head[l] \in Conn
      BY <3>1 DEF TypeOK
    <3>5. \A r \in Conn : Holding(k, r, n) => Lost(k, r)
      BY <1>4, <3>1 DEF AbsentOK
    <3>6. ~Lost(k, head[l])
      BY <2>1 DEF Lost
    <3>7. QED
      BY <1>4, <3>1, <3>2, <3>3, <3>4, <3>5, <3>6
  <2>5. CASE ~LoadOwn(c, l) /\ ~FindOwn(c, l) /\ ~TestHead(c, l)
    BY <1>4, <2>5 DEF BranchStep, AppendNode, LoadOther, FindOther, Register, Bind, Goto, TypeOK
  <2>6. QED
    BY <2>2, <2>3, <2>4, <2>5
<1>5. QED
  BY <1>3, <1>4

LEMMA BranchUnique ==
    ASSUME TypeOK, ControlOK, ListParts, NEW c \in Conn, NEW l \in List, BranchStep(c, l)
    PROVE  ChainsUnique'
<1> USE BranchFrame DEF ListParts
<1> SUFFICES ASSUME NEW k \in List, NEW r \in Conn, NEW i \in DOMAIN chain'[k][r],
                    NEW j \in DOMAIN chain'[k][r], i # j,
                    chain'[k][r][i].name = chain'[k][r][j].name
             PROVE  chain'[k][r][i].name \in overlapped
  BY DEF ChainsUnique
<1>1. CASE chain'[k][r] = chain[k][r]
  BY <1>1 DEF ChainsUnique
<1>2. CASE chain'[k][r] = <<NodeOf(c)>>
  BY <1>2
<1>3. CASE /\ pc[c] = "append" /\ k = l /\ r = loaded[c]
           /\ chain'[l][loaded[c]] = Append(chain[l][loaded[c]], NodeOf(c))
  <2>1. chain[k][r] \in Seq(Node) /\ chain'[k][r] = Append(chain[k][r], NodeOf(c))
    BY <1>3 DEF TypeOK
  <2>2. \A m \in DOMAIN chain'[k][r] :
           \/ m \in DOMAIN chain[k][r] /\ chain'[k][r][m] = chain[k][r][m]
           \/ m = Len(chain[k][r]) + 1 /\ chain'[k][r][m] = NodeOf(c)
    BY <2>1
  <2>3. CASE i \in DOMAIN chain[k][r] /\ j \in DOMAIN chain[k][r]
    BY <2>1, <2>3 DEF ChainsUnique
  <2>4. CASE i \notin DOMAIN chain[k][r] \/ j \notin DOMAIN chain[k][r]
    <3>1. PICK m \in DOMAIN chain[k][r] :
              chain[k][r][m].name = NodeOf(c).name /\ chain'[k][r][i].name = NodeOf(c).name
      BY <2>2, <2>4
    <3>2. NodeOf(c).name = current(c).name
      BY DEF NodeOf
    <3>3. Holding(l, loaded[c], current(c).name)
      BY <1>3, <3>1, <3>2 DEF Holding
    <3>4. current(c).name \in overlapped
      BY <1>3, <3>3 DEF AbsentOK
    <3>5. QED
      BY <3>1, <3>2, <3>4
  <2>5. QED
    BY <2>3, <2>4
<1>4. QED
  BY <1>1, <1>2, <1>3, ChainCases

LEMMA ListStep == TypeOK /\ ControlOK /\ ListParts /\ [Next]_vars => ListParts'
<1> SUFFICES ASSUME TypeOK, ControlOK, ListParts, [Next]_vars PROVE ListParts'
  OBVIOUS
<1>1. CASE Next
  BY <1>1, StepCases, ReceiveList, FlushList, BranchStores, BranchAbsent, BranchUnique
     DEF ListParts
<1>2. CASE UNCHANGED vars
  <2>1. /\ sent' = sent /\ pc' = pc /\ loaded' = loaded /\ pending' = pending
        /\ head' = head /\ chain' = chain /\ overlapped' = overlapped
    BY <1>2 DEF vars
  <2>2. StoringOK' /\ HeadOK'
    BY <2>1 DEF ListParts, StoringOK, HeadOK, Storing, NodeOf, current
  <2>3. AppendOK'
    BY <2>1 DEF ListParts, AppendOK, Storing, current
  <2>4. OverlapOK'
    BY <2>1 DEF ListParts, OverlapOK, current
  <2>5. AbsentOK'
    BY <2>1 DEF ListParts, AbsentOK, Holding, Lost, Storing, current
  <2>6. ChainsUnique'
    BY <2>1 DEF ListParts, ChainsUnique
  <2>7. QED
    BY <2>2, <2>3, <2>4, <2>5, <2>6 DEF ListParts
<1>3. QED
  BY <1>1, <1>2

LEMMA ListCorrect == Spec => [](TypeOK /\ ControlOK /\ ListParts)
<1>1. Init => ListParts
  BY DEF Init, ListParts, StoringOK, HeadOK, AppendOK, OverlapOK, AbsentOK, ChainsUnique, Storing
<1>2. QED
  BY <1>1, ControlCorrect, ListStep, PTL DEF Spec

\* However the handlers interleave, a list has a name twice only if two of them were
\* at work on it at once.
THEOREM UniqueNodeCorrect == Spec => []UniqueNode
<1>1. TypeOK /\ ListParts => UniqueNode
  <2> SUFFICES ASSUME TypeOK, ChainsUnique PROVE UniqueNode
    BY DEF ListParts
  <2>1. ASSUME NEW l \in List PROVE Reachable(l) = <<>> \/ \E r \in Conn : Reachable(l) = chain[l][r]
    BY DEF TypeOK, Reachable
  <2>2. QED
    BY <2>1 DEF UniqueNode, ChainsUnique
<1>2. QED
  BY <1>1, ListCorrect, PTL

-----------------------------------------------------------------------------
(* connection_hash *)

\* A name in connection_hash is some entry's.
LEMMA RegisterCases ==
    ASSUME TypeOK, NEW c \in Conn, NEW l \in List, BranchStep(c, l)
    PROVE  \/ connections' = connections /\ ~Register(c, l)
           \/ /\ pc[c] = "register" /\ pc'[c] = "bind" /\ Register(c, l)
              /\ \A i \in DOMAIN connections : /\ i \in DOMAIN connections'
                                               /\ connections'[i] = connections[i]
              /\ \A i \in DOMAIN connections' :
                    \/ i \in DOMAIN connections /\ connections'[i] = connections[i]
                    \/ i = Len(connections) + 1 /\ connections'[i].name = current(c).name
              /\ Len(connections) + 1 \in DOMAIN connections'
<1>1. CASE Register(c, l)
  <2>1. connections' = Append(connections, [name |-> current(c).name, fd |-> c])
    BY <1>1 DEF Register, add_connection_map_node
  <2>2. connections \in Seq(Entry)
    BY DEF TypeOK
  <2>3. /\ \A i \in DOMAIN connections : i \in DOMAIN connections'
                                         /\ connections'[i] = connections[i]
        /\ Len(connections) + 1 \in DOMAIN connections'
        /\ connections'[Len(connections) + 1] = [name |-> current(c).name, fd |-> c]
        /\ \A i \in DOMAIN connections' : i \in DOMAIN connections \/ i = Len(connections) + 1
    BY <2>1, <2>2
  <2>4. pc[c] = "register" /\ pc'[c] = "bind"
    BY <1>1 DEF Register, At, Goto, TypeOK
  <2>5. QED
    BY <1>1, <2>3, <2>4
<1>2. CASE ~Register(c, l)
  BY <1>2 DEF BranchStep, LoadOwn, FindOwn, TestHead, AppendNode, LoadOther, FindOther, Bind
<1>3. QED
  BY <1>1, <1>2

\* A head once lost stays lost.
LEMMA LostForever ==
    ASSUME TypeOK, ControlOK, ListParts, Next, HeadLost("USER")
    PROVE  HeadLost("USER")'
<1>1. PICK r \in Conn : chain["USER"][r] # <<>> /\ head["USER"] # r /\ ~Storing(r, "USER")
  BY DEF HeadLost
<1>2. PICK c \in Conn :
         \/ ReceiveStep(c)
         \/ \E l \in List : BranchStep(c, l)
         \/ FlushHead(c)
  BY StepCases
<1>3. CASE ReceiveStep(c)
  BY <1>1, <1>3, ReceiveFrame DEF HeadLost
<1>4. ASSUME NEW l \in List, BranchStep(c, l) PROVE HeadLost("USER")'
  <2>1. chain'["USER"][r] # <<>>
    <3>1. chain["USER"][r] \in Seq(Node) /\ "USER" \in List
      BY DEF TypeOK, List
    <3>2. CASE pc[c] = "append" /\ chain'["USER"][r] = Append(chain["USER"][r], NodeOf(c))
      BY <3>1, <3>2
    <3>3. CASE chain'["USER"][r] = chain["USER"][r]
      BY <1>1, <3>3
    <3>4. QED
      BY <1>1, <1>4, <3>1, <3>2, <3>3, ChainCases
  <2>2. ~Storing(r, "USER")'
    <3>1. ~(l = "USER" /\ r = c /\ pc[c] = "test" /\ TestHead(c, l) /\ head[l] = None)
      BY <1>1 DEF ListParts, HeadOK
    <3>2. QED
      BY <1>1, <1>4, <3>1, StoringCases DEF List
  <2>3. head' = head
    BY <1>4, BranchFrame
  <2>4. QED
    BY <1>1, <2>1, <2>2, <2>3 DEF HeadLost
<1>5. CASE FlushHead(c)
  <2>1. ~(current(c).cmd = "USER" /\ r = c)
    BY <1>1, <1>5, FlushFrame
  <2>2. QED
    BY <1>1, <1>5, <2>1, FlushFrame DEF HeadLost, List
<1>6. QED
  BY <1>2, <1>3, <1>4, <1>5

LEMMA QuietNick ==
    ASSUME TypeOK, ControlOK, ListParts, NickParts, NEW c \in Conn, ReceiveStep(c) \/ FlushHead(c)
    PROVE  NickParts'
<1>1. chain' = chain /\ connections' = connections /\ overlapped \subseteq overlapped'
  BY ReceiveFrame, FlushFrame
<1>2. \A n : HasUser(n) => HasUser(n)'
  BY <1>1 DEF HasUser, Holding
<1>3. ~HeadLost("USER")' => ~HeadLost("USER")
  <2>1. Next \/ chain' = chain
    BY <1>1
  <2>2. CASE FlushHead(c)
    BY <2>2, LostForever DEF Next
  <2>3. CASE ReceiveStep(c)
    BY <2>3, ReceiveFrame DEF HeadLost
  <2>4. QED
    BY <2>2, <2>3
<1>4. ASSUME NEW d \in Conn, pc'[d] \notin {"idle", "load"}
      PROVE  pc[d] = pc'[d] /\ current(d)' = current(d)
  BY <1>4, ReceiveFrame, FlushFrame
<1>5. UserHeld'
  <2>1. \A i \in DOMAIN connections : HasUser(connections[i].name)'
    BY <1>1 DEF NickParts, UserHeld, HasUser, Holding
  <2>2. ASSUME NEW d \in Conn, \/ pc'[d] = "register"
                               \/ /\ pc'[d] \in {"load_other", "find_other"}
                                  /\ current(d)'.cmd = "USER"
        PROVE  HasUser(current(d).name)
    BY <1>4, <2>2 DEF NickParts, UserHeld
  <2>3. ASSUME NEW d \in Conn, \/ pc'[d] = "register"
                               \/ /\ pc'[d] \in {"load_other", "find_other"}
                                  /\ current(d)'.cmd = "USER"
        PROVE  HasUser(current(d).name)' /\ current(d)' = current(d)
    BY <1>2, <1>4, <2>2, <2>3
  <2>4. QED
    BY <1>1, <2>1, <2>3 DEF UserHeld, HasUser, Holding
<1>6. Fresh'
  <2> SUFFICES ASSUME NEW d \in Conn, pc'[d] \notin {"idle", "bind"},
                      current(d)'.name \notin overlapped',
                      current(d)'.cmd = "USER" =>
                          pc'[d] \notin {"load", "find"} /\ ~HeadLost("USER")'
               PROVE  ~\E i \in DOMAIN connections : connections[i].name = current(d)'.name
    BY <1>1 DEF Fresh, find_connection_map_node
  <2>1. CASE pc'[d] = pc[d] /\ current(d)' = current(d)
    BY <1>1, <1>3, <2>1 DEF NickParts, Fresh, find_connection_map_node
  <2>2. CASE ~(pc'[d] = pc[d] /\ current(d)' = current(d))
    <3>1. d = c /\ ReceiveStep(c) /\ pc'[c] = "load"
      BY <1>4, <2>2, ReceiveFrame, FlushFrame
    <3>2. PICK line \in Line : /\ Receive(c, line) /\ pc[c] = "idle"
                               /\ line.cmd = "NICK" => ~find_connection_map_node(line.name)
      <4>1. PICK line \in Line :
               /\ Receive(c, line)
               /\ \/ Goto(c, "idle")
                  \/ /\ Goto(c, "load")
                     /\ line.cmd = "NICK" => ~find_connection_map_node(line.name)
        BY <3>1 DEF ReceiveStep
      <4>2. ~Goto(c, "idle")
        BY <3>1 DEF Goto, TypeOK
      <4>3. QED
        BY <4>1, <4>2 DEF Receive
    <3>3. sent[c] \in Seq(Line) /\ sent'[c] = Append(sent[c], line)
      BY <3>2 DEF Receive, TypeOK
    <3>4. current(c)' = line
      BY <3>3 DEF current
    <3>5. line.cmd = "NICK"
      BY <3>1, <3>4 DEF Line, List
    <3>6. QED
      BY <3>1, <3>2, <3>4, <3>5 DEF find_connection_map_node
  <2>3. QED
    BY <2>1, <2>2
<1>7. UniqueNick'
  BY <1>1, <1>3 DEF NickParts, UniqueNick
<1>8. QED
  BY <1>5, <1>6, <1>7 DEF NickParts

LEMMA BranchNick ==
    ASSUME TypeOK, ControlOK, ListParts, NickParts, Next,
           NEW c \in Conn, NEW l \in List, BranchStep(c, l)
    PROVE  NickParts'
<1> USE BranchFrame
<1>1. ASSUME NEW n, HasUser(n) PROVE HasUser(n)'
  BY <1>1, HoldingCases DEF HasUser, List
<1>2. UserHeld'
  <2>1. (HasUser(current(c).name) /\ pc[c] = "register") \/ connections' = connections
    BY RegisterCases DEF NickParts, UserHeld
  <2>2. ASSUME NEW i \in DOMAIN connections' PROVE HasUser(connections'[i].name)
    BY <2>1, RegisterCases DEF NickParts, UserHeld
  <2>3. ASSUME NEW d \in Conn, \/ pc'[d] = "register"
                               \/ /\ pc'[d] \in {"load_other", "find_other"}
                                  /\ current(d).cmd = "USER"
        PROVE  HasUser(current(d).name)'
    <3>1. CASE d # c
      BY <1>1, <2>3, <3>1 DEF NickParts, UserHeld
    <3>2. CASE d = c /\ FindOther(c, l, l = "NICK" \/ current(c).nparams = 4)
      <4>1. CASE l = "USER"
        <5>1. pc[c] = "find_other"
          BY <3>2 DEF FindOther, At
        <5>2. HasUser(current(c).name)
          BY <4>1, <5>1 DEF NickParts, UserHeld
        <5>3. QED
          BY <1>1, <3>2, <5>2
      <4>2. CASE l = "NICK"
        <5>1. find_user_node("USER", loaded[c], current(c).name)
          BY <2>3, <3>2, <4>2 DEF FindOther, Goto, TypeOK, OtherList
        <5>2. HasUser(current(c).name)
          BY <5>1 DEF find_user_node, HasUser, Holding, TypeOK
        <5>3. QED
          BY <1>1, <3>2, <5>2
      <4>3. QED
        BY <4>1, <4>2 DEF List
    <3>3. CASE d = c /\ LoadOther(c, l)
      <4>1. pc[c] = "load_other" /\ pc'[c] = "find_other"
        BY <3>3 DEF LoadOther, At, Goto, TypeOK
      <4>2. QED
        BY <1>1, <2>3, <3>3, <4>1 DEF NickParts, UserHeld
    <3>4. CASE d = c /\ (TestHead(c, l) \/ AppendNode(c, l))
      <4>1. pc'[c] = "load_other" /\ l = "USER"
        BY <2>3, <3>4 DEF TestHead, AppendNode, Goto, TypeOK
      <4>2. CASE chain'[l][c] = <<NodeOf(c)>>
        <5>1. chain'["USER"][c][1] = NodeOf(c) /\ 1 \in DOMAIN chain'["USER"][c]
          BY <4>1, <4>2
        <5>2. NodeOf(c).name = current(c).name
          BY DEF NodeOf
        <5>3. QED
          BY <3>4, <5>1, <5>2 DEF HasUser, Holding
      <4>3. CASE /\ loaded[c] \in Conn
                 /\ chain'[l][loaded[c]] = Append(chain[l][loaded[c]], NodeOf(c))
        <5>1. chain[l][loaded[c]] \in Seq(Node)
          BY <4>3 DEF TypeOK
        <5>2. PICK r \in Conn : r = loaded[c]
          BY <4>3
        <5>3. \E i \in DOMAIN chain'["USER"][r] : chain'["USER"][r][i] = NodeOf(c)
          BY <4>1, <4>3, <5>1, <5>2
        <5>4. QED
          <6>1. NodeOf(c).name = current(c).name
            BY DEF NodeOf
          <6>2. QED
            BY <3>4, <5>3, <6>1 DEF HasUser, Holding
      <4>4. CASE chain' = chain
        <5>1. \/ TestHead(c, l) /\ head[l] = None /\ chain' = [chain EXCEPT ![l][c] = <<NodeOf(c)>>]
              \/ AppendNode(c, l)
          BY <3>4, <4>1 DEF TestHead, Goto, TypeOK
        <5>2. CASE TestHead(c, l) /\ chain' = [chain EXCEPT ![l][c] = <<NodeOf(c)>>]
          <6>1. chain'[l][c] = <<NodeOf(c)>>
            BY <5>2 DEF TypeOK
          <6>2. QED
            BY <4>2, <6>1
        <5>3. CASE AppendNode(c, l)
          <6>1. pc[c] = "append" /\ loaded[c] \in Conn
            BY <5>3 DEF AppendNode, At, ControlOK, TypeOK
          <6>2. chain'[l][loaded[c]] = Append(chain[l][loaded[c]], NodeOf(c))
            BY <5>3, <6>1 DEF AppendNode, add_user_node, TypeOK
          <6>3. QED
            BY <4>3, <6>1, <6>2
        <5>4. QED
          BY <5>1, <5>2, <5>3
      <4>5. QED
        BY <4>2, <4>3, <4>4, ChainCases
    <3>5. CASE d = c /\ (LoadOwn(c, l) \/ FindOwn(c, l) \/ Register(c, l) \/ Bind(c, l))
      BY <2>3, <3>5 DEF LoadOwn, FindOwn, Register, Bind, Goto, TypeOK
    <3>6. QED
      BY <3>1, <3>2, <3>3, <3>4, <3>5 DEF BranchStep
  <2>4. QED
    BY <1>1, <2>2, <2>3 DEF UserHeld, HasUser, Holding
<1>3. ~HeadLost("USER")' => ~HeadLost("USER")
  BY LostForever
<1>4. Fresh'
  <2> SUFFICES ASSUME NEW d \in Conn, pc'[d] \notin {"idle", "bind"},
                      current(d).name \notin overlapped,
                      current(d).cmd = "USER" =>
                          pc'[d] \notin {"load", "find"} /\ ~HeadLost("USER")',
                      NEW i \in DOMAIN connections', connections'[i].name = current(d).name
               PROVE  FALSE
    BY DEF Fresh, find_connection_map_node
  <2>1. CASE d # c
    <3>1. ~find_connection_map_node(current(d).name)
      BY <1>3, <2>1 DEF NickParts, Fresh
    <3>2. current(c).name = current(d).name
      BY <3>1, RegisterCases DEF find_connection_map_node
    <3>3. QED
      BY <2>1, <3>2 DEF ListParts, OverlapOK
  <2>2. CASE d = c
    <3>1. connections' = connections /\ pc[c] # "bind"
      <4>1. ~Bind(c, l) /\ ~Register(c, l)
        BY <2>2 DEF Bind, Register, Goto, TypeOK
      <4>2. QED
        BY <4>1, RegisterCases DEF BranchStep, LoadOwn, FindOwn, TestHead, AppendNode,
           LoadOther, FindOther, At
    <3>2. CASE l = "NICK" \/ pc[c] \notin {"load", "find"}
      BY <1>3, <2>2, <3>1, <3>2 DEF NickParts, Fresh, find_connection_map_node
    <3>3. CASE l = "USER" /\ pc[c] \in {"load", "find"}
      <4>1. pc'[c] = "test"
        BY <2>2, <3>3 DEF BranchStep, LoadOwn, FindOwn, TestHead, AppendNode, LoadOther,
           FindOther, Register, Bind, At, Goto, TypeOK
      <4>2. HasUser(current(c).name)'
        BY <1>1, <2>2, <3>1 DEF NickParts, UserHeld
      <4>3. PICK r \in Conn : Holding("USER", r, current(c).name)'
        BY <4>2 DEF HasUser, Holding
      <4>4. Lost("USER", r)'
        <5>1. AbsentOK'
          BY BranchAbsent
        <5>2. current(c)' = current(c) /\ overlapped' = overlapped /\ current(c).cmd = "USER"
          BY <3>3
        <5>3. QED
          BY <2>2, <4>1, <4>3, <5>1, <5>2 DEF AbsentOK, Holding
      <4>5. chain'["USER"][r] # <<>>
        BY <4>3 DEF Holding
      <4>6. HeadLost("USER")'
        BY <4>4, <4>5 DEF HeadLost, Lost
      <4>7. QED
        BY <2>2, <3>3, <4>6
    <3>4. QED
      BY <3>2, <3>3 DEF List
  <2>3. QED
    BY <2>1, <2>2
<1>5. UniqueNick'
  <2> SUFFICES ASSUME NEW i \in DOMAIN connections', NEW j \in DOMAIN connections', i # j,
                      connections'[i].name = connections'[j].name,
                      connections'[i].name \notin overlapped, ~HeadLost("USER")
               PROVE  FALSE
    BY <1>3 DEF UniqueNick
  <2>1. CASE connections' = connections
    BY <2>1 DEF NickParts, UniqueNick
  <2>2. CASE i \in DOMAIN connections /\ j \in DOMAIN connections /\ pc[c] = "register"
    BY <2>2, RegisterCases DEF NickParts, UniqueNick
  <2>3. CASE pc[c] = "register" /\ ~(i \in DOMAIN connections /\ j \in DOMAIN connections)
             /\ connections' # connections
    <3>1. /\ connections'[i].name = current(c).name
          /\ find_connection_map_node(current(c).name)
      BY <2>3, RegisterCases DEF find_connection_map_node
    <3>2. ~find_connection_map_node(current(c).name)
      BY <2>3, <3>1 DEF NickParts, Fresh
    <3>3. QED
      BY <3>1, <3>2
  <2>4. QED
    BY <2>1, <2>2, <2>3, RegisterCases
<1>6. QED
  BY <1>2, <1>4, <1>5 DEF NickParts

LEMMA NickCorrect == Spec => []NickParts
<1>1. Init => NickParts
  BY DEF Init, NickParts, UserHeld, Fresh, UniqueNick
<1>2. TypeOK /\ ControlOK /\ ListParts /\ NickParts /\ [Next]_vars => NickParts'
  <2>1. ASSUME NickParts, UNCHANGED vars PROVE NickParts'
    BY <2>1 DEF vars, NickParts, UserHeld, HasUser, Holding, Fresh, UniqueNick, HeadLost,
       Storing, find_connection_map_node, current
  <2>2. QED
    BY <2>1, StepCases, QuietNick, BranchNick
<1>3. QED
  BY <1>1, <1>2, ListCorrect, PTL DEF Spec

\* connection_hash has a nick twice only after two handlers were at work on it at
\* once, or after a head of user_head was lost.
THEOREM UniqueNickCorrect == Spec => []UniqueNick
<1>1. NickParts => UniqueNick
  BY DEF NickParts
<1>2. QED
  BY <1>1, NickCorrect, PTL

-----------------------------------------------------------------------------
(* Halves that find each other *)

\* What a thread does that has its own half in the list.
LEMMA RegistersNext ==
    ASSUME TypeOK, NEW c \in Conn, NEW l \in List, BranchStep(c, l), NEW n,
           WillRegister(c, n), Behind(OtherList(l), n)
    PROVE  find_connection_map_node(n)' \/ WillRegister(c, n)'
<1> USE BranchFrame
<1>1. CASE LoadOther(c, l)
  <2>1. pc'[c] = "find_other" /\ loaded'[c] = head[OtherList(l)]
    BY <1>1 DEF LoadOther, Goto, TypeOK
  <2>2. QED
    BY <2>1 DEF WillRegister
<1>2. CASE FindOther(c, l, l = "NICK" \/ current(c).nparams = 4)
  <2>1. /\ pc[c] = "find_other" /\ loaded[c] = head[OtherList(l)]
        /\ current(c).name = n
        /\ l = "NICK" \/ current(c).nparams = 4
    BY <1>2 DEF FindOther, At, WillRegister, List
  <2>2. find_user_node(OtherList(l), loaded[c], current(c).name)
    BY <2>1 DEF Behind, find_user_node
  <2>3. pc'[c] = "register"
    BY <1>2, <2>1, <2>2 DEF FindOther, Goto, TypeOK
  <2>4. QED
    BY <2>3 DEF WillRegister
<1>3. CASE Register(c, l)
  <2>1. pc[c] = "register" /\ current(c).name = n
    BY <1>3 DEF Register, At, WillRegister
  <2>2. \E i \in DOMAIN connections' : connections'[i].name = n
    <3>1. connections' = Append(connections, [name |-> current(c).name, fd |-> c])
      BY <1>3 DEF Register, add_connection_map_node
    <3>2. connections \in Seq(Entry)
      BY DEF TypeOK
    <3>3. /\ Len(connections) + 1 \in DOMAIN connections'
          /\ connections'[Len(connections) + 1] = [name |-> current(c).name, fd |-> c]
      BY <3>1, <3>2
    <3>4. QED
      BY <2>1, <3>3
  <2>3. QED
    BY <2>2 DEF find_connection_map_node
<1>4. CASE ~LoadOther(c, l) /\ ~FindOther(c, l, l = "NICK" \/ current(c).nparams = 4)
           /\ ~Register(c, l)
  BY <1>4 DEF BranchStep, LoadOwn, FindOwn, TestHead, AppendNode, Bind, At, WillRegister
<1>5. QED
  BY <1>1, <1>2, <1>3, <1>4

LEMMA BranchPaired ==
    ASSUME TypeOK, ControlOK, ListParts, Paired, NEW c \in Conn, NEW l \in List, BranchStep(c, l)
    PROVE  Paired'
<1> USE BranchFrame
<1> DEFINE AllFour(n) == \A i \in DOMAIN Reachable("USER") :
               Reachable("USER")[i].name = n => Reachable("USER")[i].nparams = 4
<1> SUFFICES ASSUME NEW n \in Name, Behind("NICK", n)', Behind("USER", n)', AllFour(n)'
             PROVE  find_connection_map_node(n)' \/ \E d \in Conn : WillRegister(d, n)'
  BY DEF Paired
<1>1. find_connection_map_node(n) => find_connection_map_node(n)'
  BY RegisterCases DEF find_connection_map_node
<1>2. \A d \in Conn \ {c} : WillRegister(d, n) => WillRegister(d, n)'
  BY DEF WillRegister
<1>3. Behind("NICK", n) /\ Behind("USER", n) => Behind(OtherList(l), n)
  BY DEF OtherList
<1>4. ASSUME Behind("NICK", n), Behind("USER", n), AllFour(n)
      PROVE  find_connection_map_node(n)' \/ \E d \in Conn : WillRegister(d, n)'
  <2>1. find_connection_map_node(n) \/ \E d \in Conn : WillRegister(d, n)
    BY <1>4 DEF Paired
  <2>2. QED
    BY <1>1, <1>2, <1>3, <1>4, <2>1, RegistersNext
<1>5. CASE \A k \in List : head[k] # None => chain'[k][head[k]] = chain[k][head[k]]
  <2>1. \A k \in List : Behind(k, n)' => Behind(k, n)
    BY <1>5 DEF Behind
  <2>2. Reachable("USER")' = Reachable("USER")
    BY <1>5 DEF Reachable, List
  <2>3. AllFour(n)
    BY <2>2
  <2>4. QED
    BY <1>4, <2>1, <2>3 DEF List
<1>6. CASE /\ pc[c] = "append" /\ AppendNode(c, l) /\ loaded[c] \in Conn
           /\ chain'[l][loaded[c]] = Append(chain[l][loaded[c]], NodeOf(c))
           /\ \A k \in List, r \in Conn : k # l \/ r # loaded[c] => chain'[k][r] = chain[k][r]
           /\ loaded[c] = head[l]
  <2>1. NodeOf(c).name = current(c).name /\ NodeOf(c).nparams = current(c).nparams
    BY DEF NodeOf
  <2>2. PICK h \in Conn : h = head[l]
    BY <1>6
  <2>3. chain[l][h] \in Seq(Node) /\ chain'[l][h] = Append(chain[l][h], NodeOf(c))
    BY <1>6, <2>2 DEF TypeOK
  <2>4. /\ \A i \in DOMAIN chain[l][h] : /\ i \in DOMAIN chain'[l][h]
                                         /\ chain'[l][h][i] = chain[l][h][i]
        /\ \A i \in DOMAIN chain'[l][h] : i \in DOMAIN chain[l][h] \/ chain'[l][h][i] = NodeOf(c)
        /\ Len(chain[l][h]) + 1 \in DOMAIN chain'[l][h]
        /\ chain'[l][h][Len(chain[l][h]) + 1] = NodeOf(c)
    BY <2>3
  <2>5. h # None
    BY NoneAssumption
  <2>6. CASE current(c).name = n
    <3>1. pc'[c] = "load_other"
      BY <1>6 DEF AppendNode, Goto, TypeOK
    <3>2. l = "USER" => current(c).nparams = 4
      <4>1. ASSUME l = "USER" PROVE Reachable("USER")' = chain'[l][h]
        BY <2>2, <2>5, <4>1 DEF Reachable
      <4>2. QED
        BY <2>1, <2>4, <2>6, <4>1
    <3>3. WillRegister(c, n)'
      BY <2>6, <3>1, <3>2 DEF WillRegister
    <3>4. QED
      BY <3>3
  <2>7. CASE current(c).name # n
    <3>1. \A k \in List \ {l} : head[k] # None => chain'[k][head[k]] = chain[k][head[k]]
      BY <1>6 DEF TypeOK
    <3>2. Behind(l, n)' => Behind(l, n)
      BY <2>1, <2>2, <2>4, <2>5, <2>7 DEF Behind
    <3>3. \A k \in List : Behind(k, n)' => Behind(k, n)
      BY <3>1, <3>2 DEF Behind
    <3>4. AllFour(n)
      <4>1. CASE l = "USER"
        <5>1. Reachable("USER")' = chain'[l][h] /\ Reachable("USER") = chain[l][h]
          BY <2>2, <2>5, <4>1 DEF Reachable
        <5>2. QED
          BY <2>4, <5>1
      <4>2. CASE l # "USER"
        <5>1. Reachable("USER")' = Reachable("USER")
          BY <3>1, <4>2 DEF Reachable, List
        <5>2. QED
          BY <5>1
      <4>3. QED
        BY <4>1, <4>2
    <3>5. QED
      BY <1>4, <3>3, <3>4 DEF List
  <2>8. QED
    BY <2>6, <2>7
<1>7. QED
  <2>1. \A k \in List : head[k] # None => head[k] \in Conn
    BY DEF TypeOK
  <2>2. QED
    BY <1>5, <1>6, <2>1, ChainCases

LEMMA QuietPaired ==
    ASSUME TypeOK, ControlOK, ListParts, Paired, NEW c \in Conn, ReceiveStep(c) \/ FlushHead(c)
    PROVE  Paired'
<1>1. CASE ReceiveStep(c)
  <2>1. /\ head' = head /\ chain' = chain /\ connections' = connections /\ loaded' = loaded
        /\ pc[c] = "idle"
        /\ \A d \in Conn \ {c} : pc'[d] = pc[d] /\ current(d)' = current(d)
    BY <1>1, ReceiveFrame
  <2>2. ASSUME NEW n, NEW d \in Conn, WillRegister(d, n) PROVE WillRegister(d, n)'
    BY <2>1, <2>2 DEF WillRegister
  <2>3. QED
    BY <2>1, <2>2 DEF Paired, Behind, Reachable, find_connection_map_node
<1>2. CASE FlushHead(c)
  <2>0. PICK l \in List : l = current(c).cmd
    BY <1>2, FlushFrame
  <2>1. head'[l] = c /\ chain[l][c] = <<NodeOf(c)>> /\ chain' = chain
    BY <1>2, <2>0, FlushFrame DEF ListParts, StoringOK
  <2>2. \A n : ~Behind(l, n)'
    BY <2>1 DEF Behind
  <2>3. QED
    BY <2>1, <2>2 DEF Paired, List
<1>3. QED
  BY <1>1, <1>2

\* No name is left with both its halves in the lists and no registration, but for the
\* exceptions the property names.
THEOREM NoStrandedNameCorrect == Spec => []NoStrandedName
<1>1. Init => Paired
  BY DEF Init, Paired, Behind, List
<1>2. TypeOK /\ ControlOK /\ ListParts /\ Paired /\ [Next]_vars => Paired'
  <2>1. ASSUME Paired, UNCHANGED vars PROVE Paired'
    BY <2>1 DEF vars, Paired, Behind, Reachable, WillRegister, find_connection_map_node, current
  <2>2. QED
    BY <2>1, StepCases, QuietPaired, BranchPaired
<1>3. TypeOK /\ Paired => NoStrandedName
  <2> SUFFICES ASSUME TypeOK, Paired, Quiescent, NEW n \in Name, Half("NICK", n), Half("USER", n),
                      ~IsHead("NICK", n), ~IsHead("USER", n),
                      \A i \in DOMAIN Reachable("USER") :
                         Reachable("USER")[i].name = n => Reachable("USER")[i].nparams = 4
               PROVE  find_connection_map_node(n)
    BY DEF NoStrandedName
  <2>1. ASSUME NEW l \in List, Half(l, n), ~IsHead(l, n) PROVE Behind(l, n)
    <3>1. head[l] # None /\ Reachable(l) = chain[l][head[l]] /\ head[l] \in Conn
      BY <2>1 DEF Half, Reachable, TypeOK
    <3>2. chain[l][head[l]] \in Seq(Node)
      BY <3>1 DEF TypeOK
    <3>3. PICK i \in DOMAIN chain[l][head[l]] : chain[l][head[l]][i].name = n
      BY <2>1, <3>1 DEF Half
    <3>4. i \in Nat /\ i >= 1 /\ chain[l][head[l]] # <<>>
      BY <3>2, <3>3
    <3>5. i # 1
      BY <2>1, <3>1, <3>3, <3>4 DEF IsHead
    <3>6. i > 1
      BY <3>4, <3>5
    <3>7. QED
      BY <3>1, <3>3, <3>6 DEF Behind
  <2>2. \A c \in Conn : ~WillRegister(c, n)
    BY DEF Quiescent, WillRegister
  <2>3. QED
    BY <2>1, <2>2 DEF Paired, List
<1>4. QED
  BY <1>1, <1>2, <1>3, ListCorrect, PTL DEF Spec

=============================================================================
