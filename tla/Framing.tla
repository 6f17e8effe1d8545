-------------------------------- MODULE Framing --------------------------------
(***************************************************************************)
(* What the receiving side of a chirc connection promises: the lines a     *)
(* client sends are handled in their order, each once and as its words,    *)
(* however the bytes are split or joined on the way; blank lines are       *)
(* skipped.  The promise ends when the connection does, which may be with  *)
(* the line that is handled, and also when a line is handled while later   *)
(* ones have been sent already: its handler may spoil what is waiting.     *)
(* From there on anything may be handled.                                  *)
(***************************************************************************)
EXTENDS Naturals, Sequences, Words

CONSTANT Bodies \* the lines a client may send, without their CR LF

VARIABLES
    sent,      \* the lines the client has sent
    delivered, \* the lines handled, as sequences of words
    state      \* "open", "spoiled" or "closed"

-----------------------------------------------------------------------------
Init ==
    /\ sent = <<>>
    /\ delivered = <<>>
    /\ state = "open"

Send ==
    /\ \E line \in Bodies : sent' = Append(sent, line)
    /\ UNCHANGED <<delivered, state>>

Deliver ==
    /\ state = "open"
    /\ Len(delivered) < Len(Commands(sent))
    /\ delivered' = Append(delivered, Commands(sent)[Len(delivered) + 1])
    /\ \/ state' \in {"open", "closed"}
       \/ state' = "spoiled" /\ Len(delivered) + 1 < Len(sent)
    /\ UNCHANGED sent

Close ==
    /\ state' = "closed"
    /\ UNCHANGED <<sent, delivered>>

Anything ==
    /\ state = "spoiled"
    /\ state' \in {"spoiled", "closed"}
    /\ UNCHANGED sent

Next == Send \/ Deliver \/ Close \/ Anything

Spec == Init /\ [][Next]_<<sent, delivered, state>>

=============================================================================
