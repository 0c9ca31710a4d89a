--------------------------- MODULE ReliableStream ---------------------------
(***************************************************************************)
(* What a qsocket_t promises one of its two users about the other (the     *)
(* comments on NET_CanSendMessage and NET_SendMessage in include/netmain.h):   *)
(* a message handed over when the socket can send reaches the other end    *)
(* exactly once, whole and in order, and the socket can send again only    *)
(* after it did.  Packets, fragments, buffers and acknowledgements belong  *)
(* to the drivers.                                                         *)
(***************************************************************************)
EXTENDS Naturals, Sequences

CONSTANT Message

VARIABLES
    ready,      \* NET_CanSendMessage answers true
    sent,       \* messages NET_SendMessage took
    received    \* messages the other end's NET_GetMessage returned with 1

vars == <<ready, sent, received>>

Init == ready = TRUE /\ sent = <<>> /\ received = <<>>

Send ==
    /\ ready
    /\ \E m \in Message : sent' = Append(sent, m)
    /\ ready' = FALSE
    /\ UNCHANGED received

Deliver ==
    /\ Len(received) < Len(sent)
    /\ received' = Append(received, sent[Len(received) + 1])
    /\ UNCHANGED <<ready, sent>>

Confirm ==
    /\ ~ready
    /\ received = sent
    /\ ready' = TRUE
    /\ UNCHANGED <<sent, received>>

Next == Send \/ Deliver \/ Confirm

Spec == Init /\ [][Next]_vars

FairSpec == Spec /\ WF_vars(Deliver) /\ WF_vars(Confirm)

=============================================================================
