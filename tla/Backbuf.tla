------------------------------ MODULE Backbuf ------------------------------
(***************************************************************************)
(* Backup buffers of a QuakeWorld client (libs/qw/msg_backbuf.c): reliable *)
(* data that does not fit the channel's message buffer waits in a ring of  *)
(* MAX_BACK_BUFFERS buffers and follows, a buffer at a time, when the      *)
(* message buffer has room.  Around it are the server's writers and        *)
(* SV_SendClientMessages, for one slot of svs.clients.                     *)
(*                                                                         *)
(* The bytes that go through the ring are numbered, Other is a byte that   *)
(* a writer puts directly into the message buffer.  The ghost pending is   *)
(* what was written for the client and not yet handed to the channel, nor  *)
(* thrown away by a sign-on command.  An overflow loses bytes and marks    *)
(* the client to be dropped; forgotten says that the mark was cleared      *)
(* instead.  pending counts only while nothing was lost.  A buffer that is *)
(* not in use is shown empty: PushBackbuf clears it anyway.                *)
(***************************************************************************)
EXTENDS Integers, Sequences, SequencesExt, FiniteSets

CONSTANTS
    MaxSize,         \* MAX_MSGLEN, of the message buffer and of each other
    MaxBackBuffers,  \* MAX_BACK_BUFFERS
    Blocks,          \* the sizes of the blocks that are written
    Numbers,         \* bytes are numbered modulo Numbers
    MaxDirect        \* bound on the direct writes of a connection

ASSUME SizesAssumption ==
    /\ MaxSize \in Nat \ {0} /\ MaxBackBuffers \in Nat \ {0, 1}
    /\ Blocks \subseteq 1..(MaxSize - 1)
    /\ Numbers \in Nat \ {0} /\ MaxDirect \in Nat

VARIABLES
    rel,        \* the client's backbuf_t and, in message, its netchan->message
    pending,
    forgotten,  \* an overflow's bytes are missing, and its mark as well
    last,       \* the number of the last byte written
    direct      \* direct writes so far

vars == <<rel, pending, forgotten, last, direct>>

Slots == 0..(MaxBackBuffers - 1)
Other == Numbers
Bytes == 0..(Numbers - 1)
Contents(S) == {s \in Seq(S) : Len(s) <= MaxSize}
Buffers == [message : Contents(Bytes \cup {Other}), overflowed : BOOLEAN,
            num_backbuf : 0..MaxBackBuffers, head_backbuf : Slots,
            data : [Slots -> Contents(Bytes)], size : [Slots -> 0..MaxSize]]

TypeOK ==
    /\ rel \in Buffers
    /\ pending \in Seq(Bytes) /\ forgotten \in BOOLEAN
    /\ last \in Bytes
    /\ direct \in 0..MaxDirect

(* SVC_DirectConnect clears the client_t.                                  *)
Fresh == [message |-> <<>>, overflowed |-> FALSE,
          num_backbuf |-> 0, head_backbuf |-> 0,
          data |-> [s \in Slots |-> <<>>], size |-> [s \in Slots |-> 0]]

Init == rel = Fresh /\ pending = <<>> /\ forgotten = FALSE /\ last = 0 /\ direct = 0

----------------------------------------------------------------------------
(* msg_backbuf.c *)

Slot(r, i) == (r.head_backbuf + i) % MaxBackBuffers
Tail_(r) == Slot(r, r.num_backbuf - 1)

PushBackbuf(r) ==
    LET t == Slot(r, r.num_backbuf) IN
    [r EXCEPT !.data[t] = <<>>, !.size[t] = 0, !.num_backbuf = @ + 1]

HasRoom(used, n) == used + n < MaxSize

(* The message buffer is used only while nothing waits, so that order is   *)
(* kept.                                                                   *)
Waits(r, n) == r.num_backbuf > 0 \/ ~HasRoom(Len(r.message), n)

Opened(r) == IF r.num_backbuf = 0 THEN PushBackbuf(r) ELSE r

ReliableCheckBlock(r, n) ==
    LET open == Opened(r)
        t == Tail_(open)
    IN
    CASE ~Waits(r, n) -> r
      [] Waits(r, n) /\ HasRoom(Len(open.data[t]), n) -> open
      [] Waits(r, n) /\ ~HasRoom(Len(open.data[t]), n)
           /\ open.num_backbuf < MaxBackBuffers -> PushBackbuf(open)
      [] OTHER -> [open EXCEPT !.data[t] = <<>>, !.overflowed = TRUE]

(* SZ_Write, of a buffer that may overflow.                                *)
Appended(buf, s) == IF Len(buf) + Len(s) <= MaxSize THEN buf \o s ELSE s
WriteMessage(r, s) ==
    [r EXCEPT !.message = Appended(@, s),
              !.overflowed = @ \/ Len(r.message) + Len(s) > MaxSize]

(* A block is not longer than was asked for, so the buffer itself does not *)
(* overflow.                                                               *)
FinishWrite(r) == [r EXCEPT !.size[Tail_(r)] = Len(r.data[Tail_(r)])]

(* MSG_ReliableWrite_Begin and the writes of a block.                      *)
ReliableWrite(r, s) ==
    LET checked == ReliableCheckBlock(r, Len(s)) IN
    IF checked.num_backbuf = 0
      THEN WriteMessage(checked, s)
      ELSE FinishWrite([checked EXCEPT !.data[Tail_(checked)] = Appended(@, s)])

Freed(r, s) == [r EXCEPT !.data[s] = <<>>, !.size[s] = 0]
Sent_NoWrap(r) ==
    [Freed(r, r.head_backbuf) EXCEPT
              !.num_backbuf = @ - 1,
              !.head_backbuf = IF r.num_backbuf > 1 THEN @ + 1 ELSE @]
Sent_HeadStays(r) ==
    [Freed(r, r.head_backbuf) EXCEPT !.num_backbuf = @ - 1]
Sent(r) ==
    [Freed(r, r.head_backbuf) EXCEPT
              !.num_backbuf = @ - 1,
              !.head_backbuf = IF r.num_backbuf > 1 THEN Slot(r, 1) ELSE @]

Oldest(r) == SubSeq(r.data[r.head_backbuf], 1, r.size[r.head_backbuf])
HeadFits_Halved(r) == r.num_backbuf > 0 /\ 2 * r.size[r.head_backbuf] <= MaxSize
HeadFits(r) == r.num_backbuf > 0 /\ HasRoom(Len(r.message), r.size[r.head_backbuf])

ReliableSend(r) ==
    IF HeadFits(r) THEN Sent(WriteMessage(r, Oldest(r))) ELSE r

----------------------------------------------------------------------------
(* The server *)

Numbered(from, n) == [i \in 1..n |-> (from + i) % Numbers]

Owed(r, missing, s) == IF r.overflowed \/ missing THEN <<>> ELSE s

Write(n) ==
    LET s == Numbered(last, n) IN
    /\ rel' = ReliableWrite(rel, s)
    /\ pending' = Owed(rel', forgotten, pending \o s)
    /\ last' = (last + n) % Numbers
    /\ UNCHANGED <<forgotten, direct>>

Counted == direct < MaxDirect /\ direct' = direct + 1
Others(n) == [i \in 1..n |-> Other]

(* PF_clientsound (sv_pr_cpqw.c) bypasses the ring.                        *)
DirectWrite(n) ==
    /\ Counted
    /\ rel' = WriteMessage(rel, Others(n))
    /\ pending' = Owed(rel', forgotten, pending)
    /\ UNCHANGED <<forgotten, last>>

(* SV_New_f, SV_Soundlist_f and SV_Modellist_f write directly too, and     *)
(* throw away what waits.                                                  *)
Emptied(r) ==
    IF r.num_backbuf > 0
      THEN [r EXCEPT !.num_backbuf = 0, !.message = <<>>, !.overflowed = FALSE,
                     !.data = Fresh.data, !.size = Fresh.size]
      ELSE r

SignOn(n) ==
    /\ Counted
    /\ rel' = WriteMessage(Emptied(rel), Others(n))
    /\ forgotten' = (forgotten /\ rel.num_backbuf = 0)
    /\ pending' = IF rel.num_backbuf > 0 THEN <<>> ELSE Owed(rel', forgotten, pending)
    /\ UNCHANGED last

(* A message without the bytes that were put directly into it.             *)
Stream(s) == FlattenSeq([i \in 1..Len(s) |-> IF s[i] = Other THEN <<>> ELSE <<s[i]>>])

(* What waits in the buffers, oldest first.                                *)
Kept(r, i) ==
    IF i = r.num_backbuf THEN r.data[Slot(r, i - 1)]
    ELSE SubSeq(r.data[Slot(r, i - 1)], 1, r.size[Slot(r, i - 1)])
Waiting(r) == FlattenSeq([i \in 1..r.num_backbuf |-> Kept(r, i)])

(* SV_Spawn_f clears the message buffer only, with the mark of a client    *)
(* that overflowed, and writes the clients, the light styles and the stats.*)
Spawn(n) ==
    LET s == Numbered(last, n)
        cleared == [rel EXCEPT !.message = <<>>, !.overflowed = FALSE]
    IN
    /\ rel' = ReliableWrite(cleared, s)
    /\ forgotten' = (forgotten \/ rel.overflowed)
    /\ pending' = Owed(rel', forgotten',
                       SubSeq(pending, Len(Stream(rel.message)) + 1, Len(pending)) \o s)
    /\ last' = (last + n) % Numbers
    /\ UNCHANGED direct

(* SV_DropClient, for whatever reason; the next client of the slot.        *)
NewClient ==
    rel' = Fresh /\ pending' = <<>> /\ forgotten' = FALSE /\ last' = 0 /\ direct' = 0

(* SV_SendClientMessages: SV_UpdateToReliableMessages writes what changed, *)
(* perhaps nothing; the channel takes the message buffer if the client may *)
(* be sent a packet and has acknowledged the last reliable one.  A client  *)
(* that overflowed is dropped, and another one connects.                   *)
Updated(n) == IF n = 0 THEN rel ELSE ReliableWrite(rel, Numbered(last, n))

SendClientMessages(n, taken) ==
    \E written \in {Updated(n)} : \E r \in {ReliableSend(written)} :
        IF r.overflowed
          THEN NewClient
          ELSE /\ rel' = IF taken THEN [r EXCEPT !.message = <<>>] ELSE r
               /\ pending' =
                    Owed(r, forgotten,
                         SubSeq(pending \o Numbered(last, n),
                                IF taken THEN Len(Stream(r.message)) + 1 ELSE 1,
                                Len(pending) + n))
               /\ last' = (last + n) % Numbers
               /\ UNCHANGED <<forgotten, direct>>

Next ==
    \/ NewClient
    \/ \E n \in Blocks : Write(n) \/ DirectWrite(n) \/ SignOn(n) \/ Spawn(n)
    \/ \E n \in Blocks \cup {0}, taken \in BOOLEAN : SendClientMessages(n, taken)

Spec == Init /\ [][Next]_vars

(* The client keeps acknowledging what it is sent, and not every frame has *)
(* something new for it.                                                   *)
FairSpec == Spec /\ WF_vars(SendClientMessages(0, TRUE))

----------------------------------------------------------------------------
(* Properties *)

(* PushBackbuf and MSG_Reliable_Send: what is saved for next is sent next, *)
(* all of it, once and in the order it was written, or the client is       *)
(* marked to be dropped.  The one exception is a client whose mark was     *)
(* cleared by SV_Spawn_f before the frame that would have dropped it.      *)
StreamIntact ==
    ~rel.overflowed /\ ~forgotten => Stream(rel.message) \o Waiting(rel) = pending

(* MSG_Reliable_Send: the oldest buffer does not wait forever.             *)
HeadMovesOn ==
    \A h \in Slots :
        rel.num_backbuf > 0 /\ rel.head_backbuf = h
            ~> rel.num_backbuf = 0 \/ rel.head_backbuf # h
=============================================================================
