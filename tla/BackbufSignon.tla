--------------------------- MODULE BackbufSignon ---------------------------
(***************************************************************************)
(* The one writer that checks for a block and then writes without the      *)
(* functions of msg_backbuf.c: SV_PreSpawn_f (qw/source/sv_user.c), which  *)
(* sends a signon buffer while the other clients play on.                  *)
(***************************************************************************)
EXTENDS Backbuf

(* MSG_ReliableCheckBlock, then SZ_Write: backbuf_size is not updated.     *)
WriteRaw(r, s) ==
    LET checked == ReliableCheckBlock(r, Len(s)) IN
    IF checked.num_backbuf = 0
      THEN WriteMessage(checked, s)
      ELSE [checked EXCEPT !.data[Tail_(checked)] = Appended(@, s)]

PreSpawn(n) ==
    LET s == Numbered(last, n) IN
    /\ rel' = WriteRaw(rel, s)
    /\ pending' = Owed(rel', forgotten, pending \o s)
    /\ last' = (last + n) % Numbers
    /\ UNCHANGED <<forgotten, direct>>

SignonSpec == Init /\ [][Next \/ \E n \in Blocks : PreSpawn(n)]_vars

(* msg_backbuf.c, MSG_ReliableCheckBlock: "we would probably overflow the  *)
(* buffer, save it for next": a signon buffer that waits in the ring is    *)
(* sent like everything else.                                              *)
SignonIntact == StreamIntact
=============================================================================
