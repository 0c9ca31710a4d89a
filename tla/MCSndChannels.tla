--------------------------- MODULE MCSndChannels ---------------------------
EXTENDS SndChannels

CONSTANTS s1, s2

MCSounds == {s1, s2}

(* JACK, which may go away, and one cached sound.                          *)
Jack == [threaded |-> TRUE, jackDies |-> TRUE, sounds |-> {s1}, streams |-> {},
         ambientsLoad |-> TRUE]
(* Any other driver, a cached sound and a stream.                          *)
DMA == [threaded |-> FALSE, jackDies |-> FALSE, sounds |-> {s1, s2},
        streams |-> {s2}, ambientsLoad |-> FALSE]
(* JACK and a stream.                                                      *)
JackStream == [threaded |-> TRUE, jackDies |-> FALSE, sounds |-> {s2},
               streams |-> {s2}, ambientsLoad |-> TRUE]

MCSetups == {Jack, DMA}
MCRaceSetups == {JackStream}
=============================================================================
