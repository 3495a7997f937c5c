------------------------------- MODULE MCCodec -------------------------------
(* Values for Codec's constants: messages whose fields hold start and end   *)
(* markers, one of them without an id, one that is too large to be sent;    *)
(* garbage without a start marker, with one that announces an impossible or *)
(* a possible length, and a frame with a wrong checksum.                    *)
EXTENDS Codec

Marked == [id |-> <<2>>, method |-> <<3>>, code |-> 0, info |-> <<>>, data |-> <<2, 0>>]
Anonymous == [id |-> <<>>, method |-> <<>>, code |-> 2, info |-> <<3>>, data |-> <<>>]
TooLarge == [id |-> <<1>>, method |-> <<>>, code |-> 0, info |-> <<>>, data |-> <<1, 1, 1, 1, 1, 1>>]

MCScripts == {<<Marked, Anonymous>>, <<Anonymous, TooLarge>>, <<Anonymous, Anonymous, Anonymous>>}
MCSpoilt == {<<Marked, Anonymous>>}

BadSum == <<2, 0, 14, 0, 0, 0, 0, 0, 0, 0, 0, 9, 9, 3>>
MCGarbage == {<<>>, <<9, 3>>, <<2>>, <<2, 1>>, BadSum}
MCDefaultMsgId == <<5>>
=============================================================================
