---------------------------- MODULE MCCoreChannel ----------------------------
(* CoreChannel with a control and a video channel. *)
EXTENDS CoreChannel

Load(messages, start, room) == [messages |-> messages, start |-> start, room |-> room]

OnEach(control, video) == [c \in Channels |-> IF c = Control THEN control ELSE video]

(* Both channels at work, with the rings as they are created; and a long     *)
(* video stream three steps before the sequence numbers wrap.                *)
BothAndLong ==
    {OnEach(Load(<<1>>, 0, 1), Load(<<2>>, 0, 1)),
     OnEach(Load(<<>>, 0, 0), Load(<<2, 1, 1>>, SeqSpace - 3, 2))}
=============================================================================
