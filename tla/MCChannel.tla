------------------------------ MODULE MCChannel ------------------------------
(* Instances of Channel for TLC: which calls the fibers make.              *)
EXTENDS Channel, TLC

CONSTANTS f1, f2, f3

Symmetric == Permutations(Fibers)

Receive(c) == [op |-> "receive", channel |-> c]
Send(c) == [op |-> "send", channel |-> c]
Timeout == [op |-> "timeout", channel |-> None]

Plain(a) == [form |-> "plain", arms |-> <<a>>]
Select(arms) == [form |-> "select", arms |-> arms]
Poll(arms) == [form |-> "poll", arms |-> arms]
Close(c) == [form |-> "close", arms |-> <<[op |-> "close", channel |-> c]>>]

(* One channel with a buffer: its plain operations, and a select with a    *)
(* timeout.                                                                *)
TwoPlaces == [c \in {1} |-> 2]
BufferCalls == {Plain(Send(1)), Plain(Receive(1)), Close(1),
                Select(<<Receive(1), Timeout>>)}

(* Selects that wait on two channels and meet each other, the channels in  *)
(* different orders.                                                       *)
NoBuffers == [c \in {1, 2} |-> 0]
CrossCalls == {Select(<<Receive(2), Send(1), Timeout>>),
               Select(<<Receive(1), Send(2)>>), Poll(<<Send(2), Receive(1)>>),
               Close(1)}
=============================================================================
