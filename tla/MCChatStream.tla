---------------------------- MODULE MCChatStream ----------------------------
\* Two requests that overlap in one conversation.
EXTENDS ChatStream, TLC

CONSTANTS q1, q2, c1

TwoInOne == q1 :> c1 @@ q2 :> c1

=============================================================================
