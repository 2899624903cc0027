---------------------------- MODULE MCOscStudio ----------------------------
\* A chatbox card that is in the defaults, with an interval shorter than the
\* limit, and a parameter card that is not.
EXTENDS OscStudio

CONSTANTS chat, param

MCCards == {chat, param}
MCDefaults == {chat}
MCChatbox == {chat}
MCInterval == [c \in MCCards |-> IF c = chat THEN 1 ELSE 2]
=============================================================================
