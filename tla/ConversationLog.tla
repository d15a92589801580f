--------------------------- MODULE ConversationLog ---------------------------
(***************************************************************************)
(* What the conversation database promises whoever writes through leased   *)
(* refs: a conversation is one growing list of messages, nothing is ever   *)
(* dropped or rewritten, and the messages of one run stay together.        *)
(* ConversationRef implements this specification.                          *)
(***************************************************************************)
EXTENDS Integers, Sequences

CONSTANTS Refs,      \* names of conversations
          Runners,   \* runner ids
          Msgs       \* message contents

VARIABLE log         \* of every conversation: its messages, with their writers

Init == log = [n \in Refs |-> <<>>]

\* A run that has written goes on only while nobody has written after it.
MayWrite(r, n) ==
  \A k \in DOMAIN log[n] : log[n][k].by = r => log[n][Len(log[n])].by = r

Write(r, n, m) ==
  /\ MayWrite(r, n)
  /\ log' = [log EXCEPT ![n] = Append(log[n], [by |-> r, msg |-> m])]

Next == \E r \in Runners, n \in Refs, m \in Msgs : Write(r, n, m)

Spec == Init /\ [][Next]_log
=============================================================================
