---------------------------- MODULE MCChatOutbox ----------------------------
(* Values for the sequence-valued constants of the chat outbox instances.  *)
EXTENDS ChatOutbox, TLC

\* Back-offs of one and two ticks; emergency rows go on with the last one.
MCNormalDelays == <<1, 2>>
MCEmergencyDelays == <<1>>

\* A failed row is due again at once.
NoDelay == <<0>>

\* What a previous version of the program may have left in the table.
NoLeftovers == <<>>
OneLegacy == <<"legacy">>

\* The two identities of the radio are alike.
Symmetry == Permutations(Identities)
=============================================================================
