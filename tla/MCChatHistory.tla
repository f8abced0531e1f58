---------------------------- MODULE MCChatHistory -----------------------------
(* Model values and bounds for ChatHistory.                                *)
EXTENDS ChatHistory, TLC

\* requests are interchangeable
RequestSymmetry == Permutations(Requests)

===============================================================================
