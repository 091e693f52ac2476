---------------------------- MODULE MCConversation ----------------------------
(***************************************************************************)
(* Conversation with a few frames in each epoch.                           *)
(***************************************************************************)
EXTENDS Conversation

\* Two frames of history, so that one can be delivered and one still queued when
\* the prompt is written; more in the turn; one that crosses the prompt, and
\* one after the answer.
MCMaxFrames == [history |-> 2, idle |-> 1, turn |-> 3, late |-> 1]
=============================================================================
