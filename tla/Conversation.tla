---------------------------- MODULE Conversation ----------------------------
(***************************************************************************)
(* What `generate()` promises its caller about a conversation with tools,  *)
(* with no retries, no pending work and no order of execution: the         *)
(* transcript grows by whole exchanges -- an assistant message and one     *)
(* answer per call it makes, in the order of the calls -- at most MaxTurns *)
(* of them, until the conversation ends once and for all.                  *)
(***************************************************************************)
EXTENDS Naturals, Sequences

CONSTANTS Base,      \* the messages of the caller's prompt
          MaxTurns   \* the most exchanges one conversation may hold

VARIABLES transcript,   \* the messages every participant has agreed on
          turns,        \* how many exchanges the transcript holds
          status        \* "open", or how the conversation ended

cvars == <<transcript, turns, status>>

Endings == {"answered", "failed", "dropped"}

\* suffix is an assistant message followed by an answer to each of its calls.
IsExchange(suffix) ==
  /\ suffix # <<>>
  /\ suffix[1].role = "assistant"
  /\ suffix[1].calls # <<>>
  /\ Len(suffix) = Len(suffix[1].calls) + 1
  /\ \A j \in 1..Len(suffix[1].calls) :
       /\ suffix[j + 1].role = "tool"
       /\ suffix[j + 1].id = suffix[1].calls[j].id

Open ==
  /\ transcript = Base
  /\ turns = 0
  /\ status = "open"

Exchange ==
  /\ status = "open"
  /\ turns < MaxTurns
  /\ turns' = turns + 1
  /\ SubSeq(transcript', 1, Len(transcript)) = transcript
  /\ IsExchange(SubSeq(transcript', Len(transcript) + 1, Len(transcript')))
  /\ UNCHANGED status

End ==
  /\ status = "open"
  /\ status' \in Endings
  /\ UNCHANGED <<transcript, turns>>

Converse == Exchange \/ End

Conversing == Open /\ [][Converse]_cvars

=============================================================================
