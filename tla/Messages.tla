------------------------------ MODULE Messages ------------------------------
(***************************************************************************)
(* message.rs: what a conversation is made of, in no provider's dialect.   *)
(* A text is a sequence of fragments; the empty text is <<>>.              *)
(***************************************************************************)
EXTENDS Options, Selections

\* ContentBlock, ImageSource.  Audio, video and files are all attachments.
TextBlock(t) == [type |-> "text", text |-> t]
ImageUrl(url) == [type |-> "image", source |-> "url", data |-> url]
ImageBase64(data) == [type |-> "image", source |-> "base64", data |-> data]
Attachment == [type |-> "attachment"]

ContentBlock ==
  [type : {"text"}, text : Seq(STRING)]
    \cup [type : {"image"}, source : {"url", "base64"}, data : STRING]
    \cup {Attachment}

\* ToolCall; its arguments are a JSON text.
ToolCalls == [id : STRING, name : STRING, arguments : STRING]
ToolCall(id, name, arguments) == [id |-> id, name |-> name, arguments |-> arguments]

\* What the constructors keep of a message's role and its other fields.
Consistent(m) ==
  /\ IsSome(m.answers) <=> m.role = "tool"
  /\ m.calls # <<>> => m.role = "assistant"
  /\ m.failed => m.role = "tool"
  /\ m.blocks # <<>> => m.role = "user" /\ m.content = <<>>

Constructed ==
  {m \in [role : {"system", "user", "assistant", "tool"}, content : Seq(STRING),
          blocks : Seq(ContentBlock), calls : Seq(ToolCalls),
          answers : Option(STRING), failed : BOOLEAN] : Consistent(m)}

\* Message, with the fields every constructor leaves empty.
Message(role, content) ==
  [role |-> role, content |-> content, blocks |-> <<>>, calls |-> <<>>,
   answers |-> None, failed |-> FALSE]

System(t) == Message("system", t)
User(t) == Message("user", t)
UserMultimodal(blocks) == [Message("user", <<>>) EXCEPT !.blocks = blocks]
AssistantWithToolCalls(t, calls) == [Message("assistant", t) EXCEPT !.calls = calls]

\* Message::tool
ToolResult(t, id) == [Message("tool", t) EXCEPT !.answers = Some(id)]

\* Mutated: an error answers no call.
ToolErrorUnaddressed(t, id) == [Message("tool", t) EXCEPT !.failed = TRUE]

\* Message::tool_error
ToolError(t, id) == [ToolResult(t, id) EXCEPT !.failed = TRUE]

IsMultimodal(message) == message.blocks # <<>>

\* Prompt::system_message: the first one's text.
SystemMessage(prompt) ==
  LET at == {i \in 1..Len(prompt) : prompt[i].role = "system"}
  IN  IF at = {} THEN None ELSE Some(prompt[Min(at)].content)

\* Prompt::conversation_messages
ConversationMessages(prompt) ==
  Selection(prompt, {i \in 1..Len(prompt) : prompt[i].role # "system"})

\* The blocks of the prompt that no provider renders: `unimplemented!`.
Unsupported(prompt) ==
  \E i \in 1..Len(prompt) : Attachment \in ToSet(prompt[i].blocks)

=============================================================================
