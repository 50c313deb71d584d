------------------------- MODULE MCProviderRequests -------------------------
(***************************************************************************)
(* Conversations that open with no, one or two system messages, one of     *)
(* them late, and go on with text, images, empty text, a block no provider *)
(* renders or another system message; replies with and without text and    *)
(* calls, whole and not.                                                   *)
(***************************************************************************)
EXTENDS ProviderRequests

\* One of each dialect.
MCProviders == {"Anthropic", "OpenAICompatible"}

MCOpenings ==
  {<<>>, <<System(<<"s">>)>>,
   <<UserMultimodal(<<TextBlock(<<"u">>), ImageUrl("i")>>), AssistantWithToolCalls(<<"a">>, <<>>), System(<<>>), System(<<"t">>)>>}

MCUtterances ==
  {User(<<"q">>), User(<<>>), System(<<"s">>),
   UserMultimodal(<<ImageBase64("i"), TextBlock(<<"q">>), TextBlock(<<>>)>>),
   UserMultimodal(<<Attachment>>)}

MCConfigs ==
  {[prompt_caching |-> caching, json_schema |-> FALSE, json_mode |-> FALSE] :
     caching \in BOOLEAN}

MCToolNames == {"add", "find"}

Add(id) == ToolCall(id, "add", "x")

MCBodies ==
  [anthropic |->
     {<<ResponseText(<<"a">>)>>, <<>>,
      <<ResponseOther, ResponseText(<<"a">>), ResponseTextless, ResponseText(<<"b">>)>>,
      <<ResponseToolUse(Some("c1"), Some("add"), None)>>,
      <<ResponseText(<<"a">>), ResponseToolUse(Some("c1"), Some("add"), Some("x")),
        ResponseToolUse(Some("c2"), Some("find"), Some("x")),
        ResponseToolUse(None, Some("add"), Some("x"))>>},
   chat |->
     {<<>>, <<Choice(Some(<<"a">>), <<>>)>>, <<Choice(None, <<>>)>>,
      <<Choice(None, <<Add("c1")>>)>>,
      <<Choice(Some(<<"a">>), <<Add("c1"), Add("c2")>>)>>,
      <<Choice(None, <<ToolCall("c1", "add", "bad")>>)>>}]

=============================================================================
