--------------------------- MODULE OpenAIEncoders ---------------------------
(***************************************************************************)
(* The two OpenAI streams: Responses (src/src/protocol/responses.rs), whose *)
(* items are opened, told in deltas and closed with their final shape, and *)
(* Chat Completions (src/src/protocol/chat.rs), whose chunks only add to   *)
(* one message. Identifiers of items, sequence numbers and usage are left  *)
(* out; the three frames that close an item are one.                       *)
(***************************************************************************)
EXTENDS MessagesEncoder

(***************************************************************************)
(* Responses. `items` are in the order of their `output_index`, which is   *)
(* that of their content index, because the decoder opens blocks in order. *)
(***************************************************************************)
NewResponses == [items |-> <<>>, finished |-> FALSE, refused |-> FALSE, wire |-> <<>>]

NewItem(ev, kind) == [index |-> ev.index, kind |-> kind, value |-> <<>>, sealed |-> <<>>,
                      text |-> <<>>, pending |-> FALSE, closed |-> FALSE, output |-> NoBlock]

Emit(e, name, index, payload) ==
  [e EXCEPT !.wire = Append(@, [name |-> name, index |-> index, payload |-> payload])]

ItemAt(e, i) == CHOOSE n \in DOMAIN e.items : e.items[n].index = i

(* item_in: the open item of one of these kinds.                           *)
HasItem(e, i, kinds) == \E n \in DOMAIN e.items : /\ e.items[n].index = i
                                                  /\ e.items[n].kind \in kinds
                                                  /\ ~e.items[n].closed

OpenItem(e, ev, kind, payload) ==
  Emit([e EXCEPT !.items = Append(@, NewItem(ev, kind))], "added", ev.index, payload)

CloseItem(e, i, output) ==
  Emit([e EXCEPT !.items[ItemAt(e, i)].closed = TRUE, !.items[ItemAt(e, i)].output = output],
       "closed", i, output)

StartReasoning(e, ev) ==
  LET opened == OpenItem(e, ev, "reasoning", <<>>)
  IN  [opened EXCEPT !.items[Len(opened.items)].sealed = ev.block.sig]

ReasoningDone(e, i) ==
  LET n == ItemAt(e, i)
      item == e.items[n]
  IN  CloseItem([e EXCEPT !.items[n].pending = FALSE], i,
                [kind |-> "reasoning", name |-> <<>>, body |-> item.text, sig |-> item.sealed])

(* The signature in the block wins over the one from the start.            *)
EndReasoning(e, ev) ==
  LET n == ItemAt(e, ev.index)
      text == IF ev.block.body = <<>> THEN e.items[n].value ELSE ev.block.body
      sealed == IF ev.block.sig = <<>> THEN e.items[n].sealed ELSE ev.block.sig
      read == [e EXCEPT !.items[n].text = text, !.items[n].sealed = sealed]
  IN  IF sealed = <<>> THEN [read EXCEPT !.items[n].pending = TRUE]
      ELSE ReasoningDone(read, ev.index)

(* A signature that comes late only adds up; an item already closed is     *)
(* rewritten in the output of the final frame.                             *)
ReasoningSignature(e, ev) ==
  LET n == ItemAt(e, ev.index)
      grown == [e EXCEPT !.items[n].sealed = @ \o ev.delta]
  IN  IF e.items[n].closed THEN [grown EXCEPT !.items[n].output.sig = grown.items[n].sealed]
      ELSE grown

ReasoningFlushed(e) ==
  LET flushed[n \in 0..Len(e.items)] ==
        CASE n = 0 -> e
          [] n # 0 /\ e.items[n].pending -> ReasoningDone(flushed[n - 1], e.items[n].index)
          [] OTHER -> flushed[n - 1]
  IN  flushed

FlushPendingReasoning(e) == ReasoningFlushed(e)[Len(e.items)]

ResponsesTextDelta(e, ev) ==
  Emit([e EXCEPT !.items[ItemAt(e, ev.index)].value = @ \o ev.delta], "delta", ev.index, ev.delta)

ResponsesEndText(e, ev) ==
  LET value == e.items[ItemAt(e, ev.index)].value
  IN  CloseItem(e, ev.index,
                [kind |-> "message", name |-> <<>>, sig |-> <<>>,
                 body |-> IF ev.block.body = <<>> THEN value ELSE ev.block.body])

(* The kind of a call is the one its start had; its id, name and arguments *)
(* are those of its end.                                                   *)
StartToolCall(e, ev) ==
  OpenItem(e, ev, IF ev.block.custom THEN "custom_tool_call" ELSE "function_call",
           <<ev.id, ev.block.name>>)

EndToolCall(e, ev) ==
  CloseItem(e, ev.index, [kind |-> e.items[ItemAt(e, ev.index)].kind, sig |-> <<>>,
                          name |-> <<ev.block.id, ev.block.name>>, body |-> ev.block.args])

Output(e) == [n \in DOMAIN e.items |-> e.items[n].output]

ResponsesDone(e) ==
  LET flushed == FlushPendingReasoning(e)
  IN  IF \E n \in DOMAIN flushed.items : ~flushed.items[n].closed
      THEN [e EXCEPT !.refused = TRUE]
      ELSE Emit([flushed EXCEPT !.finished = TRUE], "completed", 1, Output(flushed))

ResponsesFailed(e) ==
  Emit(FlushPendingReasoning([e EXCEPT !.finished = TRUE]), "failed", 1, <<>>)

ToolKinds == {"function_call", "custom_tool_call"}

ResponsesKnows(e, ev) ==
  CASE ev.kind \in {"text_start", "thinking_start", "toolcall_start"} ->
         \A n \in DOMAIN e.items : e.items[n].index # ev.index
    [] ev.kind \in {"text_delta", "text_end"} -> HasItem(e, ev.index, {"message"})
    [] ev.kind \in {"thinking_delta", "thinking_end"} -> HasItem(e, ev.index, {"reasoning"})
    [] ev.kind = "thinking_signature" ->
         \E n \in DOMAIN e.items : e.items[n].index = ev.index /\ e.items[n].kind = "reasoning"
    [] ev.kind \in {"toolcall_delta", "toolcall_end"} -> HasItem(e, ev.index, ToolKinds)
    [] OTHER -> TRUE

ResponsesHandle(e, ev) ==
  CASE ev.kind = "start"              -> Emit(e, "created", 1, <<>>)
    [] ev.kind = "text_start"         -> OpenItem(e, ev, "message", <<>>)
    [] ev.kind \in {"text_delta", "thinking_delta"} -> ResponsesTextDelta(e, ev)
    [] ev.kind = "text_end"           -> ResponsesEndText(e, ev)
    [] ev.kind = "thinking_start"     -> StartReasoning(e, ev)
    [] ev.kind = "thinking_end"       -> EndReasoning(e, ev)
    [] ev.kind = "thinking_signature" -> ReasoningSignature(e, ev)
    [] ev.kind = "toolcall_start"     -> StartToolCall(e, ev)
    [] ev.kind = "toolcall_delta"     -> Emit(e, "delta", ev.index, ev.delta)
    [] ev.kind = "toolcall_end"       -> EndToolCall(e, ev)
    [] ev.kind = "done"               -> ResponsesDone(e)
    [] ev.kind = "error"              -> ResponsesFailed(e)

ResponsesEncode(e, ev) ==
  IF ~ValidEvent(ev) \/ e.finished \/ ~ResponsesKnows(e, ev)
  THEN [e EXCEPT !.refused = TRUE]
  ELSE ResponsesHandle(e, ev)

(* A client: what it was told of each item in deltas, the items as they    *)
(* were closed, and the final output.                                      *)
NewResponsesClient == [state |-> "waiting", told |-> <<>>, closed |-> <<>>, output |-> <<>>]

ToldAt(c, i) == CHOOSE n \in DOMAIN c.told : c.told[n].index = i
KnowsItem(c, i) == \E n \in DOMAIN c.told : c.told[n].index = i
ItemIsOpen(c, i) == /\ c.state = "reading"
                    /\ KnowsItem(c, i)
                    /\ \A n \in DOMAIN c.closed : c.closed[n].index # i

ResponsesRead(c, f) ==
  CASE f.name = "created" -> IF c.state = "waiting" THEN [c EXCEPT !.state = "reading"] ELSE Broken(c)
    [] f.name = "added"   -> IF c.state = "reading" /\ ~KnowsItem(c, f.index)
                             THEN [c EXCEPT !.told = Append(@, [index |-> f.index, body |-> <<>>])]
                             ELSE Broken(c)
    [] f.name = "delta"   -> IF ItemIsOpen(c, f.index)
                             THEN [c EXCEPT !.told[ToldAt(c, f.index)].body = @ \o f.payload]
                             ELSE Broken(c)
    [] f.name = "closed"  -> IF ItemIsOpen(c, f.index)
                             THEN [c EXCEPT !.closed =
                                     Append(@, [index |-> f.index, item |-> f.payload])]
                             ELSE Broken(c)
    [] f.name = "completed" -> IF c.state = "reading" /\ Len(c.closed) = Len(c.told)
                               THEN [c EXCEPT !.state = "done", !.output = f.payload]
                               ELSE Broken(c)
    [] f.name = "failed"  -> IF c.state = "reading" THEN [c EXCEPT !.state = "error"] ELSE Broken(c)

(* The same answer without streaming: output_from_message, reasoning       *)
(* first, then calls, then messages.                                       *)
OutputItem(block) ==
  CASE block.kind = "text"     -> [kind |-> "message", name |-> <<>>, sig |-> <<>>,
                                   body |-> block.body]
    [] block.kind = "thinking" -> [kind |-> "reasoning", name |-> <<>>, sig |-> block.sig,
                                   body |-> block.body]
    [] block.kind = "tool"     -> [kind |-> IF block.custom THEN "custom_tool_call"
                                            ELSE "function_call",
                                   name |-> <<block.id, block.name>>, sig |-> <<>>,
                                   body |-> block.args]

Ranked(items) ==
  LET Of(kinds) == SelectSeq(items, LAMBDA item : item.kind \in kinds)
  IN  Of({"reasoning"}) \o Of(ToolKinds) \o Of({"message"})

OutputFromMessage(content) == Ranked([i \in DOMAIN content |-> OutputItem(content[i])])

(***************************************************************************)
(* Chat Completions.                                                       *)
(***************************************************************************)
NewChat == [texts |-> {}, thoughts |-> {}, calls |-> <<>>, finished |-> FALSE,
            refused |-> FALSE, wire |-> <<>>]

Chunk(e, name, index, payload) == Emit(e, name, index, payload)

(* find_tool: by the call's id first, then by its content index.           *)
ChatTool(e, ev) ==
  LET byId == {k \in DOMAIN e.calls : ev.id # <<>> /\ e.calls[k].id = ev.id}
      byIndex == {k \in DOMAIN e.calls : e.calls[k].index = ev.index}
  IN  IF byId # {} THEN Min(byId) ELSE IF byIndex # {} THEN Max(byIndex) ELSE 0

StartChatCall(e, ev) ==
  Chunk([e EXCEPT !.calls = Append(@, [id |-> ev.id, index |-> ev.index])],
        "call", Len(e.calls) + 1, <<ev.id, ev.block.name>>)

ChatKnows(e, ev) ==
  CASE ev.kind \in {"text_delta", "text_end"} -> ev.index \in e.texts
    [] ev.kind \in {"thinking_delta", "thinking_end"} -> ev.index \in e.thoughts
    [] ev.kind = "toolcall_delta" -> ChatTool(e, ev) # 0
    [] ev.kind = "toolcall_end" -> \E k \in DOMAIN e.calls : e.calls[k].index = ev.index
    [] OTHER -> TRUE

ChatFinish(e, name) == Chunk([e EXCEPT !.finished = TRUE], name, 1, <<>>)

ChatHandle(e, ev) ==
  CASE ev.kind = "start"              -> Chunk(e, "role", 1, <<>>)
    [] ev.kind = "text_start"         -> [e EXCEPT !.texts = @ \cup {ev.index}]
    [] ev.kind = "text_delta"         -> Chunk(e, "content", 1, ev.delta)
    [] ev.kind = "text_end"           -> [e EXCEPT !.texts = @ \ {ev.index}]
    [] ev.kind = "thinking_start"     -> [e EXCEPT !.thoughts = @ \cup {ev.index}]
    [] ev.kind = "thinking_delta"     -> Chunk(e, "reasoning", 1, ev.delta)
    [] ev.kind = "thinking_end"       -> [e EXCEPT !.thoughts = @ \ {ev.index}]
    [] ev.kind = "thinking_signature" -> e
    [] ev.kind = "toolcall_start"     -> StartChatCall(e, ev)
    [] ev.kind = "toolcall_delta"     -> Chunk(e, "arguments", ChatTool(e, ev), ev.delta)
    [] ev.kind = "toolcall_end"       -> e
    [] ev.kind = "done"               -> ChatFinish(e, "done")
    [] ev.kind = "error"              -> ChatFinish(e, "error")

ChatEncode(e, ev) ==
  IF ~ValidEvent(ev) \/ e.finished \/ ~ChatKnows(e, ev)
  THEN [e EXCEPT !.refused = TRUE]
  ELSE ChatHandle(e, ev)

(* A client adds the chunks up; an ordinal it does not know breaks it.     *)
NewChatClient == [state |-> "waiting", content |-> <<>>, reasoning |-> <<>>, calls |-> <<>>]

ChatRead(c, f) ==
  CASE f.name = "role"      -> IF c.state = "waiting" THEN [c EXCEPT !.state = "reading"] ELSE Broken(c)
    [] f.name = "content"   -> [c EXCEPT !.content = @ \o f.payload]
    [] f.name = "reasoning" -> [c EXCEPT !.reasoning = @ \o f.payload]
    [] f.name = "call"      -> IF f.index = Len(c.calls) + 1
                               THEN [c EXCEPT !.calls =
                                       Append(@, [name |-> f.payload, body |-> <<>>])]
                               ELSE Broken(c)
    [] f.name = "arguments" -> IF f.index \in DOMAIN c.calls
                               THEN [c EXCEPT !.calls[f.index].body = @ \o f.payload]
                               ELSE Broken(c)
    [] f.name \in {"done", "error"} -> IF c.state = "reading" THEN [c EXCEPT !.state = f.name]
                                       ELSE Broken(c)

(* The same answer without streaming: message_to_chat.                     *)
MessageToChat(content) ==
  LET Of(kind) == SelectSeq(content, LAMBDA block : block.kind = kind)
      Bodies(blocks) == FlattenSeq([i \in DOMAIN blocks |-> blocks[i].body])
      calls == Of("tool")
  IN  [content |-> Bodies(Of("text")), reasoning |-> Bodies(Of("thinking")),
       calls |-> [k \in DOMAIN calls |-> [name |-> <<calls[k].id, calls[k].name>>,
                                          body |-> calls[k].args]]]
=============================================================================
