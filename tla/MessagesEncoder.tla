-------------------------- MODULE MessagesEncoder --------------------------
(***************************************************************************)
(* The Anthropic Messages stream of src/src/protocol/messages.rs: the      *)
(* encoder as operators over its blocks, the frames it writes for one      *)
(* event in `wire`, and a client that reads them as the code expects       *)
(* ("spec clients"): blocks by index, a signature assigned and not added   *)
(* to, a frame for a block that is not open refused.                       *)
(***************************************************************************)
EXTENDS ResponseDecoder

(* ResponseEvent::validate and what it asks of the final message.          *)
ValidContent(block) ==
  CASE block.kind = "thinking" -> block.redacted => block.sig # <<>>
    [] block.kind = "tool"     -> /\ block.id # <<>>
                                  /\ block.name # ""
                                  /\ block.custom \/ IsJsonObject(block.args)
    [] OTHER                   -> TRUE

ValidEvent(ev) ==
  CASE ev.kind = "toolcall_start" -> ev.id # <<>> /\ ev.block.name # ""
    [] ev.kind = "toolcall_delta" -> ev.id # <<>>
    [] ev.kind \in {"text_delta", "thinking_delta", "thinking_signature"} -> ev.delta # <<>>
    [] ev.kind = "toolcall_end"   -> ValidContent(ev.block)
    [] ev.kind \in {"done", "error"} ->
         \A i \in DOMAIN ev.message : ValidContent(ev.message[i])
    [] OTHER -> TRUE

-----------------------------------------------------------------------------
(* The encoder. `refused` is the error `encode_into` returns: the body     *)
(* ends there and nothing of the event reaches the client.                 *)

NewMessages == [blocks |-> <<>>, finished |-> FALSE, refused |-> FALSE, wire |-> <<>>]

Frame(name, i, kind, payload) == [name |-> name, index |-> i, kind |-> kind, payload |-> payload]
Write(e, frame) == [e EXCEPT !.wire = Append(@, frame)]

BlockState(i, kind, redacted) ==
  [index |-> i, kind |-> kind, sig |-> <<>>, pending |-> FALSE, deferred |-> FALSE,
   redacted |-> redacted, unopened |-> redacted]

At(e, i) == CHOOSE b \in DOMAIN e.blocks : e.blocks[b].index = i
Has(e, i, kind) == \E b \in DOMAIN e.blocks : e.blocks[b].index = i /\ e.blocks[b].kind = kind

(* Whether a block before this one still waits for its signature.          *)
EarlierPending(e, i) == \E b \in DOMAIN e.blocks : e.blocks[b].index < i /\ e.blocks[b].pending

StartBlock(e, i, kind, payload) ==
  Write([e EXCEPT !.blocks = Append(@, BlockState(i, kind, FALSE))],
        Frame("start", i, kind, payload))

(* A redacted block carries its data in its start: the start waits.        *)
StartThinking(e, ev) ==
  IF ev.block.redacted
  THEN [e EXCEPT !.blocks = Append(@, BlockState(ev.index, "thinking", TRUE))]
  ELSE StartBlock(e, ev.index, "thinking", <<>>)

ThinkingDelta(e, ev) ==
  IF e.blocks[At(e, ev.index)].redacted THEN e
  ELSE Write(e, Frame("delta", ev.index, "thinking", ev.delta))

StopThinking(e, i) ==
  LET b == e.blocks[At(e, i)]
  IN  CASE b.redacted /\ b.sig # <<>> /\ b.unopened ->
             Write(Write(e, Frame("start", i, "redacted", b.sig)), Frame("stop", i, "plain", <<>>))
        [] b.redacted /\ b.sig # <<>> /\ ~b.unopened ->
             Write(e, Frame("stop", i, "redacted", b.sig))
        [] b.sig = <<>> /\ b.unopened -> e
        [] OTHER -> Write(e, Frame("stop", i, "plain", <<>>))

TellSignature(e, i) ==
  LET b == e.blocks[At(e, i)]
  IN  IF b.redacted \/ b.sig = <<>> THEN e ELSE Write(e, Frame("sig", i, "thinking", b.sig))

(* Mutant: the end of a block does not wait for the blocks before it. *)
EndBlockNow(e, i) == Write(e, Frame("stop", i, "plain", <<>>))

(* end_text and end_tool_use.                                              *)
EndBlock(e, i) ==
  IF EarlierPending(e, i) THEN [e EXCEPT !.blocks[At(e, i)].deferred = TRUE]
  ELSE Write(e, Frame("stop", i, "plain", <<>>))

(* Without a signature the end waits for one that trails.                  *)
MessagesEndThinking(e, ev) ==
  LET b == At(e, ev.index)
      read == [e EXCEPT !.blocks[b].sig = @ \o ev.block.sig,
                        !.blocks[b].redacted = @ \/ ev.block.redacted]
  IN  CASE read.blocks[b].sig = <<>> -> [read EXCEPT !.blocks[b].pending = TRUE]
        [] read.blocks[b].sig # <<>> /\ EarlierPending(read, ev.index) ->
             [read EXCEPT !.blocks[b].deferred = TRUE]
        [] OTHER -> StopThinking(TellSignature(read, ev.index), ev.index)

(* Everything that waits is closed in the order of the blocks, which is    *)
(* that of their indices.                                                  *)
ClosePending(e, b) ==
  LET i == e.blocks[b].index
      settled == [e EXCEPT !.blocks[b].pending = FALSE, !.blocks[b].deferred = FALSE]
  IN  CASE ~e.blocks[b].pending /\ ~e.blocks[b].deferred -> e
        [] (e.blocks[b].pending \/ e.blocks[b].deferred) /\ e.blocks[b].kind = "thinking" ->
             StopThinking(TellSignature(settled, i), i)
        [] OTHER -> Write(settled, Frame("stop", i, "plain", <<>>))

Flushed(e) ==
  LET flushed[b \in 0..Len(e.blocks)] == IF b = 0 THEN e ELSE ClosePending(flushed[b - 1], b)
  IN  flushed

FlushPendingThinking(e) == Flushed(e)[Len(e.blocks)]

MessagesFinish(e, name) ==
  Write(FlushPendingThinking([e EXCEPT !.finished = TRUE]), Frame(name, 1, "plain", <<>>))

MessagesKnows(e, ev) ==
  CASE ev.kind \in {"text_delta", "text_end"} -> Has(e, ev.index, "text")
    [] ev.kind \in {"thinking_delta", "thinking_end", "thinking_signature"} ->
         Has(e, ev.index, "thinking")
    [] ev.kind \in {"toolcall_delta", "toolcall_end"} -> Has(e, ev.index, "tool")
    [] OTHER -> TRUE

MessagesHandle(e, ev) ==
  CASE ev.kind = "start"              -> Write(e, Frame("open", 1, "plain", <<>>))
    [] ev.kind = "text_start"         -> StartBlock(e, ev.index, "text", <<>>)
    [] ev.kind = "text_delta"         -> Write(e, Frame("delta", ev.index, "text", ev.delta))
    [] ev.kind = "text_end"           -> EndBlock(e, ev.index)
    [] ev.kind = "thinking_start"     -> StartThinking(e, ev)
    [] ev.kind = "thinking_delta"     -> ThinkingDelta(e, ev)
    [] ev.kind = "thinking_end"       -> MessagesEndThinking(e, ev)
    [] ev.kind = "thinking_signature" -> [e EXCEPT !.blocks[At(e, ev.index)].sig = @ \o ev.delta]
    [] ev.kind = "toolcall_start"     -> StartBlock(e, ev.index, "tool",
                                                    <<ev.id, ev.block.name>>)
    [] ev.kind = "toolcall_delta"     -> Write(e, Frame("delta", ev.index, "tool", ev.delta))
    [] ev.kind = "toolcall_end"       -> EndBlock(e, ev.index)
    [] ev.kind = "done"               -> MessagesFinish(e, "done")
    [] ev.kind = "error"              -> MessagesFinish(e, "error")

(* encode_into.                                                            *)
MessagesEncode(e, ev) ==
  IF ~ValidEvent(ev) \/ e.finished \/ ~MessagesKnows(e, ev)
  THEN [e EXCEPT !.refused = TRUE]
  ELSE MessagesHandle(e, ev)

-----------------------------------------------------------------------------
(* A client: the blocks it has, the order in which they were closed.       *)

NewMessagesClient == [state |-> "waiting", blocks |-> <<>>, closed |-> <<>>]

ClientHas(c, i) == \E b \in DOMAIN c.blocks : c.blocks[b].index = i
ClientAt(c, i) == CHOOSE b \in DOMAIN c.blocks : c.blocks[b].index = i
IsOpen(c, i) == ClientHas(c, i) /\ ~Contains(c.closed, i)
Broken(c) == [c EXCEPT !.state = "broken"]

ReadStart(c, f) ==
  IF c.state # "reading" \/ ClientHas(c, f.index) THEN Broken(c)
  ELSE [c EXCEPT !.blocks =
          Append(@, [index |-> f.index, kind |-> f.kind,
                     name |-> IF f.kind = "tool" THEN f.payload ELSE <<>>,
                     body |-> <<>>, sig |-> IF f.kind = "redacted" THEN f.payload ELSE <<>>])]

ReadStop(c, f) ==
  LET shut == [c EXCEPT !.closed = Append(@, f.index)]
  IN  CASE ~IsOpen(c, f.index) -> Broken(c)
        [] IsOpen(c, f.index) /\ f.kind = "redacted" ->
             [shut EXCEPT !.blocks[ClientAt(c, f.index)].kind = "redacted",
                          !.blocks[ClientAt(c, f.index)].body = <<>>,
                          !.blocks[ClientAt(c, f.index)].sig = f.payload]
        [] OTHER -> shut

MessagesRead(c, f) ==
  CASE f.name = "open"  -> IF c.state = "waiting" THEN [c EXCEPT !.state = "reading"] ELSE Broken(c)
    [] f.name = "start" -> ReadStart(c, f)
    [] f.name = "delta" -> IF IsOpen(c, f.index) /\ c.blocks[ClientAt(c, f.index)].kind = f.kind
                           THEN [c EXCEPT !.blocks[ClientAt(c, f.index)].body = @ \o f.payload]
                           ELSE Broken(c)
    [] f.name = "sig"   -> IF IsOpen(c, f.index)
                           THEN [c EXCEPT !.blocks[ClientAt(c, f.index)].sig = f.payload]
                           ELSE Broken(c)
    [] f.name = "stop"  -> ReadStop(c, f)
    [] f.name = "done"  -> IF c.state = "reading" /\ Len(c.closed) = Len(c.blocks)
                           THEN [c EXCEPT !.state = "done"] ELSE Broken(c)
    [] f.name = "error" -> IF c.state = "reading" THEN [c EXCEPT !.state = "error"] ELSE Broken(c)

-----------------------------------------------------------------------------
(* The same answer without streaming: message_to_anthropic, a block for    *)
(* each one of the message.                                                *)
AnthropicBlock(block) ==
  CASE block.kind = "text"     -> [kind |-> "text", name |-> <<>>, body |-> block.body,
                                   sig |-> <<>>]
    [] block.kind = "tool"     -> [kind |-> "tool", name |-> <<block.id, block.name>>,
                                   body |-> IF block.custom THEN <<"input">> \o block.args ELSE block.args,
                                   sig |-> <<>>]
    [] block.kind = "thinking" -> IF block.redacted
                                  THEN [kind |-> "redacted", name |-> <<>>, body |-> <<>>,
                                        sig |-> block.sig]
                                  ELSE [kind |-> "thinking", name |-> <<>>, body |-> block.body,
                                        sig |-> block.sig]
MessageToAnthropic(content) == [i \in DOMAIN content |-> AnthropicBlock(content[i])]
=============================================================================
