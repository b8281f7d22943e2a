---------------------------- MODULE StreamCodec ----------------------------
(***************************************************************************)
(* One answer on its way to the client: upstream's frames go through the   *)
(* decoder, its events through the encoder of the request's protocol, the  *)
(* encoder's frames to a client. The three protocols run side by side on   *)
(* the same events, so that each can be compared with the final message    *)
(* and with what the protocol answers without streaming.                   *)
(*                                                                         *)
(* An encoder that refuses an event ends the body: the event's frames are  *)
(* dropped (`append_event`, src/src/server/stream.rs) and nothing follows. *)
(***************************************************************************)
EXTENDS OpenAIEncoders

CONSTANTS
  Frames,       (* The frames upstream may send.                           *)
  StopReasons,  (* The stop reasons it may declare.                        *)
  KeepsIds,     (* Whether a call whose first delta has no id gets one     *)
                (* before another call begins with its own.                *)
  MaxFrames     (* Bound: frames with content in one answer.               *)

VARIABLES
  dec,          (* The decoder.                                            *)
  encoders,     (* The encoder of each protocol.                           *)
  clients,      (* The client of each protocol.                            *)
  sent,         (* Frames with content so far.                             *)
  spoken,       (* History: the text upstream sent for each block.         *)
  sealedAt,     (* History: each thinking block as it was when it closed.  *)
  asked,        (* History: the calls as upstream made them.               *)
  ended         (* History: how the answer ended, or "no".                 *)

Bytes == UNION {Range(frame.text) : frame \in Frames}

(* What upstream sends: text is whole characters, and a flag is a flag.    *)
ASSUME FramesAssumption ==
  \A frame \in Frames :
    /\ frame.text \in Seq(Bytes)
    /\ frame.text # <<>> => frame.text[1] \notin Continuing
    /\ frame.redacted \in BOOLEAN
    /\ frame.calls \in Seq(Range(frame.calls))

vars == <<dec, encoders, clients, sent, spoken, sealedAt, asked, ended>>

Protocols == {"messages", "responses", "chat"}

Encode(protocol, e, ev) ==
  CASE protocol = "messages"  -> MessagesEncode(e, ev)
    [] protocol = "responses" -> ResponsesEncode(e, ev)
    [] protocol = "chat"      -> ChatEncode(e, ev)

Read(protocol, c, frame) ==
  CASE protocol = "messages"  -> MessagesRead(c, frame)
    [] protocol = "responses" -> ResponsesRead(c, frame)
    [] protocol = "chat"      -> ChatRead(c, frame)

(* The client after each frame of the wire.                                *)
WireRead(protocol, c, wire) ==
  LET read[n \in 0..Len(wire)] == IF n = 0 THEN c ELSE Read(protocol, read[n - 1], wire[n])
  IN  read

(* append_event for one event: all its frames or none.                     *)
AppendEvent(pair, protocol, ev) ==
  LET e == Encode(protocol, [pair.e EXCEPT !.wire = <<>>], ev)
  IN  IF pair.e.refused THEN pair
      ELSE IF e.refused THEN [pair EXCEPT !.e.refused = TRUE, !.e.wire = <<>>]
      ELSE [e |-> [e EXCEPT !.wire = <<>>], c |-> WireRead(protocol, pair.c, e.wire)[Len(e.wire)]]

(* The encoder and its client after each event.                            *)
Relayed(protocol, e, c, events) ==
  LET relayed[n \in 0..Len(events)] ==
        IF n = 0 THEN [e |-> e, c |-> c] ELSE AppendEvent(relayed[n - 1], protocol, events[n])
  IN  relayed

Relay(protocol, e, c, events) == Relayed(protocol, e, c, events)[Len(events)]

RelayAll(events) ==
  LET pairs == [p \in Protocols |-> Relay(p, encoders[p], clients[p], events)]
  IN  /\ encoders' = [p \in Protocols |-> pairs[p].e]
      /\ clients' = [p \in Protocols |-> pairs[p].c]

-----------------------------------------------------------------------------
(* The history of a step: which text block the frame's text went to, and   *)
(* the thinking blocks it closed.                                          *)
Lengthened(s, n, filler) == s \o [i \in 1..(n - Len(s)) |-> filler]

Spoken(before, after, frame) ==
  LET long == Lengthened(spoken, Len(after.content), <<>>)
      texts == {i \in DOMAIN after.content : after.content[i].kind = "text"}
      opened == {ev \in Range(after.out) : ev.kind = "text_start"}
      target == IF opened # {} THEN (CHOOSE ev \in opened : TRUE).index ELSE before.text.at
  IN  IF frame.text = <<>> \/ before.cut \/ target \notin texts THEN long
      ELSE [long EXCEPT ![target] = @ \o frame.text]

SealedAt(after) ==
  LET long == Lengthened(sealedAt, Len(after.content), NoBlock)
      closed == {ev \in Range(after.out) : ev.kind = "thinking_end"}
  IN  [i \in DOMAIN long |->
         IF \E ev \in closed : ev.index = i
         THEN (CHOOSE ev \in closed : ev.index = i).block ELSE long[i]]

(* Upstream's own record of its calls. A delta belongs to the call of its  *)
(* id; an id not seen before is the late one of a last call that has none, *)
(* or begins a call; without an id a delta continues the last call, unless *)
(* it names another tool.                                                  *)
Addressed(record, delta) ==
  LET known == {k \in DOMAIN record : delta.id # <<>> /\ record[k].id = delta.id}
      last  == Len(record)
      continues == /\ last # 0
                   /\ IF delta.id # <<>> THEN record[last].id = <<>>
                      ELSE delta.name \in {"", record[last].name}
  IN  IF known # {} THEN Min(known) ELSE IF continues THEN last ELSE last + 1

(* A call as made so far: the id it was opened with, if any, and the id it *)
(* has; the argument bytes in their order; whether it is of a tool that    *)
(* travels wrapped, is freeform, and was so from its first delta on.       *)
Asked(record, delta) ==
  LET k == Addressed(record, delta)
      wrapped == delta.name \in CustomTools
      custom  == wrapped \/ delta.custom \/ delta.verbatim # <<>>
  IN  IF k > Len(record)
      THEN Append(record, [opened |-> delta.id, id |-> delta.id, name |-> delta.name,
                           body |-> Fragment(delta), wrapped |-> wrapped,
                           custom |-> custom, begun |-> custom])
      ELSE [record EXCEPT ![k].id = IF @ = <<>> THEN delta.id ELSE @,
                          ![k].body = @ \o Fragment(delta),
                          ![k].wrapped = @ \/ wrapped,
                          ![k].custom = @ \/ custom]

(* Nothing is heard of upstream once the answer has been cut.              *)
AskedAfter(before, frame) ==
  LET record[k \in 0..Len(frame.calls)] ==
        IF k = 0 THEN asked ELSE Asked(record[k - 1], frame.calls[k])
  IN  IF before.cut THEN asked ELSE record[Len(frame.calls)]

Advance(after, frame) ==
  /\ dec' = [after EXCEPT !.out = <<>>]
  /\ RelayAll(after.out)
  /\ spoken' = Spoken(dec, after, frame)
  /\ sealedAt' = SealedAt(after)
  /\ asked' = AskedAfter(dec, frame)

(* Upstream names the tool in the first delta of a call; its id may be     *)
(* late.                                                                   *)
NamesItsCalls(frame) ==
  \A k \in DOMAIN frame.calls :
    LET delta == frame.calls[k]
        known == CallsDecoded(DecodeWords([dec EXCEPT !.out = <<>>], frame), frame.calls)[k - 1]
        found == FindTool(known, delta)
    IN  IF found = 0 THEN delta.name # ""
        ELSE KeepsIds => delta.name \in {"", known.tools[found].call.name}

(* A frame with content arrives (`absorb_data`).                           *)
Absorb(frame) ==
  /\ ~dec.finished
  /\ NamesItsCalls(frame)
  /\ sent < MaxFrames
  /\ sent' = sent + 1
  /\ Advance(Decode(dec, frame), frame)
  /\ UNCHANGED ended

(* The frame that declares how the turn stops.                             *)
Declare(reason) ==
  /\ ~dec.finished
  /\ dec.stop = "none"
  /\ Advance(Decode(dec, [Silence EXCEPT !.stop = reason]), Silence)
  /\ UNCHANGED <<sent, ended>>

(* The stream ends: cleanly, or with an error of the transport, of a       *)
(* watchdog or of the cancellation.                                        *)
EndCleanly ==
  /\ ~dec.finished
  /\ Advance(Finish(dec), Silence)
  /\ ended' = IF Finish(dec).out[Len(Finish(dec).out)].kind = "done" THEN "done" ELSE "error"
  /\ UNCHANGED sent

EndInError ==
  /\ ~dec.finished
  /\ Advance(Fail(dec), Silence)
  /\ ended' = "error"
  /\ UNCHANGED sent

Over == ended # "no" /\ UNCHANGED vars

Init ==
  LET fresh == [messages |-> NewMessages, responses |-> NewResponses, chat |-> NewChat]
      readers == [messages |-> NewMessagesClient, responses |-> NewResponsesClient,
                  chat |-> NewChatClient]
      pairs == [p \in Protocols |-> Relay(p, fresh[p], readers[p], <<StartEvent>>)]
  IN  /\ dec = NewDecoder
      /\ encoders = [p \in Protocols |-> pairs[p].e]
      /\ clients = [p \in Protocols |-> pairs[p].c]
      /\ sent = 0 /\ spoken = <<>> /\ sealedAt = <<>> /\ asked = <<>>
      /\ ended = "no"

Next ==
  \/ \E frame \in Frames : Absorb(frame)
  \/ \E reason \in StopReasons : Declare(reason)
  \/ EndCleanly
  \/ EndInError
  \/ Over

Spec == Init /\ [][Next]_vars

-----------------------------------------------------------------------------
(* What the client sees of text block i: the deltas told so far.           *)
Shown(i) == LET held == clients["messages"].blocks
            IN  IF ClientHas(clients["messages"], i) THEN held[ClientAt(clients["messages"], i)].body
                ELSE <<>>

TextBlocks == {i \in DOMAIN dec.content : dec.content[i].kind = "text"}
LastText == Max(TextBlocks)
Holds(text) == Hits(text, 0) # {}

(* response.rs:1186-1192: a stop sequence is found however upstream splits *)
(* it over frames, and no part of it is told. What the client has been     *)
(* told of a block contains no stop sequence and is a beginning of what    *)
(* upstream said, ending between two characters; fewer bytes are held back *)
(* than the longest one has, and those of one character; a block that was  *)
(* closed is told in full, unless it is the one that was cut: then what    *)
(* follows what was told is the stop sequence on record.                   *)
StopCutsText ==
  \A i \in TextBlocks :
    LET shown == Shown(i)
        cutHere == dec.cut /\ i = LastText
    IN  ~encoders["messages"].refused =>
        /\ IsPrefix(shown, spoken[i])
        /\ ~Holds(shown)
        /\ IsBoundary(spoken[i], Len(shown))
        /\ ~cutHere => ~Holds(spoken[i])
        /\ cutHere => IsPrefix(shown \o dec.stopSequence, spoken[i])
        /\ ~cutHere /\ dec.text.at # i => shown = spoken[i]
        /\ dec.text.at = i => \A j \in (Len(shown) + 1)..Len(spoken[i]) :
                                IsBoundary(spoken[i], j) => j > Len(spoken[i]) - (Longest - 1)

(* Thinking hidden by upstream whose signature never came is what the      *)
(* event contract refuses.                                                 *)
Unfit == \E i \in DOMAIN dec.content : ~ValidContent(dec.content[i])

(* messages.rs:862, chat.rs:778, responses.rs:1033: an event that has no   *)
(* block is a bug of the decoder and ends the stream. The decoder never    *)
(* makes one, whatever the order in which upstream mixes text, thinking,   *)
(* trailing signatures and calls: no encoder refuses anything else than    *)
(* content that is unfit.                                                  *)
EventsAreAccepted == ~Unfit => \A p \in Protocols : ~encoders[p].refused

(* Where the code lets a stream say something else than the final message: *)
(* a placeholder id stays; arguments that were repaired at the end are     *)
(* told as they came; a call that turns freeform after it began stays the  *)
(* function call it was opened as; a block that closed with a signature    *)
(* keeps the part it had, and one that closed unhidden stays so. A custom  *)
(* call's input is compared before it is wrapped.                          *)
CallOf(i) == asked[Cardinality({j \in 1..i : dec.content[j].kind = "tool"})]

(* The arguments upstream meant, out of their wrapping.                    *)
Meant(call) == IF call.wrapped THEN UnwrapCustomToolArguments(call.body) ELSE call.body

(* The decoder keeps upstream's calls: as many, in their order, each with  *)
(* its id, name, kind and arguments. Only what is no JSON object though it *)
(* should be one is replaced, and then by one.                             *)
CallsAreKept ==
  LET calls == {i \in DOMAIN dec.content : dec.content[i].kind = "tool"}
  IN  /\ Len(asked) = Cardinality(calls)
      /\ \A i \in calls :
           LET block == dec.content[i]
               call  == CallOf(i)
           IN  /\ block.name = call.name /\ block.custom = call.custom
               /\ call.id # <<>> => block.id = call.id
               /\ IF call.custom \/ IsJsonObject(call.body) THEN block.args = Meant(call)
                  ELSE IsJsonObject(block.args)

(* What a client was told of a call: its opening and its argument bytes.   *)
ToldCall(i, name, body) ==
  LET call == CallOf(i)
  IN  /\ call.opened # <<>> => name[1] = call.opened
      /\ name[2] = call.name
      /\ body = Meant(call)

ToldThinking(i) == [dec.content[i] EXCEPT !.redacted = sealedAt[i].redacted]
ToldSignature(i, told) ==
  \/ told = dec.content[i].sig
  \/ sealedAt[i].sig # <<>> /\ told = sealedAt[i].sig

MessagesBlockAgrees(i, told) ==
  LET block == dec.content[i]
      final == AnthropicBlock(IF block.kind = "thinking" THEN ToldThinking(i) ELSE block)
  IN  /\ told.kind = final.kind
      /\ IF block.kind = "tool"
         THEN ToldCall(i, told.name, told.body)
         ELSE told.body = final.body
      /\ block.kind = "thinking" => ToldSignature(i, told.sig)

(* messages.rs:723-729: no thinking closes after a block behind it.        *)
ThinkingClosesInTurn(c) ==
  \A m, n \in DOMAIN c.closed :
    m < n /\ c.closed[m] > c.closed[n] => dec.content[c.closed[n]].kind # "thinking"

MessagesReadsTheAnswer ==
  LET c == clients["messages"]
  IN  /\ c.state # "broken"
      /\ ThinkingClosesInTurn(c)
      /\ c.state = "done" =>
           /\ Len(c.blocks) = Len(dec.content)
           /\ \A i \in DOMAIN dec.content :
                ClientHas(c, i) /\ MessagesBlockAgrees(i, c.blocks[ClientAt(c, i)])

ResponsesItemAgrees(item, told) ==
  IF dec.content[item.index].kind = "tool" THEN ToldCall(item.index, item.item.name, told)
  ELSE told = item.item.body

(* The final message, with each call of the kind it began as.              *)
AsBegun(i) ==
  IF dec.content[i].kind = "tool" THEN [dec.content[i] EXCEPT !.custom = CallOf(i).begun]
  ELSE dec.content[i]

ResponsesReadsTheAnswer ==
  LET c == clients["responses"]
  IN  /\ c.state # "broken"
      /\ c.state = "done" =>
           /\ Ranked(c.output) = OutputFromMessage([i \in DOMAIN dec.content |-> AsBegun(i)])
           /\ \A n \in DOMAIN c.closed :
                ResponsesItemAgrees(c.closed[n], c.told[ToldAt(c, c.closed[n].index)].body)

ChatReadsTheAnswer ==
  LET c == clients["chat"]
      final == MessageToChat(dec.content)
      calls == {i \in DOMAIN dec.content : dec.content[i].kind = "tool"}
  IN  /\ c.state # "broken"
      /\ c.state = "done" =>
           /\ c.content = final.content
           /\ c.reasoning = final.reasoning
           /\ Len(c.calls) = Cardinality(calls)
           /\ \A i \in calls :
                LET told == c.calls[Cardinality(calls \cap 1..i)]
                IN  ToldCall(i, told.name, told.body)

(* messages.rs:1487, responses.rs:1560, chat.rs:1129: who streams an       *)
(* answer reads what who does not is given. In each protocol the frames    *)
(* are in an order a client accepts, every block is opened and closed      *)
(* once, and what they add up to is the final message of the decoder:      *)
(* text, thinking and signatures that trailed behind later blocks. The     *)
(* calls are those upstream made: the deltas of each reach its block and   *)
(* no other's, none is lost, and the decoder and every client end with the *)
(* same bytes.                                                             *)
ClientsReadTheAnswer ==
  /\ dec.finished /\ ended = "done" => CallsAreKept
  /\ MessagesReadsTheAnswer
  /\ ResponsesReadsTheAnswer
  /\ ChatReadsTheAnswer

-----------------------------------------------------------------------------
(* messages.rs:1307-1309: "the complete input already arrived via          *)
(* input_json_delta increments". The input of a call that a Messages       *)
(* client added up is the one it would have been given without streaming.  *)
InputIsComplete ==
  LET c == clients["messages"]
  IN  c.state = "done" =>
        \A i \in DOMAIN dec.content :
          dec.content[i].kind = "tool" =>
            LET told == c.blocks[ClientAt(c, i)].body
                final == AnthropicBlock(dec.content[i]).body
            IN  told = final \/ (told = <<>> /\ final = <<"empty">>)

(* messages.rs:729-731: the highest-index block always closes last.        *)
HighestClosesLast ==
  LET c == clients["messages"]
  IN  c.state = "done" /\ c.closed # <<>> => c.closed[Len(c.closed)] = Max(Range(c.closed))

(* response.rs:1470-1475: the deltas of two calls are not glued together.  *)
(* A call keeps the name it was started with.                              *)
CallsStayApart ==
  LET c == clients["messages"]
  IN  \A b \in DOMAIN c.blocks :
        c.blocks[b].kind = "tool" => c.blocks[b].name[2] = dec.content[c.blocks[b].index].name

(* responses.rs:1205-1207: "Custom/freeform call argument bodies are not   *)
(* JSON [...]: they go down as Responses custom_tool_call items". So does  *)
(* every call that the final message holds as freeform.                    *)
CustomCallsAreCustom ==
  LET c == clients["responses"]
  IN  c.state = "done" =>
        \A n \in DOMAIN c.closed :
          LET block == dec.content[c.closed[n].index]
          IN  block.kind = "tool" /\ block.custom => c.closed[n].item.kind = "custom_tool_call"

(* messages.rs:1378: a failure ends the stream with an error the client    *)
(* is told.                                                                *)
ErrorsAreTold ==
  ended = "error" => \A p \in Protocols : clients[p].state = "error"
=============================================================================
