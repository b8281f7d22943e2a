-------------------------- MODULE ResponseDecoder --------------------------
(***************************************************************************)
(* The decoder of src/src/upstream/response.rs as operators over its       *)
(* state: each takes a decoder and returns it with the events it has       *)
(* appended to `out`.                                                      *)
(*                                                                         *)
(* Text is a sequence of bytes, because stop sequences are found and text  *)
(* is withheld by bytes; thinking, signatures and arguments are sequences  *)
(* of fragments. An event carries the block it is about as it was when it  *)
(* was emitted: the `partial` of an event is a snapshot, of which the      *)
(* encoders read that block only. Blocks are numbered from 1.              *)
(*                                                                         *)
(* Usage, identifiers of the message, timestamps and schema drift are left *)
(* out: no event depends on them.                                          *)
(***************************************************************************)
EXTENDS Integers, Sequences, SequencesExt, FiniteSetsExt

CONSTANTS
  Patterns,     (* The stop sequences of the request, in its order.        *)
  Continuing,   (* The bytes that continue a character.                    *)
  CustomTools,  (* The tools declared freeform, which travel wrapped.      *)
  Objects       (* The argument bodies that are a JSON object.             *)

ASSUME PatternsAssumption ==
  /\ Patterns \in Seq(Seq(UNION {Range(Patterns[k]) : k \in DOMAIN Patterns}))
  /\ \A k \in DOMAIN Patterns : Patterns[k] # <<>> /\ Patterns[k][1] \notin Continuing

(* What a call ends with is among them when it had to be repaired.         *)
ASSUME ObjectsAssumption == {<<"empty">>, <<"repaired">>} \subseteq Objects

(* One frame of upstream that says nothing; one delta of a tool call.      *)
Silence == [think |-> <<>>, sig |-> <<>>, redacted |-> FALSE, text |-> <<>>,
            calls |-> <<>>, stop |-> "none"]
NoDelta == [id |-> <<>>, name |-> "", args |-> <<>>, verbatim |-> <<>>, custom |-> FALSE]

NoText == [at |-> 0, buf |-> <<>>, sent |-> 0]
NoThinking == [at |-> 0, body |-> <<>>, sig |-> <<>>, redacted |-> FALSE]

NewDecoder == [content |-> <<>>, text |-> NoText, think |-> NoThinking, tools |-> <<>>,
               stop |-> "none", cut |-> FALSE, stopSequence |-> <<>>, finished |-> FALSE,
               out |-> <<>>]

TextBlock == [kind |-> "text", body |-> <<>>]
ThinkingBlock(thinking) == [kind |-> "thinking", body |-> thinking.body,
                            sig |-> thinking.sig, redacted |-> thinking.redacted]

NoBlock == [kind |-> "none"]
Event(kind, i, block) == [kind |-> kind, index |-> i, block |-> block, delta |-> <<>>,
                          id |-> <<>>, reason |-> "none", message |-> <<>>]
StartEvent == Event("start", 1, NoBlock)

Tell(d, kind, i) == [d EXCEPT !.out = Append(@, Event(kind, i, d.content[i]))]
TellDelta(d, kind, i, delta) ==
  [d EXCEPT !.out = Append(@, [Event(kind, i, d.content[i]) EXCEPT !.delta = delta])]
TellCall(d, kind, call, delta) ==
  [d EXCEPT !.out = Append(@, [Event(kind, call.at, d.content[call.at])
                                 EXCEPT !.id = call.eventId, !.delta = delta])]

-----------------------------------------------------------------------------
(* Text and its stop sequences.                                            *)

Occurs(text, pattern, i) ==
  /\ i + Len(pattern) <= Len(text)
  /\ \A k \in 1..Len(pattern) : text[i + k] = pattern[k]

(* Where a stop sequence begins at or after `from`.                        *)
Hits(text, from) ==
  {i \in from..Len(text) : \E k \in DOMAIN Patterns : Occurs(text, Patterns[k], i)}

Longest == Max({Len(Patterns[k]) : k \in DOMAIN Patterns} \cup {0})

IsBoundary(text, i) == i = Len(text) \/ text[i + 1] \notin Continuing

(* Mutant: a whole pattern length less one too few bytes are held back. *)
SafeLengthShort(text, from) ==
  Max({from} \cup {i \in from..(Len(text) - (Longest - 2)) : i <= Len(text) /\ IsBoundary(text, i)})

(* How much of the text may be told now: what is left could be the start   *)
(* of a stop sequence, and a character is never cut.                       *)
SafeLength(text, from) ==
  Max({from} \cup {i \in from..(Len(text) - (Longest - 1)) : IsBoundary(text, i)})

(* emit_text_delta up to `upto` bytes of the open text.                    *)
TellText(d, upto) ==
  IF upto <= d.text.sent THEN d
  ELSE TellDelta([d EXCEPT !.text.sent = upto], "text_delta", d.text.at,
                 SubSeq(d.text.buf, d.text.sent + 1, upto))

EndText(d) ==
  IF d.text.at = 0 THEN d
  ELSE LET told == TellText(d, Len(d.text.buf))
       IN  Tell([told EXCEPT !.content[d.text.at].body = d.text.buf, !.text = NoText],
                "text_end", d.text.at)

CutText(d, hit) ==
  LET first == Min({k \in DOMAIN Patterns : Occurs(d.text.buf, Patterns[k], hit)})
  IN  EndText([TellText(d, hit) EXCEPT !.stopSequence = Patterns[first],
                                       !.cut = TRUE,
                                       !.text.buf = SubSeq(@, 1, hit)])

ScanTextForStops(d) ==
  LET hits == Hits(d.text.buf, d.text.sent)
  IN  IF hits # {} THEN CutText(d, Min(hits))
      ELSE TellText(d, SafeLength(d.text.buf, d.text.sent))

OpenText(d) ==
  IF d.text.at # 0 THEN d
  ELSE Tell([d EXCEPT !.content = Append(@, TextBlock), !.text.at = Len(d.content) + 1],
            "text_start", Len(d.content) + 1)

DecodeText(d, delta) ==
  LET open == OpenText(d)
      grown == [open EXCEPT !.text.buf = @ \o delta]
  IN  IF Patterns = <<>> THEN TellText(grown, Len(grown.text.buf))
      ELSE ScanTextForStops(grown)

-----------------------------------------------------------------------------
(* Thinking and its signature.                                             *)

EndThinking(d) ==
  IF d.think.at = 0 THEN d
  ELSE Tell([d EXCEPT !.content[d.think.at] = ThinkingBlock(d.think), !.think = NoThinking],
            "thinking_end", d.think.at)

OpenThinking(d, frame) ==
  IF d.think.at # 0 THEN d
  ELSE LET fresh == [NoThinking EXCEPT !.redacted = frame.redacted]
           i == Len(d.content) + 1
       IN  Tell([d EXCEPT !.content = Append(@, ThinkingBlock(fresh)),
                          !.think = [fresh EXCEPT !.at = i]], "thinking_start", i)

DecodeThinking(d, frame) ==
  LET open == OpenThinking(d, frame)
      grown == [open EXCEPT !.think.body = @ \o frame.think,
                            !.think.sig = @ \o frame.sig,
                            !.think.redacted = @ \/ frame.redacted]
  IN  IF frame.think = <<>> THEN grown
      ELSE TellDelta(grown, "thinking_delta", grown.think.at, frame.think)

(* Mutant: the late signature's own block is never opened. *)
DecodeLateSignatureUnopened(d, frame) ==
  LET thoughts == {i \in DOMAIN d.content : d.content[i].kind = "thinking"}
      last == Max(thoughts)
      i == Len(d.content) + 1
      alone == [NoThinking EXCEPT !.sig = frame.sig, !.redacted = frame.redacted]
  IN  IF thoughts # {}
      THEN TellDelta([d EXCEPT !.content[last].sig = @ \o frame.sig],
                     "thinking_signature", last, frame.sig)
      ELSE Tell([d EXCEPT !.content = Append(@, ThinkingBlock(alone))], "thinking_end", i)

(* A signature after its block has closed belongs to the last block of     *)
(* thinking; without one it is a block of its own, which opens and closes. *)
DecodeLateSignature(d, frame) ==
  LET thoughts == {i \in DOMAIN d.content : d.content[i].kind = "thinking"}
      last == Max(thoughts)
      i == Len(d.content) + 1
      alone == [NoThinking EXCEPT !.sig = frame.sig, !.redacted = frame.redacted]
  IN  IF thoughts # {}
      THEN TellDelta([d EXCEPT !.content[last].sig = @ \o frame.sig,
                               !.content[last].redacted = @ \/ frame.redacted],
                     "thinking_signature", last, frame.sig)
      ELSE Tell(Tell([d EXCEPT !.content = Append(@, ThinkingBlock(alone))],
                     "thinking_start", i), "thinking_end", i)

-----------------------------------------------------------------------------
(* Tool calls.                                                             *)

(* The call a delta belongs to, or 0: the one of its id; the last one if   *)
(* that still waits for its id, or if the delta has no id and does not     *)
(* name another tool.                                                      *)
FindTool(d, delta) ==
  LET known == {k \in DOMAIN d.tools : delta.id # <<>> /\ d.tools[k].call.id = delta.id}
      last == Len(d.tools)
      continues == /\ last # 0
                   /\ delta.id # <<>> => d.tools[last].placeholder
                   /\ delta.id = <<>> => \/ delta.name \in {"", d.tools[last].call.name}
                                       \/ d.tools[last].call.name = ""
  IN  IF known # {} THEN Min(known) ELSE IF continues THEN last ELSE 0

NewTool(d, delta) ==
  LET id == IF delta.id = <<>> THEN <<"call", Len(d.tools)>> ELSE delta.id
  IN  [call |-> [kind |-> "tool", id |-> id, name |-> delta.name, args |-> <<"empty">>,
                 custom |-> FALSE],
       at |-> 0, eventId |-> id, args |-> <<>>,
       placeholder |-> delta.id = <<>>, wrapped |-> FALSE]

Named(tool, delta) ==
  LET wrapped == delta.name \in CustomTools
  IN  [tool EXCEPT !.call.name = IF delta.name = "" THEN @ ELSE delta.name,
                   !.call.custom = @ \/ wrapped \/ delta.custom,
                   !.wrapped = @ \/ wrapped]

(* The id that comes late replaces the placeholder in the message, not in  *)
(* the events.                                                             *)
Backfilled(d, k, delta) ==
  IF ~d.tools[k].placeholder \/ delta.id = <<>> THEN d
  ELSE LET call == [d.tools[k].call EXCEPT !.id = delta.id]
       IN  [d EXCEPT !.tools[k].placeholder = FALSE, !.tools[k].call = call,
                     !.content[d.tools[k].at] = call]

Fragment(delta) == IF delta.verbatim # <<>> THEN delta.verbatim ELSE delta.args

(* decode_native_tool: a wrapped call tells its arguments at the end only. *)
DecodeNativeTool(d, k, fragment) ==
  LET i == Len(d.content) + 1
      fresh == [d EXCEPT !.tools[k].at = i, !.content = Append(@, d.tools[k].call)]
      open == IF d.tools[k].at # 0 THEN d
              ELSE TellCall(fresh, "toolcall_start", fresh.tools[k], <<>>)
  IN  IF fragment = <<>> \/ d.tools[k].wrapped THEN open
      ELSE TellCall(open, "toolcall_delta", open.tools[k], fragment)

DecodeTool(d, delta) ==
  LET found == FindTool(d, delta)
      known == IF found # 0 THEN d ELSE [d EXCEPT !.tools = Append(@, NewTool(d, delta))]
      k     == IF found # 0 THEN found ELSE Len(known.tools)
      named == Backfilled([known EXCEPT !.tools[k] = Named(@, delta)], k, delta)
      grown == [named EXCEPT !.tools[k].call.custom = @ \/ delta.verbatim # <<>>,
                             !.tools[k].args = @ \o Fragment(delta)]
  IN  DecodeNativeTool(grown, k, Fragment(delta))

IsJsonObject(args) == args \in Objects

(* The arguments of a call that is over: unwrapped, verbatim, as they are, *)
(* or repaired (parameters leaked as XML become an object, anything else   *)
(* the empty one).                                                         *)
UnwrapCustomToolArguments(args) == IF args = <<"wrap">> THEN <<"patch">> ELSE args

RepairLeakedXmlArguments(args) ==
  IF "xml" \in Range(args) THEN <<"repaired">> ELSE <<"empty">>

FinalCall(tool) ==
  LET args == IF tool.wrapped THEN UnwrapCustomToolArguments(tool.args)
              ELSE IF tool.call.custom \/ IsJsonObject(tool.args) THEN tool.args
              ELSE RepairLeakedXmlArguments(tool.args)
  IN  [tool.call EXCEPT !.args = args]

EndTool(d, k) ==
  LET tool == d.tools[k]
      call == FinalCall(tool)
      told == IF tool.wrapped THEN TellCall(d, "toolcall_delta", tool, call.args) ELSE d
  IN  Tell([told EXCEPT !.content[tool.at] = call, !.tools[k].call = call],
           "toolcall_end", tool.at)

-----------------------------------------------------------------------------
(* The decoder's three entries. Each clears what the last one has told.    *)

DecodeThoughts(d, frame) ==
  IF frame.sig # <<>> /\ frame.think = <<>> /\ d.think.at = 0
  THEN DecodeLateSignature(d, frame)
  ELSE IF frame.think # <<>> \/ frame.redacted \/ frame.sig # <<>>
  THEN DecodeThinking(EndText(d), frame)
  ELSE d

DecodeWords(d, frame) ==
  LET thought == DecodeThoughts(d, frame)
  IN  IF frame.text = <<>> THEN thought ELSE DecodeText(EndThinking(thought), frame.text)

(* The decoder after each of a frame's deltas of calls.                    *)
CallsDecoded(d, calls) ==
  LET decoded[k \in 0..Len(calls)] ==
        IF k = 0 THEN d ELSE DecodeTool(EndText(EndThinking(decoded[k - 1])), calls[k])
  IN  decoded

DecodeParts(d, frame) ==
  LET called == CallsDecoded(DecodeWords(d, frame), frame.calls)[Len(frame.calls)]
  IN  IF frame.stop = "none" THEN called ELSE [called EXCEPT !.stop = frame.stop]

Decode(d, frame) ==
  LET fresh == [d EXCEPT !.out = <<>>]
  IN  IF d.finished \/ d.cut THEN fresh ELSE DecodeParts(fresh, frame)

Final(kind, d, reason) ==
  [Event(kind, 1, NoBlock) EXCEPT !.reason = reason, !.message = d.content]

(* An error leaves open blocks open; only the signature so far is kept.    *)
Fail(d) ==
  IF d.finished THEN [d EXCEPT !.out = <<>>]
  ELSE LET kept == IF d.think.at = 0 THEN d
                   ELSE [d EXCEPT !.content[d.think.at] =
                                    ThinkingBlock([d.think EXCEPT !.body = <<>>])]
       IN  [kept EXCEPT !.finished = TRUE, !.out = <<Final("error", kept, "error")>>]

(* The decoder after each of its calls has ended.                          *)
ToolsEnded(d) ==
  LET done[k \in 0..Len(d.tools)] == IF k = 0 THEN d ELSE EndTool(done[k - 1], k)
  IN  done

Complete(d, reason) ==
  LET closed == EndText(EndThinking([d EXCEPT !.out = <<>>]))
      ended  == ToolsEnded(closed)[Len(d.tools)]
  IN  [ended EXCEPT !.finished = TRUE, !.out = Append(@, Final("done", ended, reason))]

(* A clean end without a stop reason is a truncation, not an end of turn.  *)
Finish(d) ==
  IF d.finished THEN [d EXCEPT !.out = <<>>]
  ELSE IF d.stop = "none" /\ d.content = <<>> THEN Fail(d)
  ELSE IF d.cut THEN Complete(d, "stop_sequence")
  ELSE IF d.stop \in {"none", "error"} THEN Fail(d)
  ELSE Complete(d, d.stop)
=============================================================================
