--------------------------- MODULE MCStreamCodec ---------------------------
(***************************************************************************)
(* An instance of StreamCodec for TLC. Two stop sequences that overlap,    *)
(* text with a character of two bytes; a native call in two fragments, one *)
(* whose id comes late, a wrapped one, a verbatim one and one with leaked  *)
(* XML; thinking with and without its signature.                           *)
(***************************************************************************)
EXTENDS StreamCodec

MCPatterns == <<<<"b", "a", "b">>, <<"a", "a">>>>
MCObjects == {<<"empty">>, <<"repaired">>, <<"wrap">>, <<"open", "close">>}

Text(bytes) == [Silence EXCEPT !.text = bytes]
Think(fragments) == [Silence EXCEPT !.think = fragments]
Sig(fragments) == [Silence EXCEPT !.sig = fragments]
Call(delta) == [Silence EXCEPT !.calls = <<delta>>]

First == [NoDelta EXCEPT !.id = <<"c1">>, !.name = "f", !.args = <<"open">>]
Rest == [NoDelta EXCEPT !.args = <<"close">>]
Late == [NoDelta EXCEPT !.id = <<"c2">>, !.args = <<"close">>]
Idless == [NoDelta EXCEPT !.name = "g", !.args = <<"open">>]
Wrapped == [NoDelta EXCEPT !.id = <<"c3">>, !.name = "w", !.args = <<"wrap">>]
Verbatim == [NoDelta EXCEPT !.id = <<"c1">>, !.name = "f", !.verbatim = <<"patch">>]
Leaked == [NoDelta EXCEPT !.id = <<"c4">>, !.name = "f", !.args = <<"xml">>]

MCFrames ==
  {Text(<<"a">>), Text(<<"b">>), Text(<<"L", "c">>), Text(<<"b", "a", "b">>),
   Think(<<"t">>), Sig(<<"s1">>), Sig(<<"s2">>), [Think(<<"t">>) EXCEPT !.sig = <<"s1">>],
   [Silence EXCEPT !.redacted = TRUE], [Sig(<<"s1">>) EXCEPT !.redacted = TRUE],
   [Think(<<"t">>) EXCEPT !.text = <<"a">>, !.calls = <<First>>],
   Call(First), Call(Rest), Call(Late), Call(Idless), Call(Wrapped), Call(Verbatim), Call(Leaked)}
=============================================================================
