-------------------------- MODULE StreamCodecProofs --------------------------
(***************************************************************************)
(* What holds of the decoder and of the stream encoders, for every list of *)
(* stop sequences, every set of frames and any number of them.             *)
(*                                                                         *)
(* The search for stop sequences in the decoder's text: for every list of  *)
(* stop sequences and every text, cut into deltas anywhere, what is held   *)
(* back is enough. The scan never looks again at what it has told, and     *)
(* still finds the first stop sequence of the whole text.                  *)
(*                                                                         *)
(* The events. That the encoders follow a view of the answer as long as    *)
(* each event is in place is proved in EncoderProofs. Here is the other    *)
(* half: each operation of the decoder, begun in a sound state (DecOK)     *)
(* that a view sees (Sees), tells events that are in place, and ends in a  *)
(* sound state that the view after them sees. Fine says both of a decoder  *)
(* in the middle of a step, CodecInv of the system between two steps.      *)
(*                                                                         *)
(* The text. Speaks(d, s) ties the decoder d to the record s of what       *)
(* upstream said of each text block. An operation leaves what was said     *)
(* alone (TextKept, Carries) or is told one piece more of one block        *)
(* (UttersAt), and a frame is one or the other (Listens). StopInv joins    *)
(* this and what a Messages client has read (ClientMatch) to CodecInv.     *)
(***************************************************************************)
EXTENDS EncoderProofs

-----------------------------------------------------------------------------
(* The search for stop sequences *)

(* The lengths of finitely many patterns are bounded.                      *)
LEMMA PatternsAreBounded ==
  \E b \in Nat : \A k \in DOMAIN Patterns : Len(Patterns[k]) <= b
<1> DEFINE Bounded(n) == \E b \in Nat : \A k \in 1 .. n : Len(Patterns[k]) <= b
           T == {n \in 0 .. Len(Patterns) : ~Bounded(n)}
<1>1. /\ Len(Patterns) \in Nat /\ DOMAIN Patterns = 1 .. Len(Patterns)
      /\ \A k \in 1 .. Len(Patterns) : Len(Patterns[k]) \in Nat
  BY PatternsAssumption
<1>2. Bounded(0)
  OBVIOUS
<1>3. ASSUME NEW n \in 1 .. Len(Patterns), Bounded(n - 1)
      PROVE  Bounded(n)
  <2>1. PICK b \in Nat : \A k \in 1 .. n - 1 : Len(Patterns[k]) <= b
    BY <1>3
  <2>2. PICK c \in Nat : b <= c /\ Len(Patterns[n]) <= c
    BY <1>1
  <2>3. \A k \in 1 .. n : Len(Patterns[k]) <= c
    BY <1>1, <2>1, <2>2
  <2> QED BY <2>3
<1>4. T = {}
  <2> SUFFICES ASSUME T # {} PROVE FALSE
    OBVIOUS
  <2>1. T \subseteq Nat
    OBVIOUS
  <2>2. PICK n \in T : \A m \in T : n <= m
    <3> HIDE DEF T
    <3> QED BY <2>1, LeastOfNaturals
  <2>3. n \in 1 .. Len(Patterns) /\ n - 1 \in 0 .. Len(Patterns)
    <3> HIDE DEF Bounded
    <3>1. n \in 0 .. Len(Patterns) /\ n # 0
      BY <1>2
    <3> QED BY <1>1, <3>1
  <2>4. n - 1 \notin T
    <3> HIDE DEF T
    <3> QED BY <2>1, <2>2, <2>3
  <2> HIDE DEF Bounded
  <2> QED BY <1>3, <2>3, <2>4
<1>5. Bounded(Len(Patterns))
  <2> HIDE DEF Bounded
  <2> QED BY <1>1, <1>4
<1> QED BY <1>1, <1>5

LEMMA LongestIsLongest ==
  Longest \in Nat /\ \A k \in DOMAIN Patterns : Len(Patterns[k]) <= Longest
<1> DEFINE Lengths == {Len(Patterns[k]) : k \in DOMAIN Patterns} \cup {0}
<1>1. \A k \in DOMAIN Patterns : Len(Patterns[k]) \in Nat
  BY PatternsAssumption
<1>2. Lengths \subseteq Nat /\ Lengths # {}
  BY <1>1
<1>3. PICK b \in Nat : \A y \in Lengths : y <= b
  BY PatternsAreBounded
<1>4. Max(Lengths) \in Lengths /\ \A y \in Lengths : y <= Max(Lengths)
  <2> HIDE DEF Lengths
  <2> QED BY <1>2, <1>3, MaxOfNaturals
<1> QED BY <1>2, <1>4 DEF Longest

(* A hit is seen in the longer text exactly if it was in the shorter one,  *)
(* where it ends before the shorter one does.                              *)
LEMMA OccursInPrefix ==
  ASSUME NEW S, NEW buf \in Seq(S), NEW delta \in Seq(S),
         NEW k \in DOMAIN Patterns, NEW i \in Nat, i + Len(Patterns[k]) <= Len(buf),
         Occurs(buf \o delta, Patterns[k], i)
  PROVE  Occurs(buf, Patterns[k], i)
<1>1. Len(Patterns[k]) \in Nat
  BY PatternsAssumption
<1>2. ASSUME NEW j \in 1 .. Len(Patterns[k]) PROVE buf[i + j] = Patterns[k][j]
  <2>1. i + j \in 1 .. Len(buf)
    BY <1>1
  <2>2. (buf \o delta)[i + j] = buf[i + j]
    BY <2>1
  <2> QED BY <2>2 DEF Occurs
<1> QED BY <1>2 DEF Occurs

(* The search that begins at the end of what was told (`sent` bytes) finds *)
(* all that a search of the whole text finds (scan_text_for_stops): what   *)
(* was told cannot hold the start of a stop sequence which the next delta  *)
(* completes, because one that long would have ended in the old text.      *)
THEOREM HoldbackIsEnough ==
  ASSUME NEW S, NEW buf \in Seq(S), NEW delta \in Seq(S), NEW mark \in 0 .. Len(buf),
         Hits(buf, 0) = {},
         mark = 0 \/ mark + (Longest - 1) <= Len(buf)
  PROVE  Hits(buf \o delta, mark) = Hits(buf \o delta, 0)
<1> DEFINE whole == buf \o delta
<1>1. Len(whole) \in Nat /\ Len(buf) \in Nat /\ Len(buf) <= Len(whole)
  OBVIOUS
<1>2. Hits(whole, mark) \subseteq Hits(whole, 0)
  BY <1>1 DEF Hits
<1>3. ASSUME NEW i \in Hits(whole, 0) PROVE i \in Hits(whole, mark)
  <2>1. PICK k \in DOMAIN Patterns : Occurs(whole, Patterns[k], i)
    BY DEF Hits
  <2>2. i \in 0 .. Len(whole)
    BY DEF Hits
  <2>3. CASE mark <= i
    <3>1. i \in mark .. Len(whole)
      BY <1>1, <2>2, <2>3
    <3> HIDE DEF whole
    <3> QED BY <2>1, <3>1 DEF Hits
  <2>4. CASE i < mark
    <3>1. Len(Patterns[k]) \in Nat /\ Len(Patterns[k]) <= Longest /\ Longest \in Nat
      BY PatternsAssumption, LongestIsLongest
    <3>2. i \in Nat /\ i + Len(Patterns[k]) <= Len(buf)
      BY <1>1, <2>2, <2>4, <3>1
    <3>3. Occurs(buf, Patterns[k], i)
      BY <2>1, <3>2, OccursInPrefix
    <3>4. i \in 0 .. Len(buf)
      BY <1>1, <3>1, <3>2
    <3>5. i \in Hits(buf, 0)
      BY <3>3, <3>4 DEF Hits
    <3> QED BY <3>5
  <2> QED BY <2>2, <2>3, <2>4
<1> QED BY <1>2, <1>3

-----------------------------------------------------------------------------
(* A decoder with an open text block, over bytes S.                        *)
TextIsOpen(d, S) ==
  /\ {"content", "text", "cut", "stopSequence", "out"} \subseteq DOMAIN d
  /\ d.text \in [at : Nat, buf : Seq(S), sent : Nat]
  /\ d.text.at # 0 /\ d.text.at \in DOMAIN d.content
  /\ "body" \in DOMAIN d.content[d.text.at]

(* What a scan leaves for the next one: the text has no stop sequence, and *)
(* one that begins in what was told would have ended in it.                *)
Withheld(text) ==
  /\ text.sent \in 0 .. Len(text.buf)
  /\ Hits(text.buf, 0) = {}
  /\ text.sent = 0 \/ text.sent + (Longest - 1) <= Len(text.buf)

(* Telling text moves the mark of what was told, and nothing else that the *)
(* scan reads.                                                             *)
LEMMA TellTextMoves ==
  ASSUME NEW S, NEW d, TextIsOpen(d, S), NEW upto \in Nat
  PROVE  /\ TextIsOpen(TellText(d, upto), S)
         /\ TellText(d, upto).content = d.content /\ TellText(d, upto).cut = d.cut
         /\ TellText(d, upto).text.at = d.text.at
         /\ TellText(d, upto).text.buf = d.text.buf
         /\ TellText(d, upto).text.sent = IF upto <= d.text.sent THEN d.text.sent ELSE upto
<1> DEFINE moved == [d EXCEPT !.text.sent = upto]
           told == TellText(d, upto)
<1>1. CASE upto <= d.text.sent
  BY <1>1 DEF TellText
<1>2. CASE ~(upto <= d.text.sent)
  <2> DEFINE delta == SubSeq(d.text.buf, d.text.sent + 1, upto)
             e == [Event("text_delta", d.text.at, moved.content[d.text.at])
                     EXCEPT !.delta = delta]
  <2>1. told = [moved EXCEPT !.out = Append(@, e)]
    BY <1>2 DEF TellText, TellDelta
  <2>2. /\ DOMAIN moved = DOMAIN d /\ moved.content = d.content /\ moved.cut = d.cut
        /\ moved.text = [d.text EXCEPT !.sent = upto]
    BY DEF TextIsOpen
  <2>3. /\ DOMAIN told = DOMAIN d /\ told.content = d.content /\ told.cut = d.cut
        /\ told.text = [d.text EXCEPT !.sent = upto]
    <3> HIDE DEF moved, e, told
    <3> QED BY <2>1, <2>2 DEF TextIsOpen
  <2>4. /\ told.text \in [at : Nat, buf : Seq(S), sent : Nat]
        /\ told.text.at = d.text.at /\ told.text.buf = d.text.buf
        /\ told.text.sent = upto
    <3> HIDE DEF told
    <3> QED BY <2>3 DEF TextIsOpen
  <2>5. TextIsOpen(told, S)
    <3> HIDE DEF told
    <3> QED BY <2>3, <2>4 DEF TextIsOpen
  <2>6. upto # d.text.sent /\ ~(upto <= d.text.sent)
    BY <1>2 DEF TextIsOpen
  <2> QED BY <2>3, <2>4, <2>5, <2>6
<1> QED BY <1>1, <1>2

(* What may be told now is within the text, and a stop sequence that       *)
(* begins in it ends within the text.                                      *)
LEMMA SafeLengthIsSafe ==
  ASSUME NEW S, NEW buf \in Seq(S), NEW from \in 0 .. Len(buf), Patterns # <<>>,
         from = 0 \/ from + (Longest - 1) <= Len(buf)
  PROVE  /\ SafeLength(buf, from) \in from .. Len(buf)
         /\ \/ SafeLength(buf, from) = 0
            \/ SafeLength(buf, from) + (Longest - 1) <= Len(buf)
<1> DEFINE last == Len(buf) - (Longest - 1)
           Ends == {from} \cup {i \in from .. last : IsBoundary(buf, i)}
<1>1. Longest \in Nat /\ Longest >= 1
  <2>1. 1 \in DOMAIN Patterns /\ Len(Patterns[1]) \in Nat \ {0}
    BY PatternsAssumption
  <2> QED BY <2>1, LongestIsLongest
<1>2. Len(buf) \in Nat /\ last \in Int /\ last <= Len(buf)
  BY <1>1
<1>3. Ends \subseteq Nat /\ Ends # {} /\ \A y \in Ends : y <= Len(buf)
  BY <1>2
<1>4. Max(Ends) \in Ends /\ \A y \in Ends : y <= Max(Ends)
  <2> HIDE DEF Ends
  <2> QED BY <1>2, <1>3, MaxOfNaturals
<1>5. SafeLength(buf, from) = Max(Ends)
  BY DEF SafeLength
<1>6. \A y \in Ends : y \in from .. Len(buf) /\ (y = from \/ y <= last)
  BY <1>2
<1>7. Max(Ends) \in from .. Len(buf) /\ (Max(Ends) = from \/ Max(Ends) <= last)
  <2> HIDE DEF Ends, last
  <2> QED BY <1>4, <1>6
<1> HIDE DEF Ends
<1> QED BY <1>1, <1>2, <1>5, <1>7

(* A scan that finds nothing tells what is safe and withholds the rest.    *)
LEMMA NothingFoundWithholds ==
  ASSUME NEW S, NEW d, TextIsOpen(d, S), Patterns # <<>>,
         d.text.sent \in 0 .. Len(d.text.buf), Hits(d.text.buf, 0) = {},
         d.text.sent = 0 \/ d.text.sent + (Longest - 1) <= Len(d.text.buf)
  PROVE  /\ TextIsOpen(TellText(d, SafeLength(d.text.buf, d.text.sent)), S)
         /\ Withheld(TellText(d, SafeLength(d.text.buf, d.text.sent)).text)
         /\ TellText(d, SafeLength(d.text.buf, d.text.sent)).text.buf = d.text.buf
         /\ TellText(d, SafeLength(d.text.buf, d.text.sent)).cut = d.cut
<1> DEFINE safe == SafeLength(d.text.buf, d.text.sent)
           told == TellText(d, safe)
<1>1. d.text.buf \in Seq(S) /\ Len(d.text.buf) \in Nat /\ d.text.sent \in Nat
  BY DEF TextIsOpen
<1>2. /\ safe \in d.text.sent .. Len(d.text.buf)
      /\ safe = 0 \/ safe + (Longest - 1) <= Len(d.text.buf)
  <2> HIDE DEF safe
  <2> QED BY <1>1, SafeLengthIsSafe DEF safe
<1>3. safe \in Nat
  BY <1>1, <1>2
<1>4. /\ TextIsOpen(told, S) /\ told.text.buf = d.text.buf /\ told.cut = d.cut
      /\ told.text.sent = IF safe <= d.text.sent THEN d.text.sent ELSE safe
  <2> HIDE DEF safe
  <2> QED BY <1>3, TellTextMoves
<1>5. told.text.sent = safe
  <2> HIDE DEF safe, told
  <2> QED BY <1>1, <1>2, <1>4
<1>6. Withheld(told.text)
  <2> HIDE DEF safe, told
  <2> QED BY <1>1, <1>2, <1>4, <1>5 DEF Withheld
<1> QED BY <1>4, <1>6

(* A cut ends the block with the text before the hit, and tells no byte of *)
(* what follows.                                                           *)
LEMMA CutKeepsBefore ==
  ASSUME NEW S, NEW d, TextIsOpen(d, S), NEW hit \in 0 .. Len(d.text.buf)
  PROVE  /\ CutText(d, hit).cut = TRUE
         /\ CutText(d, hit).content[d.text.at].body = SubSeq(d.text.buf, 1, hit)
<1> DEFINE told == TellText(d, hit)
           first == Min({k \in DOMAIN Patterns : Occurs(d.text.buf, Patterns[k], hit)})
           cut == [told EXCEPT !.stopSequence = Patterns[first], !.cut = TRUE,
                               !.text.buf = SubSeq(@, 1, hit)]
           before == SubSeq(d.text.buf, 1, hit)
<1>1. d.text.buf \in Seq(S) /\ hit \in Nat
  BY DEF TextIsOpen
<1>2. /\ TextIsOpen(told, S) /\ told.content = d.content
      /\ told.text.at = d.text.at /\ told.text.buf = d.text.buf
  BY <1>1, TellTextMoves
<1>3. before \in Seq(S) /\ Len(before) = hit
  BY <1>1
<1>4. /\ TextIsOpen(cut, S) /\ cut.cut = TRUE /\ cut.content = d.content
      /\ cut.text.at = d.text.at /\ cut.text.buf = before
  <2>1. /\ DOMAIN cut = DOMAIN told /\ cut.cut = TRUE /\ cut.content = told.content
        /\ cut.text = [told.text EXCEPT !.buf = before]
    <3> HIDE DEF told, first
    <3> QED BY <1>2 DEF TextIsOpen
  <2>2. /\ cut.text \in [at : Nat, buf : Seq(S), sent : Nat]
        /\ cut.text.at = d.text.at /\ cut.text.buf = before
    <3> HIDE DEF told, first, cut, before
    <3> QED BY <1>2, <1>3, <2>1 DEF TextIsOpen
  <2> HIDE DEF told, first, cut, before
  <2> QED BY <1>2, <2>1, <2>2 DEF TextIsOpen
<1> DEFINE last == TellText(cut, Len(cut.text.buf))
           shut == [last EXCEPT !.content[cut.text.at].body = cut.text.buf, !.text = NoText]
<1>5. TextIsOpen(last, S) /\ last.content = d.content /\ last.cut = TRUE
  <2> HIDE DEF cut, before
  <2>1. Len(cut.text.buf) \in Nat
    BY <1>3, <1>4
  <2> DEFINE all == Len(cut.text.buf)
  <2> HIDE DEF all
  <2>2. /\ TextIsOpen(TellText(cut, all), S) /\ TellText(cut, all).content = cut.content
        /\ TellText(cut, all).cut = cut.cut
    BY <1>4, <2>1, TellTextMoves, ZenonT(30) DEF all
  <2> QED BY <1>4, <2>2 DEF all
<1>6. CutText(d, hit) = Tell(shut, "text_end", cut.text.at)
  <2>1. CutText(d, hit) = EndText(cut)
    BY DEF CutText
  <2>2. cut.text.at # 0
    <3> HIDE DEF cut
    <3> QED BY <1>4 DEF TextIsOpen
  <2> HIDE DEF cut
  <2> QED BY <2>1, <2>2 DEF EndText
<1>7. /\ DOMAIN shut = DOMAIN last /\ shut.cut = TRUE
      /\ shut.content[d.text.at].body = before
  <2> HIDE DEF cut, last, before
  <2> QED BY <1>4, <1>5 DEF TextIsOpen
<1>8. /\ Tell(shut, "text_end", cut.text.at).cut = shut.cut
      /\ Tell(shut, "text_end", cut.text.at).content = shut.content
  <2> HIDE DEF shut, cut
  <2> QED BY <1>5, <1>7 DEF Tell, TextIsOpen
<1> HIDE DEF shut, cut, before
<1> QED BY <1>6, <1>7, <1>8 DEF before

(* A text block begins with nothing told and nothing withheld.             *)
THEOREM NewTextIsWithheld ==
  ASSUME NEW d, {"content", "text", "out"} \subseteq DOMAIN d, d.text = NoText
  PROVE  Withheld(OpenText(d).text)
<1>1. OpenText(d).text = [NoText EXCEPT !.at = Len(d.content) + 1]
  BY DEF OpenText, Tell, NoText
<1>2. OpenText(d).text.buf = <<>> /\ OpenText(d).text.sent = 0
  BY <1>1 DEF NoText
<1>3. Hits(<<>>, 0) = {}
  <2> SUFFICES ASSUME NEW i \in Hits(<<>>, 0) PROVE FALSE
    OBVIOUS
  <2>1. PICK k \in DOMAIN Patterns : Occurs(<<>>, Patterns[k], i)
    BY DEF Hits
  <2>2. Len(Patterns[k]) \in Nat \ {0}
    BY PatternsAssumption
  <2>3. i \in Nat /\ i + Len(Patterns[k]) <= 0
    BY <2>1 DEF Hits, Occurs
  <2> QED BY <2>2, <2>3
<1> QED BY <1>2, <1>3 DEF Withheld

(* A delta of an open text (decode_text, scan_text_for_stops). If the      *)
(* whole text has no stop sequence, the scan withholds enough for the next *)
(* one; if it has, the block ends with the text before the first of the    *)
(* whole text, though the scan looked only at what was not yet told.       *)
THEOREM FirstStopCuts ==
  ASSUME NEW S, NEW d, TextIsOpen(d, S), NEW delta \in Seq(S), Patterns # <<>>,
         Withheld(d.text)
  PROVE  LET whole == d.text.buf \o delta
             scanned == DecodeText(d, delta)
         IN  /\ Hits(whole, 0) = {} =>
                  /\ scanned.cut = d.cut /\ scanned.text.buf = whole
                  /\ TextIsOpen(scanned, S) /\ Withheld(scanned.text)
             /\ Hits(whole, 0) # {} =>
                  /\ scanned.cut = TRUE
                  /\ scanned.content[d.text.at].body = SubSeq(whole, 1, Min(Hits(whole, 0)))
                  /\ \A i \in Hits(whole, 0) : Min(Hits(whole, 0)) <= i
<1> DEFINE whole == d.text.buf \o delta
           grown == [d EXCEPT !.text.buf = @ \o delta]
<1>1. /\ d.text.buf \in Seq(S) /\ d.text.sent \in 0 .. Len(d.text.buf)
      /\ Hits(d.text.buf, 0) = {} /\ d.text.sent \in Nat
      /\ d.text.sent = 0 \/ d.text.sent + (Longest - 1) <= Len(d.text.buf)
  BY DEF TextIsOpen, Withheld
<1>2. /\ whole \in Seq(S) /\ Len(whole) = Len(d.text.buf) + Len(delta)
      /\ Len(d.text.buf) \in Nat /\ Len(delta) \in Nat /\ Len(whole) \in Nat
  BY <1>1
<1>3. /\ TextIsOpen(grown, S) /\ grown.cut = d.cut /\ grown.text.buf = whole
      /\ grown.text.at = d.text.at /\ grown.text.sent = d.text.sent
  <2>1. /\ DOMAIN grown = DOMAIN d /\ grown.content = d.content /\ grown.cut = d.cut
        /\ grown.text = [d.text EXCEPT !.buf = whole]
    BY DEF TextIsOpen
  <2>2. /\ grown.text \in [at : Nat, buf : Seq(S), sent : Nat] /\ grown.text.buf = whole
        /\ grown.text.at = d.text.at /\ grown.text.sent = d.text.sent
    <3> HIDE DEF grown, whole
    <3> QED BY <1>2, <2>1 DEF TextIsOpen
  <2> HIDE DEF grown, whole
  <2> QED BY <2>1, <2>2 DEF TextIsOpen
<1>4. Hits(whole, d.text.sent) = Hits(whole, 0)
  BY <1>1, HoldbackIsEnough
<1>5. ASSUME Hits(whole, 0) = {}
      PROVE  LET scanned == ScanTextForStops(grown)
             IN  /\ scanned.cut = d.cut /\ scanned.text.buf = whole
                 /\ TextIsOpen(scanned, S) /\ Withheld(scanned.text)
  <2>1. ScanTextForStops(grown) = TellText(grown, SafeLength(whole, d.text.sent))
    <3> HIDE DEF grown, whole
    <3> QED BY <1>3, <1>4, <1>5 DEF ScanTextForStops
  <2>2. Longest \in Nat
    BY LongestIsLongest
  <2>3. /\ d.text.sent \in 0 .. Len(whole)
        /\ d.text.sent = 0 \/ d.text.sent + (Longest - 1) <= Len(whole)
    <3> HIDE DEF whole
    <3> QED BY SMTT(30), <1>1, <1>2, <2>2
  <2> HIDE DEF grown, whole
  <2> QED BY <1>3, <1>5, <2>1, <2>3, NothingFoundWithholds
<1>6. ASSUME Hits(whole, 0) # {}
      PROVE  LET scanned == ScanTextForStops(grown)
             IN  /\ scanned.cut = TRUE
                 /\ scanned.content[d.text.at].body = SubSeq(whole, 1, Min(Hits(whole, 0)))
                 /\ \A i \in Hits(whole, 0) : Min(Hits(whole, 0)) <= i
  <2> DEFINE hit == Min(Hits(whole, 0))
  <2>1. ScanTextForStops(grown) = CutText(grown, hit)
    <3> HIDE DEF grown, whole
    <3> QED BY <1>3, <1>4, <1>6 DEF ScanTextForStops
  <2>2. Hits(whole, 0) \subseteq 0 .. Len(whole)
    BY DEF Hits
  <2>3. hit \in 0 .. Len(whole) /\ \A i \in Hits(whole, 0) : hit <= i
    <3> HIDE DEF whole
    <3>1. Hits(whole, 0) \subseteq Nat
      BY <2>2
    <3> QED BY <1>6, <2>2, <3>1, MinOfNaturals
  <2>4. CutText(grown, hit).cut = TRUE
        /\ CutText(grown, hit).content[d.text.at].body = SubSeq(whole, 1, hit)
    <3> HIDE DEF grown, whole, hit
    <3> QED BY <1>3, <2>3, CutKeepsBefore
  <2> QED BY <2>1, <2>3, <2>4
<1>7. DecodeText(d, delta) = ScanTextForStops(grown)
  BY DEF DecodeText, OpenText, TextIsOpen
<1> QED BY <1>5, <1>6, <1>7
-----------------------------------------------------------------------------
(* The decoder: its blocks, the text and the thinking it has open, and its *)
(* calls, each of which has a block of its own.                            *)

DecFields == {"content", "text", "think", "tools", "stop", "cut", "stopSequence", "finished", "out"}
CallFields == {"kind", "id", "name", "args", "custom"}
ToolFields == {"call", "at", "eventId", "args", "placeholder", "wrapped"}

BlockOK(block) ==
  /\ "kind" \in DOMAIN block /\ block.kind \in Kinds
  /\ block.kind = "text" => "body" \in DOMAIN block /\ block.body \in Seq(Bytes)
  /\ block.kind = "thinking" => /\ {"body", "sig", "redacted"} \subseteq DOMAIN block
                                /\ block.redacted \in BOOLEAN

ContentOK(content) ==
  IsSeq(content) /\ \A i \in 1..Len(content) : BlockOK(content[i])

TextOK(text, content) ==
  /\ {"at", "buf", "sent"} \subseteq DOMAIN text
  /\ text.at \in 0..Len(content)
  /\ text.at # 0 => content[text.at].kind = "text"
  /\ text.buf \in Seq(Bytes) /\ text.sent \in 0..Len(text.buf)
  /\ text.at = 0 => text.buf = <<>> /\ text.sent = 0

ThinkOK(think, content) ==
  /\ {"at", "body", "sig", "redacted"} \subseteq DOMAIN think
  /\ think.at \in 0..Len(content) /\ think.redacted \in BOOLEAN
  /\ think.at # 0 => content[think.at].kind = "thinking"

CallOK(call) ==
  /\ CallFields \subseteq DOMAIN call
  /\ call.kind = "tool" /\ call.id # <<>> /\ call.name # ""

ToolShape(tool) ==
  /\ ToolFields \subseteq DOMAIN tool
  /\ CallOK(tool.call) /\ tool.eventId # <<>>
  /\ tool.wrapped => tool.call.custom

ToolOK(tool, content) ==
  /\ ToolShape(tool)
  /\ tool.at \in 1..Len(content) /\ content[tool.at].kind = "tool"

ToolsOK(tools, content) ==
  /\ IsSeq(tools)
  /\ \A k \in 1..Len(tools) : ToolOK(tools[k], content)
  /\ \A j, k \in 1..Len(tools) : tools[j].at = tools[k].at => j = k
  /\ \A i \in 1..Len(content) :
       content[i].kind = "tool" => \E k \in 1..Len(tools) : tools[k].at = i

DecOK(d) ==
  /\ DecFields \subseteq DOMAIN d
  /\ ContentOK(d.content)
  /\ TextOK(d.text, d.content)
  /\ ThinkOK(d.think, d.content)
  /\ ToolsOK(d.tools, d.content)
  /\ d.finished = FALSE

(* What a view sees of a decoder.                                          *)
Told(d, i) ==
  IF i = d.text.at THEN SubSeq(d.text.buf, 1, d.text.sent) ELSE d.content[i].body

SeesText(v, d) ==
  \A i \in 1..Len(d.content) : d.content[i].kind = "text" => v.told[i] = Told(d, i)

Sees(v, d, shut) ==
  /\ v.over = FALSE /\ v.shut = shut /\ v.text = d.text.at /\ v.think = d.think.at
  /\ Len(v.kinds) = Len(d.content)
  /\ \A i \in 1..Len(d.content) : v.kinds[i] = d.content[i].kind
  /\ SeesText(v, d)

Fine(E, C, v, d, shut) ==
  /\ DecOK(d) /\ Orderly(v) /\ Sees(v, d, shut) /\ Matched(E, C, v, d.out)

LEMMA ContentFacts ==
  ASSUME NEW content, ContentOK(content)
  PROVE  /\ IsSeq(content) /\ Len(content) \in Nat /\ DOMAIN content = 1..Len(content)
         /\ \A i \in 1..Len(content) : BlockOK(content[i])
BY SeqFacts DEF ContentOK

(* Another block of the same kind in place of one.                         *)
Reshaped(c, content) ==
  /\ ContentOK(c) /\ Len(c) = Len(content)
  /\ \A i \in 1..Len(content) : c[i].kind = content[i].kind

LEMMA BlockReplaced ==
  ASSUME NEW content, ContentOK(content), NEW i \in 1..Len(content), NEW block,
         BlockOK(block), block.kind = content[i].kind
  PROVE  /\ Reshaped([content EXCEPT ![i] = block], content)
         /\ Replaced([content EXCEPT ![i] = block], content, i, block)
<1> DEFINE c == [content EXCEPT ![i] = block]
<1>1. Replaced(c, content, i, block)
  BY SeqExcept, ContentFacts
<1> HIDE DEF c
<1>2. Reshaped(c, content)
  BY <1>1, ContentFacts DEF Replaced, Reshaped, ContentOK
<1> QED BY <1>1, <1>2 DEF c

LEMMA ReshapedKeeps ==
  ASSUME NEW content, ContentOK(content), NEW c, Reshaped(c, content)
  PROVE  /\ \A text : TextOK(text, content) => TextOK(text, c)
         /\ \A think : ThinkOK(think, content) => ThinkOK(think, c)
         /\ \A tools : ToolsOK(tools, content) => ToolsOK(tools, c)
<1>1. Len(content) \in Nat /\ Len(c) = Len(content)
  BY ContentFacts DEF Reshaped
<1>2. \A text : TextOK(text, content) => TextOK(text, c)
  BY <1>1 DEF TextOK, Reshaped
<1>3. \A think : ThinkOK(think, content) => ThinkOK(think, c)
  BY <1>1 DEF ThinkOK, Reshaped
<1>4. \A tool : ToolOK(tool, content) => ToolOK(tool, c)
  BY <1>1 DEF ToolOK, Reshaped
<1>5. \A tools : ToolsOK(tools, content) => ToolsOK(tools, c)
  BY <1>1, <1>4 DEF ToolsOK, Reshaped
<1> QED BY <1>2, <1>3, <1>5

(* A block more.                                                           *)
LEMMA BlockAdded ==
  ASSUME NEW content, ContentOK(content), NEW block, BlockOK(block)
  PROVE  /\ ContentOK(Append(content, block))
         /\ Len(Append(content, block)) = Len(content) + 1
         /\ Append(content, block)[Len(content) + 1] = block
         /\ \A i \in 1..Len(content) : Append(content, block)[i] = content[i]
<1> DEFINE c == Append(content, block)
<1>1. /\ IsSeq(c) /\ Len(c) = Len(content) + 1 /\ c[Len(content) + 1] = block
      /\ \A i \in 1..Len(content) : c[i] = content[i]
  BY SeqAppend, ContentFacts
<1> HIDE DEF c
<1>2. ContentOK(c)
  <2>1. \A i \in 1..Len(c) : i \in 1..Len(content) \/ i = Len(content) + 1
    BY <1>1, ContentFacts
  <2> QED BY <1>1, <2>1, ContentFacts DEF ContentOK
<1> QED BY <1>1, <1>2 DEF c

LEMMA AddedKeeps ==
  ASSUME NEW content, ContentOK(content), NEW block, BlockOK(block)
  PROVE  /\ \A text : TextOK(text, content) => TextOK(text, Append(content, block))
         /\ \A think : ThinkOK(think, content) => ThinkOK(think, Append(content, block))
         /\ \A tool : ToolOK(tool, content) => ToolOK(tool, Append(content, block))
         /\ block.kind # "tool" =>
              \A tools : ToolsOK(tools, content) => ToolsOK(tools, Append(content, block))
<1> DEFINE c == Append(content, block)
<1>1. /\ Len(c) = Len(content) + 1 /\ Len(content) \in Nat /\ c[Len(content) + 1] = block
      /\ \A i \in 1..Len(content) : c[i] = content[i]
  BY BlockAdded, ContentFacts
<1> HIDE DEF c
<1>2. \A text : TextOK(text, content) => TextOK(text, c)
  BY <1>1 DEF TextOK
<1>3. \A think : ThinkOK(think, content) => ThinkOK(think, c)
  BY <1>1 DEF ThinkOK
<1>4. \A tool : ToolOK(tool, content) => ToolOK(tool, c)
  BY <1>1 DEF ToolOK
<1>5. ASSUME block.kind # "tool", NEW tools, ToolsOK(tools, content) PROVE ToolsOK(tools, c)
  <2>1. \A i \in 1..Len(c) : c[i].kind = "tool" => i \in 1..Len(content) /\ content[i].kind = "tool"
    BY <1>1, <1>5
  <2> QED BY <1>4, <1>5, <2>1 DEF ToolsOK
<1> QED BY <1>2, <1>3, <1>4, <1>5 DEF c

(* An event that changes no block and no call: the decoder stays as it is. *)
LEMMA FineTells ==
  ASSUME NEW E, NEW C, NEW v, NEW d, NEW shut, Fine(E, C, v, d, shut),
         NEW ev, InPlace(v, ev), ValidEvent(ev),
         NEW f, DecOK(f), f.out = Append(d.out, ev), NEW done, Sees(After(v, ev), f, done)
  PROVE  Fine(E, C, After(v, ev), f, done)
<1>1. Matched(E, C, After(v, ev), Append(d.out, ev)) /\ Orderly(After(v, ev))
  BY Telling DEF Fine
<1> QED BY <1>1 DEF Fine

LEMMA EventIs ==
  ASSUME NEW kind, NEW i, NEW block
  PROVE  /\ Event(kind, i, block).kind = kind /\ Event(kind, i, block).index = i
         /\ Event(kind, i, block).block = block
         /\ DOMAIN Event(kind, i, block) =
              {"kind", "index", "block", "delta", "id", "reason", "message"}
BY DEF Event

LEMMA SliceIs ==
  ASSUME NEW S, NEW s \in Seq(S), NEW m \in 0..Len(s), NEW n \in m..Len(s)
  PROVE  /\ SubSeq(s, m + 1, n) \in Seq(S) /\ Len(SubSeq(s, m + 1, n)) = n - m
         /\ m < n => SubSeq(s, m + 1, n) # <<>>
OBVIOUS

-----------------------------------------------------------------------------
(* What leaves the text alone: the text blocks and which of them is open.  *)

Texts(d) == {i \in 1..Len(d.content) : d.content[i].kind = "text"}
Opened(out) == {ev \in Range(out) : ev.kind = "text_start"}

Beside(f, d) ==
  /\ f.text = d.text /\ f.cut = d.cut /\ f.stopSequence = d.stopSequence
  /\ Opened(f.out) = Opened(d.out)

TextKept(f, d) ==
  /\ Beside(f, d) /\ Texts(f) = Texts(d)
  /\ \A i \in Texts(d) : f.content[i] = d.content[i]

LEMMA KeptItself == \A d : TextKept(d, d)
BY DEF TextKept, Beside

LEMMA KeptTwice ==
  ASSUME NEW d, NEW g, NEW f, TextKept(g, d), TextKept(f, g)
  PROVE  TextKept(f, d)
BY DEF TextKept, Beside

LEMMA OpenedGrows ==
  ASSUME NEW out, IsSeq(out), NEW ev
  PROVE  /\ ev.kind # "text_start" => Opened(Append(out, ev)) = Opened(out)
         /\ ev.kind = "text_start" => Opened(Append(out, ev)) = Opened(out) \cup {ev}
<1> DEFINE longer == Append(out, ev)
           m == Len(out)
<1>1. /\ m \in Nat /\ DOMAIN out = 1..m /\ DOMAIN longer = 1..(m + 1) /\ longer[m + 1] = ev
      /\ \A i \in 1..m : longer[i] = out[i]
  BY SeqAppend, SeqFacts
<1> HIDE DEF longer
<1>2. Range(longer) = Range(out) \cup {ev}
  <2>1. ASSUME NEW x \in Range(longer) PROVE x \in Range(out) \cup {ev}
    <3>1. PICK i \in 1..(m + 1) : x = longer[i]
      BY <1>1 DEF Range
    <3>2. i = m + 1 \/ i \in 1..m
      BY <1>1
    <3> QED BY <1>1, <3>1, <3>2 DEF Range
  <2>2. ASSUME NEW x \in Range(out) PROVE x \in Range(longer)
    <3>1. PICK i \in 1..m : x = out[i]
      BY <1>1 DEF Range
    <3>2. i \in 1..(m + 1) /\ x = longer[i]
      BY <1>1, <3>1
    <3> QED BY <1>1, <3>2 DEF Range
  <2>3. ev \in Range(longer)
    <3>1. m + 1 \in 1..(m + 1)
      BY <1>1
    <3> QED BY <1>1, <3>1 DEF Range
  <2> QED BY <2>1, <2>2, <2>3
<1> QED BY <1>2 DEF Opened, longer

LEMMA ReshapedKept ==
  ASSUME NEW d, NEW f, Beside(f, d), Reshaped(f.content, d.content),
         \A n \in 1..Len(d.content) : d.content[n].kind = "text" => f.content[n] = d.content[n]
  PROVE  TextKept(f, d)
<1>1. Texts(f) = Texts(d)
  BY DEF Reshaped, Texts
<1>2. \A i \in Texts(d) : f.content[i] = d.content[i]
  BY DEF Texts
<1> QED BY <1>1, <1>2 DEF TextKept

LEMMA AddedKept ==
  ASSUME NEW d, ContentOK(d.content), NEW block, BlockOK(block), block.kind # "text",
         NEW f, Beside(f, d), f.content = Append(d.content, block)
  PROVE  TextKept(f, d)
<1> DEFINE n == Len(d.content)
           c == f.content
<1>1. /\ n \in Nat /\ Len(c) = n + 1 /\ c[n + 1] = block /\ \A i \in 1..n : c[i] = d.content[i]
  BY BlockAdded, ContentFacts
<1> HIDE DEF c
<1>2. \A i \in 1..(n + 1) : i = n + 1 \/ i \in 1..n
  BY <1>1
<1>3. \A i \in 1..n : i \in 1..(n + 1)
  BY <1>1
<1>4. Texts(f) = Texts(d)
  BY <1>1, <1>2, <1>3 DEF Texts, c
<1>5. \A i \in Texts(d) : c[i] = d.content[i]
  BY <1>1 DEF Texts
<1> QED BY <1>4, <1>5 DEF TextKept, c

(* What upstream said of a text block, in `said`. Of the open one it is    *)
(* the text so far: what is told of it ends between two characters, and no *)
(* later such place could be told now. Of a closed one it is the text, or, *)
(* of the one that was cut, the text and the stop sequence and whatever    *)
(* followed.                                                               *)
IsLast(d, i) == \A j \in Texts(d) : j <= i

Settling(text) ==
  /\ Withheld(text) /\ IsBoundary(text.buf, text.sent)
  /\ \A j \in (text.sent + 1)..Len(text.buf) :
       IsBoundary(text.buf, j) => j > Len(text.buf) - (Longest - 1)

ClosedSays(d, i, said) ==
  LET body == d.content[i].body
  IN  /\ Hits(body, 0) = {} /\ IsBoundary(said, Len(body))
      /\ ~(d.cut /\ IsLast(d, i)) => said = body
      /\ d.cut /\ IsLast(d, i) => IsSeq(d.stopSequence) /\ IsPrefix(body \o d.stopSequence, said)

Says(d, i, said) ==
  /\ i = d.text.at => said = d.text.buf /\ Settling(d.text)
  /\ i # d.text.at => ClosedSays(d, i, said)

Speaks(d, s) ==
  /\ d.cut \in BOOLEAN
  /\ d.cut => d.text.at = 0
  /\ d.text.at # 0 => IsLast(d, d.text.at)
  /\ \A i \in Texts(d) : Says(d, i, s[i])

LEMMA KeptSpeaks ==
  ASSUME NEW d, NEW f, TextKept(f, d), NEW s, Speaks(d, s)
  PROVE  Speaks(f, s)
<1>1. /\ f.text = d.text /\ f.cut = d.cut /\ f.stopSequence = d.stopSequence
      /\ Texts(f) = Texts(d) /\ \A i \in Texts(d) : f.content[i] = d.content[i]
  BY DEF TextKept, Beside
<1>2. \A i : IsLast(f, i) = IsLast(d, i)
  BY <1>1 DEF IsLast
<1>3. \A i \in Texts(d) : Says(f, i, s[i])
  <2> TAKE i \in Texts(d)
  <2>1. Says(d, i, s[i])
    BY DEF Speaks
  <2> DEFINE said == s[i]
             last == IsLast(d, i)
  <2> HIDE DEF said, last
  <2>2. f.content[i] = d.content[i] /\ IsLast(f, i) = last
    BY <1>1, <1>2 DEF last
  <2>3. ClosedSays(d, i, said) => ClosedSays(f, i, said)
    BY <1>1, <2>2 DEF ClosedSays, last
  <2>4. Says(f, i, said)
    BY <1>1, <2>1, <2>3 DEF Says, said
  <2> QED BY <2>4 DEF said
<1> QED BY <1>1, <1>2, <1>3 DEF Speaks
(* What is told of the open text.                                          *)
TextTold(f, d, upto) ==
  /\ DOMAIN f = DOMAIN d /\ f.content = d.content /\ f.think = d.think /\ f.tools = d.tools
  /\ f.stop = d.stop /\ f.cut = d.cut /\ f.stopSequence = d.stopSequence
  /\ f.finished = d.finished
  /\ DOMAIN f.text = DOMAIN d.text /\ f.text.at = d.text.at /\ f.text.buf = d.text.buf
  /\ f.text.sent = IF upto <= d.text.sent THEN d.text.sent ELSE upto
  /\ Opened(f.out) = Opened(d.out)

LEMMA TellTextFine ==
  ASSUME NEW E, NEW C, NEW v, NEW d, Fine(E, C, v, d, {}), d.text.at # 0,
         NEW upto \in 0..Len(d.text.buf)
  PROVE  /\ TextTold(TellText(d, upto), d, upto)
         /\ \E w : Fine(E, C, w, TellText(d, upto), {})
<1> DEFINE f == TellText(d, upto)
           i == d.text.at
           delta == SubSeq(d.text.buf, d.text.sent + 1, upto)
           ev == [Event("text_delta", i, d.content[i]) EXCEPT !.delta = delta]
           w == After(v, ev)
<1>1. /\ DecOK(d) /\ Orderly(v) /\ Sees(v, d, {}) /\ Matched(E, C, v, d.out)
      /\ DecFields \subseteq DOMAIN d
      /\ TextOK(d.text, d.content) /\ ContentOK(d.content)
  BY DEF Fine, DecOK
<1>2. /\ Len(d.content) \in Nat /\ i \in 1..Len(d.content) /\ d.content[i].kind = "text"
      /\ d.text.buf \in Seq(Bytes) /\ Len(d.text.buf) \in Nat
      /\ d.text.sent \in 0..Len(d.text.buf)
      /\ {"at", "buf", "sent"} \subseteq DOMAIN d.text
  <2>1. Len(d.content) \in Nat
    BY <1>1, ContentFacts
  <2> QED BY <1>1, <2>1 DEF TextOK
<1>3. CASE upto <= d.text.sent
  <2>1. f = d
    BY <1>3 DEF TellText
  <2>2. TextTold(d, d, upto)
    BY <1>3 DEF TextTold
  <2> QED BY <2>1, <2>2
<1>4. CASE ~(upto <= d.text.sent)
  <2>1. d.text.sent \in 0..upto /\ upto \in 0..Len(d.text.buf) /\ d.text.sent < upto
    BY <1>2, <1>4
  <2>2. /\ delta \in Seq(Bytes) /\ Len(delta) = upto - d.text.sent /\ delta # <<>>
    <3> DEFINE buf == d.text.buf
               m == d.text.sent
    <3>1. buf \in Seq(Bytes) /\ m \in 0..Len(buf) /\ upto \in m..Len(buf) /\ m < upto
      BY <1>2, <2>1
    <3> HIDE DEF buf, m
    <3>2. /\ SubSeq(buf, m + 1, upto) \in Seq(Bytes) /\ Len(SubSeq(buf, m + 1, upto)) = upto - m
          /\ SubSeq(buf, m + 1, upto) # <<>>
      BY <3>1, SliceIs
    <3> QED BY <3>2 DEF buf, m
  <2>3. SubSeq(d.text.buf, 1, d.text.sent) \o delta = SubSeq(d.text.buf, 1, upto)
    <3>1. upto \in d.text.sent..Len(d.text.buf)
      BY <1>2, <2>1
    <3> QED BY <1>2, <3>1, BeginningGrows
  <2> HIDE DEF delta
  <2>4. ev.kind = "text_delta" /\ ev.index = i /\ ev.delta = delta
    BY EventIs
  <2>5. /\ DOMAIN f = DOMAIN d /\ f.content = d.content /\ f.think = d.think
        /\ f.tools = d.tools /\ f.stop = d.stop /\ f.cut = d.cut
        /\ f.stopSequence = d.stopSequence /\ f.finished = d.finished
        /\ DOMAIN f.text = DOMAIN d.text /\ f.text.at = d.text.at /\ f.text.buf = d.text.buf
        /\ f.text.sent = upto /\ f.out = Append(d.out, ev)
    BY <1>1, <1>2, <1>4 DEF TellText, TellDelta, DecFields, delta
  <2> HIDE DEF f, ev
  <2>6. InPlace(v, ev) /\ ValidEvent(ev)
    <3>1. v.over = FALSE /\ v.text = i
      BY <1>1 DEF Sees
    <3> QED BY <1>2, <2>2, <2>4, <3>1 DEF InPlace, ValidEvent, EventKinds, Starts
  <2>7. /\ w.kinds = v.kinds /\ w.told = [v.told EXCEPT ![i] = @ \o delta]
        /\ w.text = v.text /\ w.think = v.think /\ w.shut = v.shut /\ w.over = v.over
    <3>1. Orderly(v) /\ ev.kind = "text_delta"
      BY <1>1, <2>4
    <3>2. /\ w.kinds = v.kinds /\ w.told = [v.told EXCEPT ![ev.index] = @ \o ev.delta]
          /\ w.text = v.text /\ w.think = v.think /\ w.shut = v.shut /\ w.over = v.over
      BY <3>1, AfterTextDelta
    <3> HIDE DEF w
    <3> QED BY <2>4, <3>2
  <2>8. DecOK(f)
    <3>1. TextOK(f.text, d.content)
      BY <1>1, <2>1, <2>5 DEF TextOK
    <3> QED BY <1>1, <2>5, <3>1 DEF DecOK
  <2> HIDE DEF w
  <2>9. Sees(w, f, {})
    <3>1. SeesText(w, f)
      <4> SUFFICES ASSUME NEW n \in 1..Len(d.content), d.content[n].kind = "text"
                   PROVE  w.told[n] = Told(f, n)
        BY <2>5 DEF SeesText
      <4>1. v.told[n] = Told(d, n) /\ DOMAIN v.told = 1..Len(d.content)
        BY <1>1, OrderlyFacts DEF Sees, SeesText
      <4>2. CASE n = i
        <5>1. v.told[n] = SubSeq(d.text.buf, 1, d.text.sent)
          BY <4>1, <4>2 DEF Told
        <5>2. w.told[n] = v.told[n] \o delta
          BY <2>7, <4>1, <4>2
        <5>3. Told(f, n) = SubSeq(d.text.buf, 1, upto)
          BY <2>5, <4>2 DEF Told
        <5> QED BY <2>3, <5>1, <5>2, <5>3
      <4>3. CASE n # i
        <5>1. w.told[n] = v.told[n]
          BY <2>7, <4>3
        <5>2. Told(f, n) = Told(d, n)
          BY <2>5, <4>3 DEF Told
        <5> QED BY <4>1, <5>1, <5>2
      <4> QED BY <4>2, <4>3
    <3> QED BY <1>1, <2>5, <2>7, <3>1 DEF Sees
  <2>10. Fine(E, C, w, f, {})
    BY <2>5, <2>6, <2>8, <2>9, FineTells DEF w
  <2>11. TextTold(f, d, upto)
    <3>1. IsSeq(d.out)
      BY <1>1 DEF Matched
    <3>2. Opened(f.out) = Opened(d.out)
      BY <2>4, <2>5, <3>1, OpenedGrows
    <3> QED BY <1>4, <2>5, <3>2 DEF TextTold
  <2> QED BY <2>10, <2>11 DEF f
<1> QED BY <1>3, <1>4

(* The open text closes, told in full.                                     *)
TextEnded(f, d) ==
  /\ DOMAIN f = DOMAIN d /\ f.think = d.think /\ f.tools = d.tools /\ f.stop = d.stop
  /\ f.cut = d.cut /\ f.stopSequence = d.stopSequence /\ f.finished = d.finished
  /\ f.text.at = 0 /\ Reshaped(f.content, d.content)
  /\ \A n \in 1..Len(d.content) : n # d.text.at => f.content[n] = d.content[n]
  /\ d.text.at # 0 => f.content[d.text.at].body = d.text.buf
  /\ Opened(f.out) = Opened(d.out)

LEMMA NoTextIs ==
  /\ DOMAIN NoText = {"at", "buf", "sent"} /\ NoText.at = 0 /\ NoText.buf = <<>>
  /\ NoText.sent = 0
BY DEF NoText

LEMMA EndToldText ==
  ASSUME NEW E, NEW C, NEW v, NEW d, Fine(E, C, v, d, {}), d.text.at # 0,
         d.text.sent = Len(d.text.buf), NEW f,
         f = Tell([d EXCEPT !.content[d.text.at].body = d.text.buf, !.text = NoText],
                  "text_end", d.text.at)
  PROVE  TextEnded(f, d) /\ \E w : Fine(E, C, w, f, {})
<1> DEFINE i == d.text.at
           block == [d.content[i] EXCEPT !.body = d.text.buf]
           c == [d.content EXCEPT ![i] = block]
           ev == Event("text_end", i, c[i])
           w == After(v, ev)
<1>1. /\ DecOK(d) /\ Orderly(v) /\ Sees(v, d, {}) /\ Matched(E, C, v, d.out)
      /\ DecFields \subseteq DOMAIN d
      /\ TextOK(d.text, d.content) /\ ContentOK(d.content)
      /\ ThinkOK(d.think, d.content) /\ ToolsOK(d.tools, d.content)
  BY DEF Fine, DecOK
<1>2. /\ Len(d.content) \in Nat /\ i \in 1..Len(d.content) /\ d.content[i].kind = "text"
      /\ DOMAIN d.content = 1..Len(d.content)
      /\ BlockOK(d.content[i]) /\ d.text.buf \in Seq(Bytes)
  <2>1. Len(d.content) \in Nat
    BY <1>1, ContentFacts
  <2>2. i \in 1..Len(d.content) /\ d.content[i].kind = "text" /\ d.text.buf \in Seq(Bytes)
    BY <1>1, <2>1 DEF TextOK
  <2> QED BY <1>1, <2>1, <2>2, ContentFacts
<1>3. BlockOK(block) /\ block.kind = d.content[i].kind /\ block.body = d.text.buf
  BY <1>2 DEF BlockOK
<1>4. f = Tell([d EXCEPT !.content = c, !.text = NoText], "text_end", i)
  BY <1>1, <1>2 DEF DecFields
<1> HIDE DEF block
<1>5. Reshaped(c, d.content) /\ Replaced(c, d.content, i, block)
  BY <1>1, <1>2, <1>3, BlockReplaced
<1> HIDE DEF c
<1>6. /\ DOMAIN f = DOMAIN d /\ f.content = c /\ f.text = NoText /\ f.think = d.think
      /\ f.tools = d.tools /\ f.stop = d.stop /\ f.cut = d.cut
      /\ f.stopSequence = d.stopSequence /\ f.finished = d.finished
      /\ f.out = Append(d.out, ev)
  BY <1>1, <1>4 DEF Tell, DecFields
<1>7. ev.kind = "text_end" /\ ev.index = i
  BY EventIs
<1> HIDE DEF ev, i
<1>8. c[i].body = d.text.buf /\ \A n \in 1..Len(d.content) : n # i => c[n] = d.content[n]
  BY SMTT(30), <1>2, <1>3, <1>5 DEF Replaced
<1>9. TextEnded(f, d)
  <2>1. f.text.at = 0
    BY SMTT(30), <1>6, NoTextIs
  <2>2. Reshaped(f.content, d.content)
    BY SMTT(30), <1>5, <1>6
  <2>3. \A n \in 1..Len(d.content) : n # i => f.content[n] = d.content[n]
    BY SMTT(30), <1>6, <1>8
  <2>4. f.content[i].body = d.text.buf
    BY <1>6, <1>8
  <2>5. IsSeq(d.out)
    BY <1>1 DEF Matched
  <2>6. Opened(f.out) = Opened(d.out)
    <3>1. ev.kind # "text_start" /\ f.out = Append(d.out, ev)
      BY <1>6, <1>7
    <3> HIDE DEF c
    <3>2. Opened(Append(d.out, ev)) = Opened(d.out)
      BY <2>5, <3>1, OpenedGrows
    <3> QED BY <3>1, <3>2
  <2> QED BY <1>6, <2>1, <2>2, <2>3, <2>4, <2>6 DEF TextEnded, i
<1>10. InPlace(v, ev) /\ ValidEvent(ev)
  <2>1. v.over = FALSE /\ v.text = i /\ i # 0
    BY <1>1 DEF Sees, i
  <2> QED BY <1>7, <2>1 DEF InPlace, ValidEvent, EventKinds, Starts
<1>11. /\ w.kinds = v.kinds /\ w.told = v.told /\ w.text = 0 /\ w.think = v.think
       /\ w.shut = v.shut /\ w.over = v.over
  <2>1. Orderly(v) /\ ev.kind = "text_end"
    BY <1>1, <1>7
  <2>2. /\ w.kinds = v.kinds /\ w.told = v.told /\ w.shut = v.shut /\ w.over = v.over
        /\ w.text = 0 /\ w.think = v.think
    BY SMTT(30), <2>1, AfterTextEnd
  <2> QED BY <2>2
<1>12. DecOK(f)
  <2>1. ThinkOK(d.think, c) /\ ToolsOK(d.tools, c) /\ ContentOK(c)
    BY <1>1, <1>5, ReshapedKeeps DEF Reshaped
  <2>2. TextOK(NoText, c)
    <3>1. Len(c) \in Nat /\ <<>> \in Seq(Bytes) /\ Len(<<>>) = 0
      BY SMTT(30), <1>2, <1>5 DEF Reshaped
    <3> QED BY <3>1 DEF TextOK, NoText
  <2> QED BY <1>1, <1>6, <2>1, <2>2 DEF DecOK
<1> HIDE DEF w
<1>13. Sees(w, f, {})
  <2>1. SeesText(w, f)
    <3> SUFFICES ASSUME NEW n \in 1..Len(d.content), c[n].kind = "text"
                 PROVE  w.told[n] = Told(f, n)
      BY <1>5, <1>6 DEF SeesText, Reshaped
    <3>1. d.content[n].kind = "text" /\ n # 0
      BY <1>2, <1>5 DEF Reshaped
    <3>2. v.told[n] = Told(d, n)
      BY <1>1, <3>1 DEF Sees, SeesText
    <3>3. Told(f, n) = c[n].body
      BY <1>6, <3>1 DEF Told, NoText
    <3>4. CASE n = i
      <4>1. v.told[n] = SubSeq(d.text.buf, 1, Len(d.text.buf))
        BY <3>2, <3>4 DEF Told, i
      <4>2. SubSeq(d.text.buf, 1, Len(d.text.buf)) = d.text.buf
        BY <1>2
      <4> QED BY <1>8, <1>11, <3>3, <3>4, <4>1, <4>2
    <3>5. CASE n # i
      <4>1. Told(d, n) = d.content[n].body
        BY SMTT(30), <3>5 DEF Told, i
      <4> QED BY <1>8, <1>11, <3>2, <3>3, <3>5, <4>1
    <3> QED BY <3>4, <3>5
  <2>2. f.text.at = 0
    BY <1>6, NoTextIs
  <2>3. /\ v.over = FALSE /\ v.shut = {} /\ v.think = d.think.at /\ Len(v.kinds) = Len(d.content)
        /\ \A n \in 1..Len(d.content) : v.kinds[n] = d.content[n].kind
    BY <1>1 DEF Sees
  <2>4. Len(c) = Len(d.content) /\ \A n \in 1..Len(d.content) : c[n].kind = d.content[n].kind
    BY SMTT(30), <1>5 DEF Reshaped
  <2> QED BY ZenonT(60), <1>6, <1>11, <2>1, <2>2, <2>3, <2>4 DEF Sees
<1>14. Fine(E, C, w, f, {})
  BY <1>6, <1>10, <1>12, <1>13, FineTells DEF w
<1> QED BY <1>9, <1>14

LEMMA ReshapedItself ==
  ASSUME NEW content, ContentOK(content)
  PROVE  Reshaped(content, content)
BY DEF Reshaped

LEMMA EndTextFine ==
  ASSUME NEW E, NEW C, NEW v, NEW d, Fine(E, C, v, d, {})
  PROVE  /\ TextEnded(EndText(d), d)
         /\ \E w : Fine(E, C, w, EndText(d), {})
<1>1. /\ TextOK(d.text, d.content) /\ ContentOK(d.content)
  BY DEF Fine, DecOK
<1>2. CASE d.text.at = 0
  <2>1. EndText(d) = d
    BY <1>2 DEF EndText
  <2>2. TextEnded(d, d)
    BY <1>1, <1>2, ReshapedItself DEF TextEnded
  <2> QED BY <2>1, <2>2
<1>3. CASE d.text.at # 0
  <2> DEFINE told == TellText(d, Len(d.text.buf))
  <2>1. d.text.sent \in 0..Len(d.text.buf) /\ Len(d.text.buf) \in 0..Len(d.text.buf)
        /\ d.text.at \in 1..Len(d.content) /\ d.text.sent \in Nat /\ Len(d.text.buf) \in Nat
    <3>1. Len(d.text.buf) \in Nat /\ Len(d.content) \in Nat
      BY <1>1, ContentFacts DEF TextOK
    <3> QED BY <1>1, <1>3, <3>1 DEF TextOK
  <2>2. TextTold(told, d, Len(d.text.buf)) /\ \E w : Fine(E, C, w, told, {})
    BY <1>3, <2>1, TellTextFine
  <2>3. EndText(d) = Tell([told EXCEPT !.content[d.text.at].body = d.text.buf, !.text = NoText],
                          "text_end", d.text.at)
    BY <1>3 DEF EndText
  <2> HIDE DEF told
  <2>4. PICK w : Fine(E, C, w, told, {})
    BY <2>2
  <2>5. /\ told.text.at = d.text.at /\ told.text.buf = d.text.buf
        /\ told.text.sent = Len(told.text.buf) /\ told.content = d.content
    BY <2>1, <2>2 DEF TextTold
  <2> DEFINE f == EndText(d)
  <2>6. f = Tell([told EXCEPT !.content[told.text.at].body = told.text.buf, !.text = NoText],
                 "text_end", told.text.at)
    BY <2>3, <2>5
  <2> HIDE DEF f
  <2>7. TextEnded(f, told) /\ \E x : Fine(E, C, x, f, {})
    BY <1>3, <2>4, <2>5, <2>6, EndToldText
  <2>8. TextEnded(f, d)
    BY <2>2, <2>5, <2>7 DEF TextEnded, TextTold
  <2> QED BY <2>7, <2>8 DEF f
<1> QED BY <1>2, <1>3

(* The open thinking closes.                                               *)
ThinkingEnded(f, d) ==
  /\ DOMAIN f = DOMAIN d /\ f.text = d.text /\ f.tools = d.tools /\ f.stop = d.stop
  /\ f.cut = d.cut /\ f.stopSequence = d.stopSequence /\ f.finished = d.finished
  /\ f.think.at = 0 /\ Reshaped(f.content, d.content) /\ TextKept(f, d)
  /\ \A n \in 1..Len(d.content) : n # d.think.at => f.content[n] = d.content[n]

LEMMA ThinkingCloses ==
  ASSUME NEW E, NEW C, NEW v, NEW d, Fine(E, C, v, d, {}), d.think.at # 0,
         NEW f, DOMAIN f = DOMAIN d, f.text = d.text, f.tools = d.tools,
         f.finished = d.finished, ThinkOK(f.think, d.content), f.think.at = 0,
         Reshaped(f.content, d.content),
         \A n \in 1..Len(d.content) : n # d.think.at => f.content[n] = d.content[n],
         NEW ev, f.out = Append(d.out, ev), ev.kind = "thinking_end", ev.index = d.think.at,
         ev.block.redacted \in BOOLEAN
  PROVE  \E w : Fine(E, C, w, f, {})
<1> DEFINE i == d.think.at
           c == f.content
           w == After(v, ev)
<1>1. /\ DecOK(d) /\ Orderly(v) /\ Sees(v, d, {}) /\ Matched(E, C, v, d.out)
      /\ DecFields \subseteq DOMAIN d
      /\ TextOK(d.text, d.content) /\ ContentOK(d.content)
      /\ ThinkOK(d.think, d.content) /\ ToolsOK(d.tools, d.content)
  BY DEF Fine, DecOK
<1>2. Len(d.content) \in Nat /\ i \in 1..Len(d.content) /\ d.content[i].kind = "thinking"
  <2>1. Len(d.content) \in Nat
    BY <1>1, ContentFacts
  <2> QED BY <1>1, <2>1 DEF ThinkOK
<1>3. Len(c) = Len(d.content) /\ \A n \in 1..Len(d.content) : c[n].kind = d.content[n].kind
  BY DEF Reshaped
<1>4. InPlace(v, ev) /\ ValidEvent(ev)
  <2>1. v.over = FALSE /\ v.think = i
    BY <1>1 DEF Sees
  <2> QED BY <2>1 DEF InPlace, ValidEvent, EventKinds, Starts
<1>5. /\ w.kinds = v.kinds /\ w.told = v.told /\ w.text = v.text /\ w.think = 0
      /\ w.shut = v.shut /\ w.over = v.over
  BY <1>1, AfterThinkingEnd
<1>6. DecOK(f)
  <2>1. TextOK(d.text, c) /\ ToolsOK(d.tools, c) /\ ContentOK(c) /\ ThinkOK(f.think, c)
    BY <1>1, ReshapedKeeps DEF Reshaped
  <2> QED BY <1>1, <2>1 DEF DecOK
<1> HIDE DEF w
<1>7. Sees(w, f, {})
  <2>1. SeesText(w, f)
    <3> SUFFICES ASSUME NEW n \in 1..Len(d.content), c[n].kind = "text"
                 PROVE  w.told[n] = Told(f, n)
      BY <1>3 DEF SeesText
    <3>1. d.content[n].kind = "text" /\ n # i
      BY <1>2, <1>3
    <3>2. v.told[n] = Told(d, n)
      BY <1>1, <3>1 DEF Sees, SeesText
    <3>3. Told(f, n) = Told(d, n)
      BY <3>1 DEF Told
    <3> QED BY <1>5, <3>2, <3>3
  <2>2. /\ v.over = FALSE /\ v.shut = {} /\ v.text = d.text.at /\ Len(v.kinds) = Len(d.content)
        /\ \A n \in 1..Len(d.content) : v.kinds[n] = d.content[n].kind
    BY <1>1 DEF Sees
  <2> QED BY <1>3, <1>5, <2>1, <2>2 DEF Sees
<1>8. Fine(E, C, w, f, {})
  BY <1>4, <1>6, <1>7, FineTells DEF w
<1> QED BY <1>8

LEMMA EndThinkingFine ==
  ASSUME NEW E, NEW C, NEW v, NEW d, Fine(E, C, v, d, {})
  PROVE  /\ ThinkingEnded(EndThinking(d), d)
         /\ \E w : Fine(E, C, w, EndThinking(d), {})
<1> DEFINE f == EndThinking(d)
           i == d.think.at
           block == ThinkingBlock(d.think)
           c == [d.content EXCEPT ![i] = block]
           ev == Event("thinking_end", i, c[i])
<1>1. /\ DecFields \subseteq DOMAIN d
      /\ ContentOK(d.content) /\ ThinkOK(d.think, d.content)
  BY DEF Fine, DecOK
<1>2. CASE i = 0
  <2>1. f = d
    BY <1>2 DEF EndThinking
  <2>2. ThinkingEnded(d, d)
    BY <1>1, <1>2, ReshapedItself, KeptItself DEF ThinkingEnded
  <2> HIDE DEF f
  <2> QED BY <2>1, <2>2 DEF f
<1>3. CASE i # 0
  <2>1. /\ Len(d.content) \in Nat /\ i \in 1..Len(d.content) /\ d.content[i].kind = "thinking"
        /\ d.think.redacted \in BOOLEAN
    <3>1. Len(d.content) \in Nat
      BY <1>1, ContentFacts
    <3> QED BY <1>1, <1>3, <3>1 DEF ThinkOK
  <2>2. BlockOK(block) /\ block.kind = d.content[i].kind /\ block.redacted \in BOOLEAN
    BY <2>1 DEF BlockOK, ThinkingBlock, Kinds
  <2>3. f = Tell([d EXCEPT !.content = c, !.think = NoThinking], "thinking_end", i)
    BY <1>1, <1>3 DEF EndThinking, DecFields
  <2> HIDE DEF block
  <2>4. Reshaped(c, d.content) /\ Replaced(c, d.content, i, block)
    BY <1>1, <2>1, <2>2, BlockReplaced
  <2> HIDE DEF c
  <2>5. /\ DOMAIN f = DOMAIN d /\ f.content = c /\ f.text = d.text /\ f.think = NoThinking
        /\ f.tools = d.tools /\ f.stop = d.stop /\ f.cut = d.cut
        /\ f.stopSequence = d.stopSequence /\ f.finished = d.finished
        /\ f.out = Append(d.out, ev)
    BY <1>1, <2>3 DEF Tell, DecFields
  <2>6. c[i] = block /\ \A n \in 1..Len(d.content) : n # i => c[n] = d.content[n]
    BY <2>1, <2>4 DEF Replaced
  <2>7. ev.kind = "thinking_end" /\ ev.index = i /\ ev.block.redacted \in BOOLEAN
    BY <2>2, <2>6, EventIs
  <2> HIDE DEF ev, f
  <2>8. f.think.at = 0 /\ ThinkOK(f.think, d.content)
    BY <2>1, <2>5 DEF ThinkOK, NoThinking
  <2>9. ThinkingEnded(f, d)
    <3>1. IsSeq(d.out)
      BY DEF Fine, Matched
    <3>2. Opened(f.out) = Opened(d.out)
      BY <2>5, <2>7, <3>1, OpenedGrows
    <3>3. Beside(f, d)
      BY <2>5, <3>2 DEF Beside
    <3>4. \A n \in 1..Len(d.content) : d.content[n].kind = "text" => f.content[n] = d.content[n]
      BY <2>1, <2>5, <2>6
    <3>5. TextKept(f, d)
      BY <2>4, <2>5, <3>3, <3>4, ReshapedKept
    <3> QED BY <2>4, <2>5, <2>6, <2>8, <3>5 DEF ThinkingEnded
  <2>10. \E w : Fine(E, C, w, f, {})
    <3>1. Reshaped(f.content, d.content)
      BY <2>4, <2>5
    <3>2. \A n \in 1..Len(d.content) : n # d.think.at => f.content[n] = d.content[n]
      BY <2>5, <2>6
    <3> QED BY <1>3, <2>5, <2>7, <2>8, <3>1, <3>2, ThinkingCloses
  <2> QED BY <2>9, <2>10 DEF f
<1> QED BY <1>2, <1>3

(* What upstream said stays told as it was, whether the text is left alone *)
(* or closes.                                                              *)
Carries(f, d) ==
  /\ f.cut = d.cut /\ Texts(f) = Texts(d) /\ Opened(f.out) = Opened(d.out)
  /\ f.text.at \in {0, d.text.at}
  /\ \A s : Speaks(d, s) => Speaks(f, s)

LEMMA CarriesTwice ==
  ASSUME NEW d, NEW g, NEW f, Carries(g, d), Carries(f, g)
  PROVE  Carries(f, d)
BY DEF Carries

LEMMA KeptCarries ==
  ASSUME NEW d, NEW f, TextKept(f, d)
  PROVE  Carries(f, d)
<1>1. \A s : Speaks(d, s) => Speaks(f, s)
  BY KeptSpeaks
<1>2. /\ f.text = d.text /\ f.cut = d.cut /\ Opened(f.out) = Opened(d.out)
      /\ Texts(f) = Texts(d)
  BY DEF TextKept, Beside
<1> QED BY <1>1, <1>2 DEF Carries

LEMMA EndTextCarries ==
  ASSUME NEW d, TextOK(d.text, d.content), ContentOK(d.content), NEW f, TextEnded(f, d)
  PROVE  Carries(f, d)
<1>1. /\ f.cut = d.cut /\ f.stopSequence = d.stopSequence /\ f.text.at = 0
      /\ Opened(f.out) = Opened(d.out)
      /\ \A n \in 1..Len(d.content) : n # d.text.at => f.content[n] = d.content[n]
      /\ d.text.at # 0 => f.content[d.text.at].body = d.text.buf
  BY DEF TextEnded
<1>2. Texts(f) = Texts(d)
  BY DEF TextEnded, Reshaped, Texts
<1>3. \A i : IsLast(f, i) = IsLast(d, i)
  BY <1>2 DEF IsLast
<1>4. ASSUME NEW s, Speaks(d, s) PROVE Speaks(f, s)
  <2>1. /\ d.cut \in BOOLEAN
        /\ d.cut => d.text.at = 0
        /\ \A i \in Texts(d) : Says(d, i, s[i])
    BY <1>4 DEF Speaks
  <2>2. ASSUME NEW i \in Texts(d) PROVE Says(f, i, s[i])
    <3> DEFINE said == s[i]
               last == IsLast(d, i)
    <3>1. Says(d, i, said) /\ i \in 1..Len(d.content) /\ i # 0 /\ Len(d.content) \in Nat
      <4>1. Len(d.content) \in Nat
        BY ContentFacts
      <4> QED BY <2>1, <2>2, <4>1 DEF Texts
    <3> HIDE DEF said, last
    <3>2. IsLast(f, i) = last
      BY <1>3 DEF last
    <3>3. CASE i = d.text.at
      <4>1. said = d.text.buf /\ Settling(d.text) /\ d.text.at # 0 /\ d.cut = FALSE
        BY <2>1, <3>1, <3>3 DEF Says
      <4>2. f.content[i].body = said /\ Hits(said, 0) = {}
        BY <1>1, <3>3, <4>1 DEF Settling, Withheld
      <4>3. IsBoundary(said, Len(said))
        BY DEF IsBoundary
      <4>4. f.cut = FALSE
        BY <1>1, <4>1
      <4>5. ClosedSays(f, i, said)
        BY <4>2, <4>3, <4>4 DEF ClosedSays
      <4> QED BY <1>1, <3>1, <4>5 DEF Says, said
    <3>4. CASE i # d.text.at
      <4>1. ClosedSays(d, i, said) /\ f.content[i] = d.content[i]
        BY <1>1, <3>1, <3>4 DEF Says
      <4>2. ClosedSays(f, i, said)
        BY <1>1, <3>2, <4>1 DEF ClosedSays, last
      <4> QED BY <1>1, <3>1, <4>2 DEF Says, said
    <3> QED BY <3>3, <3>4
  <2> QED BY <1>1, <1>2, <2>1, <2>2 DEF Speaks
<1> QED BY <1>1, <1>2, <1>4 DEF Carries

(* A block of text or of thinking opens.                                   *)
Opens(f, d, kind, block, ev) ==
  /\ kind \in {"text", "thinking"} /\ BlockOK(block) /\ block.kind = kind
  /\ DOMAIN f = DOMAIN d /\ f.content = Append(d.content, block)
  /\ f.tools = d.tools /\ f.finished = d.finished
  /\ kind = "text" => /\ d.text.at = 0 /\ f.think = d.think
                      /\ f.text.at = Len(d.content) + 1 /\ f.text.sent = 0
                      /\ TextOK(f.text, f.content)
  /\ kind = "thinking" => /\ d.think.at = 0 /\ f.text = d.text
                          /\ block.redacted \in BOOLEAN
                          /\ f.think.at = Len(d.content) + 1 /\ ThinkOK(f.think, f.content)
  /\ f.out = Append(d.out, ev) /\ ev.index = Len(d.content) + 1 /\ ev.block = block
  /\ ev.kind = IF kind = "text" THEN "text_start" ELSE "thinking_start"

LEMMA BlockOpens ==
  ASSUME NEW E, NEW C, NEW v, NEW d, Fine(E, C, v, d, {}),
         NEW f, NEW kind, NEW block, NEW ev, Opens(f, d, kind, block, ev)
  PROVE  \E w : Fine(E, C, w, f, {})
<1> DEFINE n == Len(d.content)
           c == f.content
           w == After(v, ev)
<1>1. /\ DecOK(d) /\ Orderly(v) /\ Sees(v, d, {}) /\ Matched(E, C, v, d.out)
      /\ DecFields \subseteq DOMAIN d
      /\ TextOK(d.text, d.content) /\ ContentOK(d.content)
      /\ ThinkOK(d.think, d.content) /\ ToolsOK(d.tools, d.content)
  BY DEF Fine, DecOK
<1>o. /\ kind \in {"text", "thinking"} /\ BlockOK(block) /\ block.kind = kind
      /\ DOMAIN f = DOMAIN d /\ f.content = Append(d.content, block)
      /\ f.tools = d.tools /\ f.finished = d.finished
      /\ f.out = Append(d.out, ev) /\ ev.index = n + 1 /\ ev.block = block
      /\ ev.kind = IF kind = "text" THEN "text_start" ELSE "thinking_start"
  BY DEF Opens
<1>t. kind = "text" => /\ d.text.at = 0 /\ f.think = d.think
                       /\ f.text.at = n + 1 /\ f.text.sent = 0 /\ TextOK(f.text, c)
  BY DEF Opens
<1>h. kind = "thinking" => /\ d.think.at = 0 /\ f.text = d.text /\ block.redacted \in BOOLEAN
                           /\ f.think.at = n + 1 /\ ThinkOK(f.think, c)
  BY DEF Opens
<1>2. /\ n \in Nat /\ ContentOK(c) /\ Len(c) = n + 1 /\ c[n + 1] = block
      /\ \A i \in 1..n : c[i] = d.content[i]
  BY <1>1, <1>o, BlockAdded, ContentFacts
<1>3. /\ v.over = FALSE /\ v.shut = {} /\ v.text = d.text.at /\ v.think = d.think.at
      /\ Len(v.kinds) = n /\ \A i \in 1..n : v.kinds[i] = d.content[i].kind
  BY <1>1 DEF Sees
<1>4. InPlace(v, ev) /\ ValidEvent(ev)
  <2>1. CASE kind = "text"
    BY <1>o, <1>t, <1>3, <2>1 DEF InPlace, ValidEvent, EventKinds, Starts
  <2>2. CASE kind = "thinking"
    BY <1>o, <1>h, <1>3, <2>2 DEF InPlace, ValidEvent, EventKinds, Starts
  <2> QED BY <1>o, <2>1, <2>2
<1>5. w = Started(v, kind)
  BY <1>o DEF After
<1> HIDE DEF w
<1>6. /\ Len(w.kinds) = n + 1 /\ w.kinds[n + 1] = kind /\ w.told[n + 1] = <<>>
      /\ \A i \in 1..n : w.kinds[i] = v.kinds[i] /\ w.told[i] = v.told[i]
      /\ w.text = IF kind = "text" THEN n + 1 ELSE v.text
      /\ w.think = IF kind = "thinking" THEN n + 1 ELSE v.think
      /\ w.shut = v.shut /\ w.over = v.over
  <2>1. kind \in Kinds
    BY <1>o DEF Kinds
  <2> QED BY SMTT(30), <1>1, <1>3, <1>5, <2>1, StartedIs
<1>7. DecOK(f)
  <2>1. TextOK(d.text, c) /\ ThinkOK(d.think, c) /\ ToolsOK(d.tools, c)
    BY <1>1, <1>o, AddedKeeps
  <2> QED BY <1>1, <1>o, <1>t, <1>h, <1>2, <2>1 DEF DecOK
<1>8. Sees(w, f, {})
  <2>1. SeesText(w, f)
    <3> SUFFICES ASSUME NEW i \in 1..(n + 1), c[i].kind = "text"
                 PROVE  w.told[i] = Told(f, i)
      BY <1>2 DEF SeesText
    <3>1. CASE i = n + 1
      <4>1. kind = "text" /\ f.text.at = i /\ f.text.sent = 0
        BY <1>o, <1>t, <1>2, <3>1
      <4>2. f.text.buf \in Seq(Bytes)
        BY <1>t, <4>1 DEF TextOK
      <4>3. SubSeq(f.text.buf, 1, 0) = <<>>
        BY <4>2
      <4> QED BY <1>6, <3>1, <4>1, <4>3 DEF Told
    <3>2. CASE i # n + 1
      <4>1. i \in 1..n /\ d.content[i].kind = "text" /\ c[i] = d.content[i]
        BY <1>2, <3>2
      <4>2. w.told[i] = Told(d, i)
        BY <1>1, <1>6, <4>1 DEF Sees, SeesText
      <4>3. Told(f, i) = Told(d, i)
        BY <1>o, <1>t, <1>h, <1>2, <4>1 DEF Told
      <4> QED BY <4>2, <4>3
    <3> QED BY <3>1, <3>2
  <2>2. \A i \in 1..Len(c) : w.kinds[i] = c[i].kind
    <3> TAKE i \in 1..Len(c)
    <3>1. i = n + 1 \/ i \in 1..n
      BY <1>2
    <3> QED BY <1>o, <1>2, <1>3, <1>6, <3>1
  <2>3. w.text = f.text.at /\ w.think = f.think.at
    BY <1>o, <1>t, <1>h, <1>3, <1>6
  <2> QED BY <1>2, <1>3, <1>6, <2>1, <2>2, <2>3 DEF Sees
<1>9. Fine(E, C, w, f, {})
  BY <1>o, <1>4, <1>7, <1>8, FineTells DEF w
<1> QED BY <1>9

TextOpened(f, d) ==
  /\ DOMAIN f = DOMAIN d /\ f.think = d.think /\ f.tools = d.tools /\ f.stop = d.stop
  /\ f.cut = d.cut /\ f.stopSequence = d.stopSequence /\ f.finished = d.finished
  /\ f.text.at = IF d.text.at # 0 THEN d.text.at ELSE Len(d.content) + 1
  /\ f.text.at # 0 /\ DOMAIN f.text = DOMAIN d.text
  /\ f.text.buf = d.text.buf /\ f.text.sent = d.text.sent
  /\ f.content = IF d.text.at # 0 THEN d.content ELSE Append(d.content, TextBlock)
  /\ d.text.at # 0 => Opened(f.out) = Opened(d.out)
  /\ d.text.at = 0 => \E ev : /\ ev.index = Len(d.content) + 1
                             /\ Opened(f.out) = Opened(d.out) \cup {ev}

LEMMA OpenTextFine ==
  ASSUME NEW E, NEW C, NEW v, NEW d, Fine(E, C, v, d, {})
  PROVE  TextOpened(OpenText(d), d) /\ \E w : Fine(E, C, w, OpenText(d), {})
<1> DEFINE f == OpenText(d)
           n == Len(d.content)
           c == Append(d.content, TextBlock)
           ev == Event("text_start", n + 1, c[n + 1])
<1>1. DecFields \subseteq DOMAIN d /\ TextOK(d.text, d.content) /\ ContentOK(d.content)
  BY DEF Fine, DecOK
<1>2. CASE d.text.at # 0
  <2>1. f = d
    BY <1>2 DEF OpenText
  <2>2. TextOpened(d, d)
    BY <1>2 DEF TextOpened
  <2> HIDE DEF f
  <2> QED BY <2>1, <2>2 DEF f
<1>3. CASE d.text.at = 0
  <2>1. BlockOK(TextBlock) /\ TextBlock.kind = "text" /\ n \in Nat
    <3>1. <<>> \in Seq(Bytes)
      OBVIOUS
    <3> QED BY <1>1, <3>1, ContentFacts DEF BlockOK, TextBlock, Kinds
  <2>2. Len(c) = n + 1 /\ c[n + 1] = TextBlock
    BY <1>1, <2>1, BlockAdded
  <2>3. /\ DOMAIN f = DOMAIN d /\ f.content = c /\ f.think = d.think /\ f.tools = d.tools
        /\ f.stop = d.stop /\ f.cut = d.cut /\ f.stopSequence = d.stopSequence
        /\ f.finished = d.finished /\ f.text = [d.text EXCEPT !.at = n + 1]
        /\ f.out = Append(d.out, ev)
    <3> HIDE DEF c
    <3>1. f = Tell([d EXCEPT !.content = c, !.text.at = n + 1], "text_start", n + 1)
      BY <1>3 DEF OpenText, c
    <3> QED BY <1>1, <3>1 DEF Tell, DecFields
  <2>4. /\ DOMAIN f.text = DOMAIN d.text /\ f.text.at = n + 1 /\ f.text.buf = d.text.buf
        /\ f.text.sent = d.text.sent /\ d.text.buf = <<>> /\ d.text.sent = 0
    BY <1>1, <1>3, <2>3 DEF TextOK
  <2>5. ev.kind = "text_start" /\ ev.index = n + 1 /\ ev.block = TextBlock
    BY <2>2, EventIs
  <2> HIDE DEF ev, f
  <2>6. TextOpened(f, d)
    <3>1. IsSeq(d.out)
      BY DEF Fine, Matched
    <3>2. Opened(f.out) = Opened(d.out) \cup {ev} /\ ev.index = Len(d.content) + 1
      BY <2>3, <2>5, <3>1, OpenedGrows
    <3> QED BY <1>3, <2>1, <2>3, <2>4, <3>2 DEF TextOpened
  <2> HIDE DEF c
  <2>7. TextOK(f.text, c)
    <3>1. TextOK(d.text, d.content)
      BY <1>1
    <3> QED BY <2>1, <2>2, <2>4, <3>1 DEF TextOK
  <2>8. \E w : Fine(E, C, w, f, {})
    <3>1. f.content = Append(d.content, TextBlock)
      BY <2>3 DEF c
    <3>2. Opens(f, d, "text", TextBlock, ev)
      BY <1>3, <2>1, <2>3, <2>4, <2>5, <2>7, <3>1 DEF Opens
    <3> QED BY <3>2, BlockOpens
  <2> QED BY <2>6, <2>8 DEF f
<1> QED BY <1>2, <1>3

(* What tells nothing.                                                     *)
LEMMA FineStays ==
  ASSUME NEW E, NEW C, NEW v, NEW d, NEW shut, Fine(E, C, v, d, shut),
         NEW f, DecOK(f), f.out = d.out, Sees(v, f, shut)
  PROVE  Fine(E, C, v, f, shut)
BY DEF Fine

(* The open text grows, or loses what follows the mark.                    *)
TextBecomes(f, d, buf) ==
  /\ DOMAIN f = DOMAIN d /\ f.content = d.content /\ f.think = d.think /\ f.tools = d.tools
  /\ f.finished = d.finished /\ f.out = d.out
  /\ DOMAIN f.text = DOMAIN d.text /\ f.text.at = d.text.at /\ f.text.sent = d.text.sent
  /\ f.text.buf = buf /\ buf \in Seq(Bytes) /\ d.text.sent <= Len(buf)
  /\ SubSeq(buf, 1, d.text.sent) = SubSeq(d.text.buf, 1, d.text.sent)

LEMMA TextBecomesFine ==
  ASSUME NEW E, NEW C, NEW v, NEW d, Fine(E, C, v, d, {}), d.text.at # 0,
         NEW f, NEW buf, TextBecomes(f, d, buf)
  PROVE  Fine(E, C, v, f, {})
<1>1. /\ DecOK(d) /\ Sees(v, d, {}) /\ TextOK(d.text, d.content)
  BY DEF Fine, DecOK
<1>2. TextOK(f.text, d.content)
  <2>1. Len(buf) \in Nat /\ d.text.sent \in Nat
    <3>1. Len(d.text.buf) \in Nat
      BY <1>1 DEF TextOK
    <3> QED BY <1>1, <3>1 DEF TextBecomes, TextOK
  <2> QED BY <1>1, <2>1 DEF TextBecomes, TextOK
<1>3. DecOK(f)
  BY <1>1, <1>2 DEF DecOK, TextBecomes
<1>4. \A i : Told(f, i) = Told(d, i)
  BY DEF TextBecomes, Told
<1>5. Sees(v, f, {})
  BY <1>1, <1>4 DEF Sees, SeesText, TextBecomes
<1> QED BY <1>3, <1>5, FineStays DEF TextBecomes

LEMMA SafeLengthWithin ==
  ASSUME NEW S, NEW buf \in Seq(S), NEW from \in 0..Len(buf), Patterns # <<>>
  PROVE  SafeLength(buf, from) \in from..Len(buf)
<1> DEFINE last == Len(buf) - (Longest - 1)
           Ends == {from} \cup {i \in from..last : IsBoundary(buf, i)}
<1>1. Longest \in Nat /\ Longest >= 1
  <2>1. 1 \in DOMAIN Patterns /\ Len(Patterns[1]) \in Nat \ {0}
    BY PatternsAssumption
  <2> QED BY <2>1, LongestIsLongest
<1>2. Len(buf) \in Nat /\ last \in Int /\ last <= Len(buf)
  BY <1>1
<1>3. Ends \subseteq from..Len(buf)
  BY <1>2
<1>4. Ends \subseteq Nat /\ Ends # {} /\ \A y \in Ends : y <= Len(buf)
  BY <1>2, <1>3
<1>5. SafeLength(buf, from) = Max(Ends)
  BY DEF SafeLength
<1> HIDE DEF Ends
<1>6. Max(Ends) \in Ends
  BY <1>2, <1>4, MaxOfNaturals
<1> QED BY <1>3, <1>5, <1>6

(* What decoding text leaves alone.                                        *)
Apart(f, d) == f.tools = d.tools /\ f.stop = d.stop /\ f.finished = d.finished

(* The open text is cut at `hit`, where a stop sequence begins.            *)
StopAt(buf, hit) == Patterns[Min({k \in DOMAIN Patterns : Occurs(buf, Patterns[k], hit)})]

TextCut(f, d, hit) ==
  /\ f.cut = TRUE /\ f.stopSequence = StopAt(d.text.buf, hit) /\ f.text.at = 0
  /\ Reshaped(f.content, d.content) /\ Opened(f.out) = Opened(d.out)
  /\ \A n \in 1..Len(d.content) : n # d.text.at => f.content[n] = d.content[n]
  /\ f.content[d.text.at].body = SubSeq(d.text.buf, 1, hit)

LEMMA CutTextFine ==
  ASSUME NEW E, NEW C, NEW v, NEW d, Fine(E, C, v, d, {}), d.text.at # 0,
         NEW hit \in d.text.sent..Len(d.text.buf)
  PROVE  /\ Apart(CutText(d, hit), d) /\ TextCut(CutText(d, hit), d, hit)
         /\ \E w : Fine(E, C, w, CutText(d, hit), {})
<1> DEFINE told == TellText(d, hit)
           first == Min({k \in DOMAIN Patterns : Occurs(d.text.buf, Patterns[k], hit)})
           before == SubSeq(d.text.buf, 1, hit)
           cut == [told EXCEPT !.stopSequence = Patterns[first], !.cut = TRUE,
                               !.text.buf = SubSeq(@, 1, hit)]
<1>1. TextOK(d.text, d.content) /\ DecFields \subseteq DOMAIN d
  BY DEF Fine, DecOK
<1>2. /\ d.text.buf \in Seq(Bytes) /\ Len(d.text.buf) \in Nat /\ d.text.sent \in Nat
      /\ hit \in 0..Len(d.text.buf) /\ d.text.sent <= hit
      /\ {"at", "buf", "sent"} \subseteq DOMAIN d.text
  <2>1. d.text.buf \in Seq(Bytes) /\ Len(d.text.buf) \in Nat /\ d.text.sent \in 0..Len(d.text.buf)
    BY <1>1 DEF TextOK
  <2> QED BY <1>1, <2>1 DEF TextOK
<1>3. TextTold(told, d, hit) /\ \E w : Fine(E, C, w, told, {})
  BY <1>2, TellTextFine
<1>4. PICK w : Fine(E, C, w, told, {})
  BY <1>3
<1>5. told.text.sent = hit /\ told.text.buf = d.text.buf /\ told.text.at = d.text.at
  BY <1>2, <1>3 DEF TextTold
<1>6. before \in Seq(Bytes) /\ Len(before) = hit /\ SubSeq(before, 1, hit) = before
  BY <1>2
<1>7. CutText(d, hit) = EndText(cut)
  BY DEF CutText
<1>8. /\ TextBecomes(cut, told, before) /\ Apart(cut, told)
      /\ cut.cut = TRUE /\ cut.stopSequence = StopAt(d.text.buf, hit)
  <2>1. DecFields \subseteq DOMAIN told /\ {"at", "buf", "sent"} \subseteq DOMAIN told.text
    BY <1>1, <1>2, <1>3 DEF TextTold
  <2> HIDE DEF told, first
  <2>2. /\ DOMAIN cut = DOMAIN told /\ cut.content = told.content /\ cut.think = told.think
        /\ cut.tools = told.tools /\ cut.finished = told.finished /\ cut.out = told.out
        /\ cut.stop = told.stop /\ cut.cut = TRUE /\ cut.stopSequence = Patterns[first]
        /\ cut.text = [told.text EXCEPT !.buf = before]
    BY <1>5, <2>1 DEF DecFields
  <2> HIDE DEF cut
  <2>3. /\ DOMAIN cut.text = DOMAIN told.text /\ cut.text.at = told.text.at
        /\ cut.text.sent = told.text.sent /\ cut.text.buf = before
    BY <2>1, <2>2
  <2>4. SubSeq(before, 1, told.text.sent) = SubSeq(told.text.buf, 1, told.text.sent)
    BY <1>5, <1>6
  <2>5. told.text.sent <= Len(before)
    BY <1>2, <1>5, <1>6
  <2>6. cut.stopSequence = StopAt(d.text.buf, hit)
    BY <2>2 DEF StopAt, first
  <2> QED BY <1>6, <2>2, <2>3, <2>4, <2>5, <2>6 DEF TextBecomes, Apart
<1> HIDE DEF cut, told, before
<1>9. Fine(E, C, w, cut, {})
  BY <1>4, <1>5, <1>8, TextBecomesFine
<1>10. TextEnded(EndText(cut), cut) /\ \E x : Fine(E, C, x, EndText(cut), {})
  BY <1>9, EndTextFine
<1>11. Apart(EndText(cut), d)
  BY <1>3, <1>8, <1>10 DEF Apart, TextEnded, TextTold
<1>12. TextCut(EndText(cut), d, hit)
  <2>1. cut.content = d.content /\ cut.text.at = d.text.at /\ cut.text.buf = before
        /\ Opened(cut.out) = Opened(d.out)
    BY <1>3, <1>8 DEF TextBecomes, TextTold
  <2> DEFINE f == EndText(cut)
  <2> HIDE DEF f
  <2>2. TextEnded(f, cut)
    BY <1>10 DEF f
  <2>3. TextCut(f, d, hit)
    BY <1>8, <2>1, <2>2 DEF TextEnded, TextCut, before
  <2> QED BY <2>3 DEF f
<1> QED BY <1>7, <1>10, <1>11, <1>12

(* Text of upstream is decoded: it lengthens the open text, or a new one.  *)
TextGrown(g, d, delta) ==
  /\ g.cut = d.cut /\ g.stopSequence = d.stopSequence
  /\ g.text.at = IF d.text.at # 0 THEN d.text.at ELSE Len(d.content) + 1
  /\ g.text.buf = d.text.buf \o delta /\ g.text.sent = d.text.sent
  /\ g.content = IF d.text.at # 0 THEN d.content ELSE Append(d.content, TextBlock)
  /\ d.text.at # 0 => Opened(g.out) = Opened(d.out)
  /\ d.text.at = 0 => \E ev : /\ ev.index = Len(d.content) + 1
                             /\ Opened(g.out) = Opened(d.out) \cup {ev}

Scanned(f, g) ==
  LET hits == Hits(g.text.buf, g.text.sent)
  IN  /\ Patterns = <<>> => TextTold(f, g, Len(g.text.buf))
      /\ Patterns # <<>> /\ hits = {} => TextTold(f, g, SafeLength(g.text.buf, g.text.sent))
      /\ Patterns # <<>> /\ hits # {} => TextCut(f, g, Min(hits))

TextDecoded(f, d, delta) == \E g : TextGrown(g, d, delta) /\ Scanned(f, g)

LEMMA DecodeTextFine ==
  ASSUME NEW E, NEW C, NEW v, NEW d, Fine(E, C, v, d, {}), NEW delta \in Seq(Bytes)
  PROVE  /\ Apart(DecodeText(d, delta), d) /\ TextDecoded(DecodeText(d, delta), d, delta)
         /\ \E w : Fine(E, C, w, DecodeText(d, delta), {})
<1> DEFINE open == OpenText(d)
           grown == [open EXCEPT !.text.buf = @ \o delta]
           whole == open.text.buf \o delta
<1>1. TextOpened(open, d) /\ \E w : Fine(E, C, w, open, {})
  BY OpenTextFine
<1> HIDE DEF open
<1>2. PICK w : Fine(E, C, w, open, {})
  BY <1>1
<1>3. /\ TextOK(open.text, open.content) /\ DecFields \subseteq DOMAIN open
      /\ open.text.at # 0 /\ Apart(open, d)
  BY <1>1, <1>2 DEF Fine, DecOK, TextOpened, Apart
<1>4. /\ open.text.buf \in Seq(Bytes) /\ Len(open.text.buf) \in Nat
      /\ open.text.sent \in 0..Len(open.text.buf)
      /\ {"at", "buf", "sent"} \subseteq DOMAIN open.text
  BY <1>3 DEF TextOK
<1>5. /\ whole \in Seq(Bytes) /\ Len(whole) = Len(open.text.buf) + Len(delta)
      /\ Len(delta) \in Nat
  BY <1>4
<1>6. SubSeq(whole, 1, open.text.sent) = SubSeq(open.text.buf, 1, open.text.sent)
  BY <1>4, <1>5
<1>7. /\ TextBecomes(grown, open, whole) /\ Apart(grown, open)
      /\ grown.cut = open.cut /\ grown.stopSequence = open.stopSequence
  <2>1. /\ DOMAIN grown = DOMAIN open /\ grown.content = open.content
        /\ grown.think = open.think /\ grown.tools = open.tools
        /\ grown.finished = open.finished /\ grown.out = open.out /\ grown.stop = open.stop
        /\ grown.cut = open.cut /\ grown.stopSequence = open.stopSequence
        /\ grown.text = [open.text EXCEPT !.buf = whole]
    BY <1>3 DEF DecFields
  <2> HIDE DEF grown, whole
  <2>2. /\ DOMAIN grown.text = DOMAIN open.text /\ grown.text.at = open.text.at
        /\ grown.text.sent = open.text.sent /\ grown.text.buf = whole
    BY <1>4, <2>1
  <2>3. open.text.sent <= Len(whole)
    BY <1>4, <1>5
  <2> QED BY <1>5, <1>6, <2>1, <2>2, <2>3 DEF TextBecomes, Apart
<1>g. TextGrown(grown, d, delta)
  <2> HIDE DEF grown
  <2> QED BY <1>1, <1>7 DEF TextBecomes, TextOpened, TextGrown
<1>8. DecodeText(d, delta) = IF Patterns = <<>> THEN TellText(grown, Len(grown.text.buf))
                             ELSE ScanTextForStops(grown)
  BY DEF DecodeText, open
<1> HIDE DEF grown, whole
<1>9. Fine(E, C, w, grown, {})
  BY <1>2, <1>3, <1>7, TextBecomesFine
<1>10. /\ grown.text.at # 0 /\ grown.text.buf \in Seq(Bytes) /\ Len(grown.text.buf) \in Nat
       /\ grown.text.sent \in 0..Len(grown.text.buf)
  BY <1>3, <1>4, <1>5, <1>7 DEF TextBecomes
<1>11. ASSUME NEW upto \in 0..Len(grown.text.buf)
       PROVE  /\ Apart(TellText(grown, upto), d) /\ TextTold(TellText(grown, upto), grown, upto)
              /\ \E x : Fine(E, C, x, TellText(grown, upto), {})
  <2>1. /\ TextTold(TellText(grown, upto), grown, upto)
        /\ \E x : Fine(E, C, x, TellText(grown, upto), {})
    BY <1>9, <1>10, TellTextFine
  <2>2. Apart(TellText(grown, upto), d)
    BY <1>3, <1>7, <2>1 DEF Apart, TextTold
  <2> QED BY <2>1, <2>2
<1>12. CASE Patterns = <<>>
  <2> DEFINE upto == Len(grown.text.buf)
  <2>1. upto \in 0..Len(grown.text.buf) /\ DecodeText(d, delta) = TellText(grown, upto)
    BY <1>8, <1>10, <1>12
  <2> HIDE DEF upto
  <2>2. /\ Apart(TellText(grown, upto), d) /\ TextTold(TellText(grown, upto), grown, upto)
        /\ \E x : Fine(E, C, x, TellText(grown, upto), {})
    BY <1>11, <2>1
  <2>3. Scanned(TellText(grown, upto), grown)
    BY <1>12, <2>2 DEF Scanned, upto
  <2> QED BY <1>g, <2>1, <2>2, <2>3 DEF TextDecoded
<1>13. CASE Patterns # <<>>
  <2> DEFINE hits == Hits(grown.text.buf, grown.text.sent)
  <2>1. CASE hits # {}
    <3>1. hits \subseteq grown.text.sent..Len(grown.text.buf) /\ hits \subseteq Nat
      BY <1>10 DEF Hits
    <3> HIDE DEF hits
    <3>2. Min(hits) \in grown.text.sent..Len(grown.text.buf)
      BY <2>1, <3>1, MinOfNaturals
    <3>3. DecodeText(d, delta) = CutText(grown, Min(hits))
      BY <1>8, <1>13, <2>1 DEF ScanTextForStops, hits
    <3>4. /\ Apart(CutText(grown, Min(hits)), grown)
          /\ TextCut(CutText(grown, Min(hits)), grown, Min(hits))
          /\ \E x : Fine(E, C, x, CutText(grown, Min(hits)), {})
      <4> DEFINE hit == Min(hits)
      <4> HIDE DEF hit
      <4>1. hit \in grown.text.sent..Len(grown.text.buf)
        BY <3>2 DEF hit
      <4>2. /\ Apart(CutText(grown, hit), grown) /\ TextCut(CutText(grown, hit), grown, hit)
            /\ \E x : Fine(E, C, x, CutText(grown, hit), {})
        BY <1>9, <1>10, <4>1, CutTextFine
      <4> QED BY <4>2 DEF hit
    <3>5. Apart(CutText(grown, Min(hits)), d)
      BY <1>3, <1>7, <3>4 DEF Apart
    <3> DEFINE f == CutText(grown, Min(hits))
    <3> HIDE DEF f
    <3>6. Scanned(f, grown)
      <4>1. TextCut(f, grown, Min(hits))
        BY <3>4 DEF f
      <4> QED BY <1>13, <2>1, <4>1 DEF Scanned, hits
    <3>7. TextDecoded(f, d, delta)
      BY <1>g, <3>6 DEF TextDecoded
    <3> QED BY <3>3, <3>4, <3>5, <3>7 DEF f
  <2>2. CASE hits = {}
    <3> DEFINE upto == SafeLength(grown.text.buf, grown.text.sent)
    <3>1. DecodeText(d, delta) = TellText(grown, upto)
      BY <1>8, <1>13, <2>2 DEF ScanTextForStops
    <3>2. upto \in 0..Len(grown.text.buf)
      <4>1. upto \in grown.text.sent..Len(grown.text.buf)
        BY <1>10, <1>13, SafeLengthWithin
      <4> HIDE DEF upto
      <4> QED BY <1>10, <4>1
    <3> HIDE DEF upto
    <3>3. /\ Apart(TellText(grown, upto), d) /\ TextTold(TellText(grown, upto), grown, upto)
          /\ \E x : Fine(E, C, x, TellText(grown, upto), {})
      BY <1>11, <3>2
    <3>4. Scanned(TellText(grown, upto), grown)
      BY <1>13, <2>2, <3>3 DEF Scanned, upto, hits
    <3> QED BY <1>g, <3>1, <3>3, <3>4 DEF TextDecoded
  <2> QED BY <2>1, <2>2
<1> QED BY <1>12, <1>13

-----------------------------------------------------------------------------
(* What the scan of a longer text leaves said.                             *)

Scannable(text) ==
  /\ text.buf \in Seq(Bytes) /\ Withheld(text) /\ IsBoundary(text.buf, text.sent)

(* Upstream sends whole characters: where one ended, one ends.             *)
Whole(delta) == delta \in Seq(Bytes) /\ delta # <<>> /\ delta[1] \notin Continuing

LEMMA BoundaryStays ==
  ASSUME NEW buf \in Seq(Bytes), NEW delta, Whole(delta), NEW j \in 0..Len(buf),
         IsBoundary(buf, j)
  PROVE  IsBoundary(buf \o delta, j)
<1> DEFINE whole == buf \o delta
<1>1. /\ delta \in Seq(Bytes) /\ Len(delta) \in Nat /\ Len(delta) >= 1 /\ Len(buf) \in Nat
      /\ delta[1] \notin Continuing
  BY DEF Whole
<1>2. CASE j = Len(buf)
  <2>1. whole[j + 1] = delta[1]
    BY <1>1, <1>2
  <2> QED BY <1>1, <2>1 DEF IsBoundary
<1>3. CASE j # Len(buf)
  <2>1. j + 1 \in 1..Len(buf) /\ buf[j + 1] \notin Continuing
    BY <1>1, <1>3 DEF IsBoundary
  <2>2. whole[j + 1] = buf[j + 1]
    BY <1>1, <2>1
  <2> QED BY <2>1, <2>2 DEF IsBoundary
<1> QED BY <1>2, <1>3

(* What may be told ends between two characters, and is all that may be.   *)
LEMMA SafeLengthIsLast ==
  ASSUME NEW buf \in Seq(Bytes), NEW from \in 0..Len(buf), Patterns # <<>>,
         IsBoundary(buf, from), NEW safe, safe = SafeLength(buf, from)
  PROVE  /\ IsBoundary(buf, safe)
         /\ \A j \in (safe + 1)..Len(buf) :
              IsBoundary(buf, j) => j > Len(buf) - (Longest - 1)
<1> DEFINE last == Len(buf) - (Longest - 1)
           Ends == {from} \cup {i \in from..last : IsBoundary(buf, i)}
<1>1. Longest \in Nat /\ Longest >= 1
  <2>1. 1 \in DOMAIN Patterns /\ Len(Patterns[1]) \in Nat \ {0}
    BY PatternsAssumption
  <2> QED BY <2>1, LongestIsLongest
<1>2. Len(buf) \in Nat /\ last \in Int /\ last <= Len(buf)
  BY <1>1
<1>3. Ends \subseteq Nat /\ Ends # {} /\ \A y \in Ends : y <= Len(buf) /\ IsBoundary(buf, y)
  BY <1>2
<1>4. safe = Max(Ends)
  BY DEF SafeLength
<1>5. safe \in Ends /\ \A y \in Ends : y <= safe
  <2> HIDE DEF Ends
  <2> QED BY <1>2, <1>3, <1>4, MaxOfNaturals
<1>6. ASSUME NEW j \in (safe + 1)..Len(buf), IsBoundary(buf, j), ~(j > last) PROVE FALSE
  <2>1. safe \in Nat /\ safe >= from
    BY <1>2, <1>5
  <2> HIDE DEF last
  <2>2. j \in from..last /\ ~(j <= safe)
    BY <1>2, <1>6, <2>1
  <2> QED BY <1>5, <1>6, <2>2
<1> HIDE DEF Ends
<1> QED BY <1>3, <1>5, <1>6

LEMMA NothingHasNoHits == \A nothing : nothing = <<>> => Hits(nothing, 0) = {}
<1> SUFFICES Hits(<<>>, 0) = {}
  OBVIOUS
<1> SUFFICES ASSUME NEW i \in Hits(<<>>, 0) PROVE FALSE
  OBVIOUS
<1>1. PICK k \in DOMAIN Patterns : Occurs(<<>>, Patterns[k], i)
  BY DEF Hits
<1>2. Len(Patterns[k]) \in Nat \ {0}
  BY PatternsAssumption
<1>3. i \in Nat /\ i + Len(Patterns[k]) <= 0
  BY <1>1 DEF Hits, Occurs
<1> QED BY <1>2, <1>3

(* Without stop sequences nothing is held back.                            *)
LEMMA NoPatterns ==
  ASSUME Patterns = <<>>
  PROVE  Longest = 0 /\ \A text : Hits(text, 0) = {}
<1>1. {Len(Patterns[k]) : k \in DOMAIN Patterns} = {}
  OBVIOUS
<1>2. \A text : Hits(text, 0) = {}
  BY DEF Hits
<1> DEFINE T == {0}
<1>3. T \subseteq Nat /\ T # {} /\ \A y \in T : y <= 0
  OBVIOUS
<1>4. Max(T) \in T
  <2> HIDE DEF T
  <2> QED BY <1>3, MaxOfNaturals
<1>5. Longest = Max(T)
  BY <1>1 DEF Longest
<1> QED BY <1>2, <1>4, <1>5

LEMMA AllToldSettles ==
  ASSUME Patterns = <<>>, NEW text, text.buf \in Seq(Bytes), text.sent = Len(text.buf)
  PROVE  Settling(text)
<1>1. Len(text.buf) \in Nat /\ Longest = 0 /\ Hits(text.buf, 0) = {}
  BY NoPatterns
<1>2. Withheld(text)
  BY <1>1 DEF Withheld
<1>3. IsBoundary(text.buf, text.sent)
  BY DEF IsBoundary
<1>4. \A j \in (text.sent + 1)..Len(text.buf) : FALSE
  BY <1>1
<1> QED BY <1>2, <1>3, <1>4 DEF Settling

LEMMA ScanSettles ==
  ASSUME Patterns # <<>>, NEW text, Scannable(text), NEW delta, Whole(delta),
         NEW whole, whole = text.buf \o delta, Hits(whole, 0) = {},
         NEW safe, safe = SafeLength(whole, text.sent),
         NEW after, after.buf = whole,
         after.sent = IF safe <= text.sent THEN text.sent ELSE safe
  PROVE  Settling(after)
<1>1. /\ text.buf \in Seq(Bytes) /\ delta \in Seq(Bytes) /\ whole \in Seq(Bytes)
      /\ Len(whole) = Len(text.buf) + Len(delta) /\ Len(text.buf) \in Nat
      /\ Len(delta) \in Nat /\ Len(whole) \in Nat
      /\ text.sent \in 0..Len(text.buf) /\ text.sent \in 0..Len(whole)
      /\ text.sent = 0 \/ text.sent + (Longest - 1) <= Len(text.buf)
  BY DEF Scannable, Whole, Withheld
<1>2. Longest \in Nat
  BY LongestIsLongest
<1>3. text.sent = 0 \/ text.sent + (Longest - 1) <= Len(whole)
  BY <1>1, <1>2
<1>4. IsBoundary(whole, text.sent)
  BY <1>1, BoundaryStays DEF Scannable
<1>5. /\ safe \in text.sent..Len(whole)
      /\ safe = 0 \/ safe + (Longest - 1) <= Len(whole)
  <2> DEFINE from == text.sent
  <2> HIDE DEF from
  <2>1. from \in 0..Len(whole) /\ (from = 0 \/ from + (Longest - 1) <= Len(whole))
    BY <1>1, <1>3 DEF from
  <2>2. /\ SafeLength(whole, from) \in from..Len(whole)
        /\ \/ SafeLength(whole, from) = 0
           \/ SafeLength(whole, from) + (Longest - 1) <= Len(whole)
    BY <1>1, <2>1, SafeLengthIsSafe
  <2> QED BY <2>2 DEF from
<1>6. after.sent = safe /\ safe \in 0..Len(whole)
  BY <1>1, <1>5
<1>7. /\ IsBoundary(whole, safe)
      /\ \A j \in (safe + 1)..Len(whole) :
           IsBoundary(whole, j) => j > Len(whole) - (Longest - 1)
  <2> DEFINE from == text.sent
  <2> HIDE DEF from
  <2>1. from \in 0..Len(whole) /\ IsBoundary(whole, from) /\ safe = SafeLength(whole, from)
    BY <1>1, <1>4 DEF from
  <2> QED BY <1>1, <2>1, SafeLengthIsLast
<1>8. Withheld(after)
  BY <1>5, <1>6 DEF Withheld
<1> QED BY <1>6, <1>7, <1>8 DEF Settling

(* What a cut leaves said: the text before the first stop sequence has     *)
(* none, and the stop sequence on record follows it.                       *)
CutSays(whole, hit) ==
  LET before == SubSeq(whole, 1, hit)
      stop == StopAt(whole, hit)
  IN  /\ before \in Seq(Bytes) /\ Len(before) = hit
      /\ Hits(before, 0) = {} /\ IsBoundary(whole, hit)
      /\ IsSeq(stop) /\ IsPrefix(before \o stop, whole)

LEMMA HitlessBefore ==
  ASSUME NEW whole \in Seq(Bytes), NEW hit \in 0..Len(whole),
         \A i \in Hits(whole, 0) : hit <= i
  PROVE  Hits(SubSeq(whole, 1, hit), 0) = {}
<1> DEFINE before == SubSeq(whole, 1, hit)
<1>1. /\ before \in Seq(Bytes) /\ Len(before) = hit /\ Len(whole) \in Nat /\ hit \in Nat
      /\ hit <= Len(whole)
      /\ \A i \in 1..hit : before[i] = whole[i]
  OBVIOUS
<1> HIDE DEF before
<1> SUFFICES ASSUME NEW i \in Hits(before, 0) PROVE FALSE
  BY DEF before
<1>2. PICK k \in DOMAIN Patterns : Occurs(before, Patterns[k], i)
  BY DEF Hits
<1>3. Len(Patterns[k]) \in Nat \ {0} /\ i \in 0..hit
  BY <1>1, PatternsAssumption DEF Hits
<1>4. i + Len(Patterns[k]) <= hit /\ \A n \in 1..Len(Patterns[k]) : before[i + n] = Patterns[k][n]
  BY <1>1, <1>2 DEF Occurs
<1>5. Occurs(whole, Patterns[k], i)
  <2>1. i + Len(Patterns[k]) <= Len(whole)
    BY <1>1, <1>3, <1>4
  <2>2. ASSUME NEW n \in 1..Len(Patterns[k]) PROVE whole[i + n] = Patterns[k][n]
    <3>1. i + n \in 1..hit
      BY <1>1, <1>3, <1>4
    <3> QED BY <1>1, <1>4, <3>1
  <2> QED BY <2>1, <2>2 DEF Occurs
<1>6. i \in 0..Len(whole)
  BY <1>1, <1>3
<1>7. i \in Hits(whole, 0)
  BY <1>5, <1>6 DEF Hits
<1> QED BY <1>1, <1>3, <1>4, <1>7

LEMMA StopFollows ==
  ASSUME NEW whole \in Seq(Bytes), NEW hit \in Hits(whole, 0)
  PROVE  LET stop == StopAt(whole, hit)
         IN  /\ IsBoundary(whole, hit) /\ IsSeq(stop)
             /\ IsPrefix(SubSeq(whole, 1, hit) \o stop, whole)
<1> DEFINE T == UNION {Range(Patterns[k]) : k \in DOMAIN Patterns}
           ks == {k \in DOMAIN Patterns : Occurs(whole, Patterns[k], hit)}
           first == Min(ks)
           before == SubSeq(whole, 1, hit)
           stop == Patterns[first]
           S == Bytes \cup T
           m == Len(stop)
<1>1. Patterns \in Seq(Seq(T)) /\ DOMAIN Patterns = 1..Len(Patterns) /\ Len(Patterns) \in Nat
  BY PatternsAssumption
<1>2. ks # {} /\ ks \subseteq Nat
  BY <1>1 DEF Hits
<1>3. first \in ks
  <2> HIDE DEF ks
  <2> QED BY <1>2, MinOfNaturals
<1>4. first \in DOMAIN Patterns /\ Occurs(whole, stop, hit)
  <2> HIDE DEF first
  <2> QED BY <1>3
<1> HIDE DEF first
<1>5. stop \in Seq(T) /\ stop # <<>> /\ stop[1] \notin Continuing
  <2> HIDE DEF T
  <2> QED BY <1>1, <1>4, PatternsAssumption
<1> HIDE DEF T, ks, stop
<1>6. /\ m \in Nat /\ m >= 1 /\ hit \in 0..Len(whole) /\ Len(whole) \in Nat /\ hit \in Nat
      /\ hit + m <= Len(whole)
      /\ \A n \in 1..m : whole[hit + n] = stop[n]
  BY <1>4, <1>5 DEF Occurs, Hits
<1>7. IsBoundary(whole, hit)
  <2>1. whole[hit + 1] = stop[1]
    BY <1>6
  <2> QED BY <1>5, <2>1 DEF IsBoundary
<1>8. before \in Seq(S) /\ stop \in Seq(S) /\ whole \in Seq(S) /\ Len(before) = hit
  BY <1>5, <1>6
<1>9. \A n \in 1..hit : before[n] = whole[n]
  BY <1>6
<1> HIDE DEF before, S, m
<1> DEFINE both == before \o stop
<1>10. both \in Seq(S) /\ Len(both) = hit + m
  <2>1. both \in Seq(S)
    BY <1>8
  <2>2. Len(both) = Len(before) + Len(stop)
    BY <1>8
  <2> QED BY <1>8, <2>1, <2>2 DEF m
<1>11. \A n \in 1..(hit + m) : both[n] = whole[n]
  <2> TAKE n \in 1..(hit + m)
  <2>1. CASE n \in 1..hit
    <3>1. both[n] = before[n]
      BY <1>8, <2>1
    <3> QED BY <1>9, <2>1, <3>1
  <2>2. CASE n \notin 1..hit
    <3>1. n - hit \in 1..m /\ hit + (n - hit) = n
      BY <1>6, <2>2
    <3>2. both[n] = stop[n - hit]
      BY <1>6, <1>8, <2>2, <3>1 DEF m
    <3> QED BY <1>6, <3>1, <3>2
  <2> QED BY <2>1, <2>2
<1> HIDE DEF both
<1>12. IsPrefix(both, whole)
  <2> DEFINE l == hit + m
             a == SubSeq(both, 1, l)
             b == SubSeq(whole, 1, l)
  <2>1. /\ a \in Seq(S) /\ b \in Seq(S) /\ Len(a) = l /\ Len(b) = l /\ l \in Nat
        /\ \A n \in 1..l : a[n] = both[n] /\ b[n] = whole[n]
    BY <1>6, <1>8, <1>10
  <2> HIDE DEF a, b, l
  <2>2. \A n \in 1..Len(a) : a[n] = b[n]
    BY <1>11, <2>1 DEF l
  <2>3. a = b
    BY <2>1, <2>2, SeqEqual
  <2> QED BY <1>6, <1>10, <2>3 DEF IsPrefix, a, b, l
<1>13. IsSeq(stop)
  BY <1>5, SeqIs
<1>14. stop = StopAt(whole, hit)
  BY DEF stop, first, ks, StopAt
<1> QED BY <1>7, <1>12, <1>13, <1>14 DEF both, before

LEMMA CutIsSaid ==
  ASSUME NEW whole \in Seq(Bytes), NEW hit, hit = Min(Hits(whole, 0)), Hits(whole, 0) # {}
  PROVE  CutSays(whole, hit)
<1>1. Hits(whole, 0) \subseteq 0..Len(whole) /\ Hits(whole, 0) \subseteq Nat /\ Len(whole) \in Nat
  BY DEF Hits
<1>2. hit \in Hits(whole, 0) /\ \A i \in Hits(whole, 0) : hit <= i
  BY <1>1, MinOfNaturals
<1>3. hit \in 0..Len(whole)
  BY <1>1, <1>2
<1>4. Hits(SubSeq(whole, 1, hit), 0) = {}
  BY <1>2, <1>3, HitlessBefore
<1>5. SubSeq(whole, 1, hit) \in Seq(Bytes) /\ Len(SubSeq(whole, 1, hit)) = hit
  BY <1>3
<1> QED BY <1>2, <1>4, <1>5, StopFollows DEF CutSays

(* Text of upstream is said of the text block that is open, or of a new one. *)
SpokenOn(t, s, d, at, delta) ==
  /\ t[at] = (IF at \in Texts(d) THEN s[at] ELSE <<>>) \o delta
  /\ \A i \in Texts(d) : i # at => t[i] = s[i]

UttersAt(f, d, delta, at) ==
  /\ at \in Texts(f) /\ Texts(f) = Texts(d) \cup {at}
  /\ \/ at = d.text.at /\ Opened(f.out) = Opened(d.out)
     \/ \E ev : ev.index = at /\ Opened(f.out) = Opened(d.out) \cup {ev}
  /\ \A s, t : Speaks(d, s) /\ SpokenOn(t, s, d, at, delta) => Speaks(f, t)

LEMMA GrownTexts ==
  ASSUME NEW d, TextOK(d.text, d.content), ContentOK(d.content),
         NEW delta, NEW g, TextGrown(g, d, delta)
  PROVE  /\ g.text.at # 0 /\ g.text.at \in Texts(g) /\ Texts(g) = Texts(d) \cup {g.text.at}
         /\ g.text.at \in 1..Len(g.content)
         /\ \A i \in Texts(d) : g.content[i] = d.content[i]
         /\ d.text.at # 0 => g.text.at \in Texts(d)
         /\ d.text.at = 0 => \A i \in Texts(d) : i < g.text.at
<1> DEFINE at == g.text.at
           n == Len(d.content)
<1>1. n \in Nat /\ d.text.at \in 0..n /\ (d.text.at # 0 => d.content[d.text.at].kind = "text")
  BY ContentFacts DEF TextOK
<1>2. CASE d.text.at # 0
  <2>1. at = d.text.at /\ g.content = d.content /\ d.text.at \in 1..n
    BY <1>1, <1>2 DEF TextGrown
  <2>2. at \in Texts(d) /\ Texts(g) = Texts(d)
    BY <1>1, <1>2, <2>1 DEF Texts
  <2> QED BY <1>1, <1>2, <2>1, <2>2
<1>3. CASE d.text.at = 0
  <2> DEFINE c == Append(d.content, TextBlock)
  <2>1. at = n + 1 /\ g.content = c
    BY <1>3 DEF TextGrown
  <2>2. BlockOK(TextBlock) /\ TextBlock.kind = "text"
    <3>1. <<>> \in Seq(Bytes)
      OBVIOUS
    <3> QED BY <3>1 DEF BlockOK, TextBlock, Kinds
  <2>3. /\ Len(c) = n + 1 /\ c[n + 1] = TextBlock /\ \A i \in 1..n : c[i] = d.content[i]
    BY <2>2, BlockAdded
  <2> HIDE DEF c
  <2>4. \A i \in 1..(n + 1) : i = n + 1 \/ i \in 1..n
    BY <1>1
  <2>5. n + 1 \in 1..(n + 1) /\ \A i \in 1..n : i \in 1..(n + 1)
    BY <1>1
  <2>6. Texts(g) = Texts(d) \cup {at}
    BY <2>1, <2>2, <2>3, <2>4, <2>5 DEF Texts
  <2>7. \A i \in Texts(d) : i \in 1..n /\ i < at
    BY <1>1, <2>1 DEF Texts
  <2>8. at \in 1..Len(g.content) /\ at # 0
    BY <1>1, <2>1, <2>3, <2>5
  <2> QED BY <1>3, <2>1, <2>3, <2>6, <2>7, <2>8
<1> QED BY <1>2, <1>3

LEMMA SpokenIsScannable ==
  ASSUME NEW d, TextOK(d.text, d.content), ContentOK(d.content), NEW s, Speaks(d, s)
  PROVE  Scannable(d.text) /\ (d.text.at # 0 => s[d.text.at] = d.text.buf /\ IsLast(d, d.text.at))
<1>1. d.text.buf \in Seq(Bytes) /\ Len(d.content) \in Nat /\ d.text.at \in 0..Len(d.content)
  BY ContentFacts DEF TextOK
<1>2. CASE d.text.at # 0
  <2>1. d.text.at \in Texts(d)
    BY <1>1, <1>2 DEF TextOK, Texts
  <2>2. Says(d, d.text.at, s[d.text.at]) /\ IsLast(d, d.text.at)
    BY <1>2, <2>1 DEF Speaks
  <2> DEFINE said == s[d.text.at]
  <2>3. Says(d, d.text.at, said)
    BY <2>2
  <2> HIDE DEF said
  <2>4. said = d.text.buf /\ Settling(d.text)
    BY <2>3 DEF Says
  <2>5. Scannable(d.text)
    BY <1>1, <2>4 DEF Scannable, Settling
  <2> QED BY <2>2, <2>4, <2>5 DEF said
<1>3. CASE d.text.at = 0
  <2>1. d.text.buf = <<>> /\ d.text.sent = 0 /\ Len(d.text.buf) = 0
    BY <1>3 DEF TextOK
  <2> DEFINE buf == d.text.buf
  <2>2. buf = <<>>
    BY <2>1
  <2> HIDE DEF buf
  <2>3. Hits(buf, 0) = {}
    BY <2>2, NothingHasNoHits
  <2>4. Scannable(d.text)
    BY <1>1, <2>1, <2>3 DEF Scannable, Withheld, IsBoundary, buf
  <2> QED BY <1>3, <2>4
<1> QED BY <1>2, <1>3

(* The text the scan left open, or cut.                                    *)
LEMMA ScannedSays ==
  ASSUME NEW text, Scannable(text), NEW delta, Whole(delta), NEW f, NEW g,
         Scanned(f, g), g.text.buf = text.buf \o delta, g.text.sent = text.sent
  PROVE  \/ \E upto : TextTold(f, g, upto) /\ Settling(f.text) /\ f.text.buf = g.text.buf
         \/ \E hit : TextCut(f, g, hit) /\ CutSays(g.text.buf, hit)
<1> DEFINE whole == g.text.buf
           hits == Hits(whole, text.sent)
<1>1. /\ text.buf \in Seq(Bytes) /\ delta \in Seq(Bytes) /\ whole \in Seq(Bytes)
      /\ Len(whole) = Len(text.buf) + Len(delta) /\ Len(text.buf) \in Nat
      /\ Len(delta) \in Nat /\ Len(whole) \in Nat
      /\ text.sent \in 0..Len(text.buf)
      /\ Hits(text.buf, 0) = {}
      /\ text.sent = 0 \/ text.sent + (Longest - 1) <= Len(text.buf)
  BY DEF Scannable, Whole, Withheld
<1>2. hits = Hits(whole, 0)
  <2> DEFINE buf == text.buf
             from == text.sent
  <2> HIDE DEF buf, from
  <2>1. /\ buf \in Seq(Bytes) /\ from \in 0..Len(buf) /\ Hits(buf, 0) = {}
        /\ from = 0 \/ from + (Longest - 1) <= Len(buf)
    BY <1>1 DEF buf, from
  <2>2. Hits(buf \o delta, from) = Hits(buf \o delta, 0)
    BY <1>1, <2>1, HoldbackIsEnough
  <2> QED BY <2>2 DEF buf, from
<1> HIDE DEF whole
<1>3. CASE Patterns = <<>>
  <2>1. TextTold(f, g, Len(whole))
    BY <1>3 DEF Scanned, whole
  <2>2. f.text.buf = whole /\ f.text.sent = Len(whole)
    BY <1>1, <2>1 DEF TextTold, whole
  <2>3. Settling(f.text)
    BY <1>1, <1>3, <2>2, AllToldSettles
  <2> QED BY <2>1, <2>2, <2>3 DEF whole
<1>4. CASE Patterns # <<>> /\ hits = {}
  <2> DEFINE safe == SafeLength(whole, text.sent)
  <2>1. TextTold(f, g, safe)
    BY <1>4 DEF Scanned, whole
  <2> HIDE DEF safe
  <2>2. f.text.buf = whole /\ f.text.sent = IF safe <= text.sent THEN text.sent ELSE safe
    BY <2>1 DEF TextTold, whole
  <2>3. whole = text.buf \o delta /\ Hits(whole, 0) = {} /\ safe = SafeLength(whole, text.sent)
    BY <1>2, <1>4 DEF whole, safe
  <2> DEFINE after == f.text
  <2> HIDE DEF after
  <2>4. after.buf = whole /\ after.sent = IF safe <= text.sent THEN text.sent ELSE safe
    BY <2>2 DEF after
  <2>5. Settling(after)
    BY <1>4, <2>3, <2>4, ScanSettles
  <2> QED BY <2>1, <2>2, <2>5 DEF whole, after
<1>5. CASE Patterns # <<>> /\ hits # {}
  <2>1. TextCut(f, g, Min(hits))
    BY <1>5 DEF Scanned, whole
  <2>2. CutSays(whole, Min(hits))
    <3> HIDE DEF hits
    <3> QED BY <1>1, <1>2, <1>5, CutIsSaid
  <2> QED BY <2>1, <2>2 DEF whole
<1> QED BY <1>3, <1>4, <1>5

LEMMA TextSpeaks ==
  ASSUME NEW d, TextOK(d.text, d.content), ContentOK(d.content), d.cut = FALSE,
         NEW delta, Whole(delta), NEW f, TextDecoded(f, d, delta)
  PROVE  \E at : UttersAt(f, d, delta, at)
<1>1. PICK g : TextGrown(g, d, delta) /\ Scanned(f, g)
  BY DEF TextDecoded
<1> DEFINE at == g.text.at
           whole == g.text.buf
<1>2. /\ at # 0 /\ at \in Texts(g) /\ Texts(g) = Texts(d) \cup {at} /\ at \in 1..Len(g.content)
      /\ \A i \in Texts(d) : g.content[i] = d.content[i]
      /\ d.text.at # 0 => at \in Texts(d)
      /\ d.text.at = 0 => \A i \in Texts(d) : i < at
  BY <1>1, GrownTexts
<1>3. /\ g.cut = FALSE /\ whole = d.text.buf \o delta /\ g.text.sent = d.text.sent
      /\ at = IF d.text.at # 0 THEN d.text.at ELSE Len(d.content) + 1
  BY <1>1 DEF TextGrown
<1>4. d.text.buf \in Seq(Bytes) /\ delta \in Seq(Bytes) /\ Len(d.content) \in Nat
  BY ContentFacts DEF TextOK, Whole
<1>5. \A i \in Texts(d) : i \in 1..Len(d.content) /\ i \in Nat
  BY <1>4 DEF Texts
<1>6. \/ \E upto : TextTold(f, g, upto)
      \/ \E hit : TextCut(f, g, hit)
  BY <1>1 DEF Scanned
<1> HIDE DEF at, whole
<1>7. Texts(f) = Texts(g) /\ Opened(f.out) = Opened(g.out)
  BY <1>6 DEF TextTold, TextCut, Reshaped, Texts
<1>8. \A i \in Texts(d) : i # at => f.content[i] = d.content[i]
  <2>1. \A i \in Texts(d) : i \in 1..Len(g.content)
    BY <1>2 DEF Texts
  <2> QED BY <1>2, <1>6, <2>1 DEF TextTold, TextCut, at
<1>9. ASSUME NEW s, NEW t, Speaks(d, s), SpokenOn(t, s, d, at, delta)
      PROVE  Speaks(f, t)
  <2>1. Scannable(d.text) /\ (d.text.at # 0 => s[d.text.at] = d.text.buf /\ IsLast(d, d.text.at))
    BY <1>9, SpokenIsScannable
  <2>2. IsLast(f, at) /\ \A i \in Texts(d) : i # at => ~IsLast(f, i)
    <3>1. \A i \in Texts(d) : i <= at
      BY <1>2, <1>3, <1>5, <2>1 DEF IsLast
    <3>2. at \in Nat
      BY <1>3, <1>4 DEF TextOK
    <3> QED BY <1>2, <1>5, <1>7, <3>1, <3>2 DEF IsLast
  <2>3. t[at] = whole
    <3>1. CASE d.text.at # 0
      BY <1>2, <1>3, <1>9, <2>1, <3>1 DEF SpokenOn
    <3>2. CASE d.text.at = 0
      <4> DEFINE nothing == <<>>
      <4>1. d.text.buf = nothing
        BY <3>2 DEF TextOK
      <4>2. t[at] = nothing \o delta
        <5>1. at \notin Texts(d)
          BY <1>2, <1>5, <3>2
        <5> QED BY <1>9, <5>1 DEF SpokenOn
      <4> QED BY <1>3, <4>1, <4>2
    <3> QED BY <3>1, <3>2
  <2>4. \A i \in Texts(d) : i # at => t[i] = s[i]
    BY <1>9 DEF SpokenOn
  <2>5. ASSUME NEW i \in Texts(d), i # at, f.text.at # i PROVE Says(f, i, t[i])
    <3> DEFINE said == s[i]
    <3>1. Says(d, i, said) /\ i # d.text.at
      <4>1. Says(d, i, said)
        BY <1>9, <2>5 DEF Speaks
      <4>2. i # d.text.at
        <5>1. i \in 1..Len(d.content) /\ i # 0
          BY <1>4, <1>5, <2>5
        <5> QED BY <1>3, <2>5, <5>1
      <4> QED BY <4>1, <4>2
    <3> HIDE DEF said
    <3>2. ClosedSays(d, i, said) /\ f.content[i] = d.content[i] /\ ~IsLast(f, i)
      BY <1>8, <2>2, <2>5, <3>1 DEF Says
    <3>3. ClosedSays(f, i, said)
      BY <3>2 DEF ClosedSays
    <3>4. Says(f, i, said)
      BY <2>5, <3>3 DEF Says
    <3> QED BY <2>4, <2>5, <3>4 DEF said
  <2>6. ASSUME Says(f, at, whole), f.text.at \in {0, at} PROVE \A i \in Texts(f) : Says(f, i, t[i])
    <3> TAKE i \in Texts(f)
    <3>1. CASE i = at
      BY <2>3, <2>6, <3>1
    <3>2. CASE i # at
      <4>1. i \in Texts(d) /\ i # 0
        BY <1>2, <1>5, <1>7, <3>2 DEF Texts
      <4> QED BY <2>5, <2>6, <3>2, <4>1
    <3> QED BY <3>1, <3>2
  <2>7. \/ \E upto : TextTold(f, g, upto) /\ Settling(f.text) /\ f.text.buf = whole
        \/ \E hit : TextCut(f, g, hit) /\ CutSays(whole, hit)
    <3> DEFINE text == d.text
    <3> HIDE DEF text
    <3>1. Scannable(text) /\ g.text.buf = text.buf \o delta /\ g.text.sent = text.sent
      BY <1>3, <2>1 DEF text, whole
    <3> QED BY <1>1, <3>1, ScannedSays DEF whole
  <2>8. CASE \E upto : TextTold(f, g, upto) /\ Settling(f.text) /\ f.text.buf = whole
    <3>1. f.cut = FALSE /\ f.text.at = at /\ Settling(f.text) /\ f.text.buf = whole
      BY <1>3, <2>8 DEF TextTold, at
    <3>2. Says(f, at, whole)
      BY <3>1 DEF Says
    <3> QED BY <2>2, <2>6, <3>1, <3>2 DEF Speaks
  <2>9. CASE \E hit : TextCut(f, g, hit) /\ CutSays(whole, hit)
    <3>1. PICK hit : TextCut(f, g, hit) /\ CutSays(whole, hit)
      BY <2>9
    <3>2. /\ f.cut = TRUE /\ f.text.at = 0 /\ f.stopSequence = StopAt(whole, hit)
          /\ f.content[at].body = SubSeq(whole, 1, hit)
      BY <3>1 DEF TextCut, at, whole
    <3>3. ClosedSays(f, at, whole)
      <4> DEFINE body == f.content[at].body
                 stop == f.stopSequence
      <4>1. /\ Hits(body, 0) = {} /\ IsBoundary(whole, Len(body)) /\ IsSeq(stop)
            /\ IsPrefix(body \o stop, whole)
        BY <3>1, <3>2 DEF CutSays
      <4> QED BY <2>2, <3>2, <4>1 DEF ClosedSays
    <3>4. Says(f, at, whole)
      BY <1>2, <3>2, <3>3 DEF Says
    <3> QED BY <2>6, <3>2, <3>4 DEF Speaks
  <2> QED BY <2>7, <2>8, <2>9
<1>10. \/ at = d.text.at /\ Opened(f.out) = Opened(d.out)
       \/ \E ev : ev.index = at /\ Opened(f.out) = Opened(d.out) \cup {ev}
  <2>1. CASE d.text.at # 0
    BY <1>1, <1>3, <1>7, <2>1 DEF TextGrown
  <2>2. CASE d.text.at = 0
    <3>1. at = Len(d.content) + 1
      BY <1>3, <2>2
    <3> QED BY <1>1, <1>7, <2>2, <3>1 DEF TextGrown
  <2> QED BY <2>1, <2>2
<1> QED BY <1>2, <1>7, <1>9, <1>10 DEF UttersAt

(* What comes before and after the text leaves what was said.              *)
LEMMA SpeaksAfter ==
  ASSUME NEW d, NEW g, NEW f, NEW delta, NEW at, Carries(g, d), UttersAt(f, g, delta, at),
         0 \notin Texts(f)
  PROVE  UttersAt(f, d, delta, at)
<1>1. /\ Texts(g) = Texts(d) /\ Opened(g.out) = Opened(d.out) /\ g.text.at \in {0, d.text.at}
      /\ \A s : Speaks(d, s) => Speaks(g, s)
  BY DEF Carries
<1>2. \A s, t : SpokenOn(t, s, d, at, delta) => SpokenOn(t, s, g, at, delta)
  BY <1>1 DEF SpokenOn
<1>3. at \in Texts(f) /\ at # 0 /\ Texts(f) = Texts(g) \cup {at}
  BY DEF UttersAt
<1>4. \A s, t : Speaks(d, s) /\ SpokenOn(t, s, d, at, delta) => Speaks(f, t)
  BY <1>1, <1>2 DEF UttersAt
<1>5. \/ at = d.text.at /\ Opened(f.out) = Opened(d.out)
      \/ \E ev : ev.index = at /\ Opened(f.out) = Opened(d.out) \cup {ev}
  BY <1>1, <1>3 DEF UttersAt
<1> QED BY <1>1, <1>3, <1>4, <1>5 DEF UttersAt

LEMMA SpeaksBefore ==
  ASSUME NEW d, NEW g, NEW f, NEW delta, NEW at, UttersAt(g, d, delta, at), Carries(f, g)
  PROVE  UttersAt(f, d, delta, at)
<1>1. /\ Texts(f) = Texts(g) /\ Opened(f.out) = Opened(g.out)
      /\ \A s : Speaks(g, s) => Speaks(f, s)
  BY DEF Carries
<1> QED BY <1>1 DEF UttersAt

(* A frame is heard: its text, if it has any, is said of one block.        *)
Heard(f, d, delta) ==
  /\ delta = <<>> => Carries(f, d)
  /\ delta # <<>> /\ d.cut = FALSE => \E at : UttersAt(f, d, delta, at)

(* An event that opens and closes nothing, of thinking or of a call, and   *)
(* what the decoder may change beside it.                                  *)
Aside(f, d) ==
  /\ DOMAIN f = DOMAIN d /\ f.text = d.text /\ f.finished = d.finished
  /\ Reshaped(f.content, d.content)
  /\ \A n \in 1..Len(d.content) : d.content[n].kind = "text" => f.content[n] = d.content[n]
  /\ ThinkOK(f.think, d.content) /\ f.think.at = d.think.at
  /\ ToolsOK(f.tools, d.content)

LEMMA AsideIsSeen ==
  ASSUME NEW v, NEW d, NEW shut, DecOK(d), Sees(v, d, shut), NEW f, Aside(f, d),
         NEW w, w.kinds = v.kinds, w.told = v.told, w.text = v.text, w.think = v.think,
         w.shut = v.shut, w.over = v.over
  PROVE  DecOK(f) /\ Sees(w, f, shut)
<1>1. DecOK(f)
  <2>1. ContentOK(d.content) /\ TextOK(d.text, d.content)
    BY DEF DecOK
  <2>2. /\ TextOK(d.text, f.content) /\ ThinkOK(f.think, f.content)
        /\ ToolsOK(f.tools, f.content)
    BY <2>1, ReshapedKeeps DEF Aside
  <2> QED BY <2>2 DEF DecOK, Aside, Reshaped
<1>2. /\ Len(f.content) = Len(d.content)
      /\ \A n \in 1..Len(d.content) : f.content[n].kind = d.content[n].kind
  BY DEF Aside, Reshaped
<1>3. SeesText(w, f)
  <2> SUFFICES ASSUME NEW n \in 1..Len(d.content), d.content[n].kind = "text"
               PROVE  w.told[n] = Told(f, n)
    BY <1>2 DEF SeesText
  <2>1. v.told[n] = Told(d, n)
    BY DEF Sees, SeesText
  <2>2. Told(f, n) = Told(d, n)
    BY DEF Told, Aside
  <2> QED BY <2>1, <2>2
<1>4. /\ v.over = FALSE /\ v.shut = shut /\ v.text = d.text.at /\ v.think = d.think.at
      /\ Len(v.kinds) = Len(d.content)
      /\ \A n \in 1..Len(d.content) : v.kinds[n] = d.content[n].kind
  BY DEF Sees
<1>5. f.text.at = d.text.at /\ f.think.at = d.think.at
  BY DEF Aside
<1>6. Sees(w, f, shut)
  BY <1>2, <1>3, <1>4, <1>5 DEF Sees
<1> QED BY <1>1, <1>6

LEMMA AsideFine ==
  ASSUME NEW E, NEW C, NEW v, NEW d, NEW shut, Fine(E, C, v, d, shut),
         NEW f, Aside(f, d), f.out = d.out
  PROVE  Fine(E, C, v, f, shut)
<1>1. DecOK(d) /\ Sees(v, d, shut)
  BY DEF Fine
<1>2. DecOK(f) /\ Sees(v, f, shut)
  BY <1>1, AsideIsSeen
<1> QED BY <1>2, FineStays

LEMMA AsideTells ==
  ASSUME NEW E, NEW C, NEW v, NEW d, NEW shut, Fine(E, C, v, d, shut),
         NEW f, Aside(f, d), NEW ev, f.out = Append(d.out, ev), ValidEvent(ev), InPlace(v, ev),
         ev.kind \in {"thinking_delta", "thinking_signature", "toolcall_delta"}
  PROVE  Fine(E, C, After(v, ev), f, shut)
<1> DEFINE w == After(v, ev)
<1>1. DecOK(d) /\ Sees(v, d, shut) /\ Orderly(v)
  BY DEF Fine
<1>2. /\ w.kinds = v.kinds /\ w.told = v.told /\ w.text = v.text /\ w.think = v.think
      /\ w.shut = v.shut /\ w.over = v.over
  BY <1>1, AfterLittle
<1> HIDE DEF w
<1>3. DecOK(f) /\ Sees(w, f, shut)
  BY <1>1, <1>2, AsideIsSeen
<1> QED BY <1>3, FineTells DEF w

(* The text and the calls are left alone.                                  *)
Thinks(f, d) == f.tools = d.tools /\ f.text = d.text /\ f.stop = d.stop /\ TextKept(f, d)

LEMMA AsideKept ==
  ASSUME NEW d, NEW f, Aside(f, d), Beside(f, d)
  PROVE  TextKept(f, d)
BY ReshapedKept DEF Aside

LEMMA ThinkingBlockOK ==
  ASSUME NEW think, think.redacted \in BOOLEAN
  PROVE  BlockOK(ThinkingBlock(think)) /\ ThinkingBlock(think).kind = "thinking"
BY DEF BlockOK, ThinkingBlock, Kinds

LEMMA OpenThinkingFine ==
  ASSUME NEW E, NEW C, NEW v, NEW d, Fine(E, C, v, d, {}),
         NEW frame, frame.redacted \in BOOLEAN
  PROVE  /\ Thinks(OpenThinking(d, frame), d) /\ OpenThinking(d, frame).think.at # 0
         /\ \E w : Fine(E, C, w, OpenThinking(d, frame), {})
<1> DEFINE f == OpenThinking(d, frame)
           n == Len(d.content)
           fresh == [NoThinking EXCEPT !.redacted = frame.redacted]
           block == ThinkingBlock(fresh)
           c == Append(d.content, block)
           ev == Event("thinking_start", n + 1, c[n + 1])
<1>1. DecFields \subseteq DOMAIN d /\ ContentOK(d.content) /\ n \in Nat
  BY ContentFacts DEF Fine, DecOK
<1>2. CASE d.think.at # 0
  BY <1>2, KeptItself DEF OpenThinking, Thinks
<1>3. CASE d.think.at = 0
  <2>1. fresh.redacted \in BOOLEAN /\ DOMAIN fresh = {"at", "body", "sig", "redacted"}
    BY DEF NoThinking
  <2>2. f = Tell([d EXCEPT !.content = c, !.think = [fresh EXCEPT !.at = n + 1]],
                 "thinking_start", n + 1)
    BY <1>3 DEF OpenThinking
  <2> HIDE DEF fresh
  <2>3. BlockOK(block) /\ block.kind = "thinking" /\ block.redacted \in BOOLEAN
    BY <2>1, ThinkingBlockOK DEF ThinkingBlock
  <2> HIDE DEF block
  <2>4. ContentOK(c) /\ Len(c) = n + 1 /\ c[n + 1] = block
    BY <1>1, <2>3, BlockAdded
  <2> HIDE DEF c
  <2>5. /\ DOMAIN f = DOMAIN d /\ f.content = c /\ f.text = d.text /\ f.tools = d.tools
        /\ f.stop = d.stop /\ f.finished = d.finished
        /\ f.cut = d.cut /\ f.stopSequence = d.stopSequence
        /\ f.think = [fresh EXCEPT !.at = n + 1] /\ f.out = Append(d.out, ev)
    BY <1>1, <2>2 DEF Tell, DecFields
  <2>6. ev.kind = "thinking_start" /\ ev.index = n + 1 /\ ev.block = block
    BY <2>4, EventIs
  <2> HIDE DEF ev, f
  <2>7. ThinkOK(f.think, f.content) /\ f.think.at = n + 1
    <3>1. /\ DOMAIN f.think = DOMAIN fresh /\ f.think.at = n + 1
          /\ f.think.redacted \in BOOLEAN
      BY <2>1, <2>5
    <3> QED BY <1>1, <2>1, <2>3, <2>4, <2>5, <3>1 DEF ThinkOK
  <2>8. Opens(f, d, "thinking", block, ev)
    <3>1. f.content = Append(d.content, block)
      BY <2>5 DEF c
    <3> QED BY <1>3, <2>3, <2>5, <2>6, <2>7, <3>1 DEF Opens
  <2>9. \E w : Fine(E, C, w, f, {})
    BY <2>8, BlockOpens
  <2>10. Thinks(f, d) /\ f.think.at # 0
    <3>1. IsSeq(d.out)
      BY DEF Fine, Matched
    <3>2. Opened(f.out) = Opened(d.out)
      BY <2>5, <2>6, <3>1, OpenedGrows
    <3>3. Beside(f, d)
      BY <2>5, <3>2 DEF Beside
    <3>4. f.content = Append(d.content, block)
      BY <2>5 DEF c
    <3>5. TextKept(f, d)
      BY <1>1, <2>3, <3>3, <3>4, AddedKept
    <3> QED BY <1>1, <2>5, <2>7, <3>5 DEF Thinks
  <2> QED BY <2>9, <2>10 DEF f
<1> QED BY <1>2, <1>3

LEMMA DecodeThinkingFine ==
  ASSUME NEW E, NEW C, NEW v, NEW d, Fine(E, C, v, d, {}),
         NEW frame, frame.redacted \in BOOLEAN
  PROVE  /\ Thinks(DecodeThinking(d, frame), d)
         /\ \E w : Fine(E, C, w, DecodeThinking(d, frame), {})
<1> DEFINE open == OpenThinking(d, frame)
           grown == [open EXCEPT !.think.body = @ \o frame.think,
                                 !.think.sig = @ \o frame.sig,
                                 !.think.redacted = @ \/ frame.redacted]
           f == DecodeThinking(d, frame)
<1>1. Thinks(open, d) /\ open.think.at # 0 /\ \E w : Fine(E, C, w, open, {})
  BY OpenThinkingFine
<1>2. f = IF frame.think = <<>> THEN grown
          ELSE TellDelta(grown, "thinking_delta", grown.think.at, frame.think)
  BY DEF DecodeThinking
<1> HIDE DEF open
<1>3. PICK w : Fine(E, C, w, open, {})
  BY <1>1
<1>4. /\ DecFields \subseteq DOMAIN open /\ ContentOK(open.content)
      /\ ThinkOK(open.think, open.content) /\ ToolsOK(open.tools, open.content)
  BY <1>3 DEF Fine, DecOK
<1> DEFINE i == open.think.at
<1>5. i \in 1..Len(open.content) /\ open.content[i].kind = "thinking"
  <2>1. Len(open.content) \in Nat
    BY <1>4, ContentFacts
  <2> QED BY <1>1, <1>4, <2>1 DEF ThinkOK
<1>6. /\ DOMAIN grown = DOMAIN open /\ grown.content = open.content /\ grown.text = open.text
      /\ grown.tools = open.tools /\ grown.stop = open.stop
      /\ grown.cut = open.cut /\ grown.stopSequence = open.stopSequence
      /\ grown.finished = open.finished /\ grown.out = open.out
      /\ grown.think.at = i /\ DOMAIN grown.think = DOMAIN open.think
      /\ grown.think.redacted \in BOOLEAN
  <2> DEFINE think == [open.think EXCEPT !.body = @ \o frame.think, !.sig = @ \o frame.sig,
                                         !.redacted = @ \/ frame.redacted]
  <2>1. /\ DOMAIN grown = DOMAIN open /\ grown.content = open.content /\ grown.text = open.text
        /\ grown.tools = open.tools /\ grown.stop = open.stop
        /\ grown.cut = open.cut /\ grown.stopSequence = open.stopSequence
        /\ grown.finished = open.finished /\ grown.out = open.out
        /\ grown.think = think
    BY <1>4 DEF DecFields
  <2>2. /\ think.at = i /\ DOMAIN think = DOMAIN open.think
        /\ think.redacted = (open.think.redacted \/ frame.redacted)
    BY <1>4 DEF ThinkOK
  <2>3. (open.think.redacted \/ frame.redacted) \in BOOLEAN
    OBVIOUS
  <2>4. think.redacted \in BOOLEAN
    BY <2>2, <2>3
  <2> HIDE DEF grown, think
  <2> QED BY <2>1, <2>2, <2>4
<1> HIDE DEF grown
<1>7. Aside(grown, open)
  <2>1. Reshaped(open.content, open.content)
    BY <1>4, ReshapedItself
  <2>2. ThinkOK(grown.think, open.content)
    BY <1>4, <1>6 DEF ThinkOK
  <2> QED BY <1>4, <1>6, <2>1, <2>2 DEF Aside
<1>8. Fine(E, C, w, grown, {})
  BY <1>3, <1>6, <1>7, AsideFine
<1>k. TextKept(grown, open) /\ TextKept(open, d)
  <2>1. Beside(grown, open)
    BY <1>6 DEF Beside
  <2> QED BY <1>1, <1>7, <2>1, AsideKept DEF Thinks
<1>9. CASE frame.think = <<>>
  <2>1. TextKept(grown, d)
    BY <1>k, KeptTwice
  <2>2. f = grown
    BY <1>2, <1>9
  <2> HIDE DEF f
  <2>3. Thinks(f, d)
    BY <1>1, <1>6, <2>1, <2>2 DEF Thinks
  <2> QED BY <1>8, <2>2, <2>3 DEF f
<1>10. CASE frame.think # <<>>
  <2> DEFINE ev == [Event("thinking_delta", i, grown.content[i]) EXCEPT !.delta = frame.think]
  <2>1. ev.kind = "thinking_delta" /\ ev.index = i /\ ev.delta = frame.think
    BY EventIs
  <2>2. /\ DOMAIN f = DOMAIN grown /\ f.content = grown.content /\ f.text = grown.text
        /\ f.tools = grown.tools /\ f.stop = grown.stop /\ f.finished = grown.finished
        /\ f.cut = grown.cut /\ f.stopSequence = grown.stopSequence
        /\ f.think = grown.think /\ f.out = Append(grown.out, ev)
    BY <1>2, <1>4, <1>6, <1>10 DEF TellDelta, DecFields
  <2> HIDE DEF ev, f
  <2>3. InPlace(w, ev) /\ ValidEvent(ev)
    <3>1. w.over = FALSE /\ w.think = i
      BY <1>3 DEF Fine, Sees
    <3> QED BY <1>1, <1>10, <2>1, <3>1 DEF InPlace, ValidEvent, EventKinds, Starts
  <2>4. Aside(f, grown)
    BY <1>6, <1>7, <2>2 DEF Aside
  <2>5. Fine(E, C, After(w, ev), f, {})
    BY <1>8, <2>1, <2>2, <2>3, <2>4, AsideTells
  <2>6. Thinks(f, d)
    <3>1. IsSeq(grown.out)
      BY <1>8 DEF Fine, Matched
    <3>2. Opened(f.out) = Opened(grown.out)
      BY <2>1, <2>2, <3>1, OpenedGrows
    <3>3. Beside(f, grown)
      BY <2>2, <3>2 DEF Beside
    <3>4. TextKept(f, grown)
      BY <2>4, <3>3, AsideKept
    <3>5. TextKept(f, d)
      BY <1>k, <3>4, KeptTwice
    <3> QED BY <1>1, <1>6, <2>2, <3>5 DEF Thinks
  <2> QED BY <2>5, <2>6 DEF f
<1> QED BY <1>9, <1>10

LEMMA LateSignatureFine ==
  ASSUME NEW E, NEW C, NEW v, NEW d, Fine(E, C, v, d, {}), d.think.at = 0,
         NEW frame, frame.redacted \in BOOLEAN, frame.sig # <<>>
  PROVE  /\ Thinks(DecodeLateSignature(d, frame), d)
         /\ \E w : Fine(E, C, w, DecodeLateSignature(d, frame), {})
<1> DEFINE f == DecodeLateSignature(d, frame)
           thoughts == {i \in DOMAIN d.content : d.content[i].kind = "thinking"}
           last == Max(thoughts)
           n == Len(d.content)
           alone == [NoThinking EXCEPT !.sig = frame.sig, !.redacted = frame.redacted]
<1>1. /\ DecFields \subseteq DOMAIN d /\ ContentOK(d.content) /\ n \in Nat
      /\ DOMAIN d.content = 1..n /\ ThinkOK(d.think, d.content) /\ ToolsOK(d.tools, d.content)
  BY ContentFacts DEF Fine, DecOK
<1>q. IsSeq(d.out)
  BY DEF Fine, Matched
<1>2. CASE thoughts # {}
  <2> DEFINE block == [d.content[last] EXCEPT !.sig = @ \o frame.sig,
                                              !.redacted = @ \/ frame.redacted]
             c == [d.content EXCEPT ![last] = block]
             ev == [Event("thinking_signature", last, c[last]) EXCEPT !.delta = frame.sig]
  <2>1. thoughts \subseteq Nat /\ \A i \in thoughts : i <= n
    BY <1>1
  <2>2. last \in thoughts
    <3> HIDE DEF thoughts
    <3> QED BY <1>1, <1>2, <2>1, MaxOfNaturals
  <2>3. last \in 1..n /\ d.content[last].kind = "thinking"
    <3> HIDE DEF last
    <3> QED BY <1>1, <2>2
  <2>4. f = TellDelta([d EXCEPT !.content[last].sig = @ \o frame.sig,
                                !.content[last].redacted = @ \/ frame.redacted],
                      "thinking_signature", last, frame.sig)
    BY <1>2 DEF DecodeLateSignature
  <2> HIDE DEF thoughts, last
  <2>5. BlockOK(block) /\ block.kind = d.content[last].kind
    <3> DEFINE old == d.content[last]
               both == old.redacted \/ frame.redacted
    <3>1. /\ BlockOK(old) /\ old.kind = "thinking"
      BY <1>1, <2>3, ContentFacts
    <3> HIDE DEF old
    <3>2. both \in BOOLEAN
      OBVIOUS
    <3> DEFINE new == [old EXCEPT !.sig = @ \o frame.sig, !.redacted = @ \/ frame.redacted]
    <3>3. DOMAIN new = DOMAIN old /\ new.kind = "thinking" /\ new.redacted = both
      BY <3>1 DEF BlockOK
    <3> HIDE DEF both
    <3>4. new.redacted \in BOOLEAN
      BY <3>2, <3>3
    <3> HIDE DEF new
    <3>5. BlockOK(new) /\ new.kind = old.kind
      BY <3>1, <3>3, <3>4 DEF BlockOK
    <3> QED BY <3>5 DEF new, old
  <2>6. f = TellDelta([d EXCEPT !.content = c], "thinking_signature", last, frame.sig)
    BY <1>1, <2>3, <2>4 DEF DecFields
  <2> HIDE DEF block
  <2>7. Reshaped(c, d.content) /\ Replaced(c, d.content, last, block)
    BY <1>1, <2>3, <2>5, BlockReplaced
  <2> HIDE DEF c
  <2>8. /\ DOMAIN f = DOMAIN d /\ f.content = c /\ f.text = d.text /\ f.think = d.think
        /\ f.tools = d.tools /\ f.stop = d.stop /\ f.finished = d.finished
        /\ f.cut = d.cut /\ f.stopSequence = d.stopSequence
        /\ f.out = Append(d.out, ev)
    BY <1>1, <2>6 DEF TellDelta, DecFields
  <2>9. ev.kind = "thinking_signature" /\ ev.index = last /\ ev.delta = frame.sig
    BY EventIs
  <2> HIDE DEF ev, f
  <2>10. Aside(f, d)
    <3>1. \A i \in 1..n : d.content[i].kind = "text" => c[i] = d.content[i]
      BY <2>3, <2>7 DEF Replaced
    <3> QED BY <1>1, <2>7, <2>8, <3>1 DEF Aside
  <2>11. InPlace(v, ev) /\ ValidEvent(ev)
    <3>1. v.over = FALSE /\ last \in 1..Len(v.kinds) /\ v.kinds[last] = "thinking"
      BY <2>3 DEF Fine, Sees
    <3> QED BY <2>9, <3>1 DEF InPlace, ValidEvent, EventKinds, Starts
  <2>12. Fine(E, C, After(v, ev), f, {})
    BY <2>8, <2>9, <2>10, <2>11, AsideTells
  <2>13. Thinks(f, d)
    <3>1. Opened(f.out) = Opened(d.out)
      BY <1>q, <2>8, <2>9, OpenedGrows
    <3>2. Beside(f, d)
      BY <2>8, <3>1 DEF Beside
    <3>3. TextKept(f, d)
      BY <2>10, <3>2, AsideKept
    <3> QED BY <2>8, <3>3 DEF Thinks
  <2> QED BY <2>12, <2>13 DEF f
<1>3. CASE thoughts = {}
  <2> DEFINE block == ThinkingBlock(alone)
             c == Append(d.content, block)
             start == Event("thinking_start", n + 1, c[n + 1])
             end == Event("thinking_end", n + 1, c[n + 1])
             think == [alone EXCEPT !.at = n + 1]
             g == [d EXCEPT !.content = c, !.think = think, !.out = Append(@, start)]
  <2>1. f = Tell(Tell([d EXCEPT !.content = c], "thinking_start", n + 1), "thinking_end", n + 1)
    BY <1>3 DEF DecodeLateSignature
  <2>2. alone.redacted \in BOOLEAN /\ DOMAIN alone = {"at", "body", "sig", "redacted"}
    BY DEF NoThinking
  <2> HIDE DEF alone, thoughts
  <2>3. /\ think.at = n + 1 /\ think.redacted \in BOOLEAN
        /\ DOMAIN think = {"at", "body", "sig", "redacted"}
    BY <2>2
  <2>4. BlockOK(block) /\ block.kind = "thinking" /\ block.redacted \in BOOLEAN
    BY <2>2, ThinkingBlockOK DEF ThinkingBlock
  <2> HIDE DEF block, think
  <2>5. /\ ContentOK(c) /\ Len(c) = n + 1 /\ c[n + 1] = block
        /\ \A i \in 1..n : c[i] = d.content[i]
    BY <1>1, <2>4, BlockAdded
  <2>6. /\ start.kind = "thinking_start" /\ start.index = n + 1 /\ start.block = block
        /\ end.kind = "thinking_end" /\ end.index = n + 1 /\ end.block = block
    BY <2>5, EventIs
  <2>7. c = Append(d.content, block)
    OBVIOUS
  <2> HIDE DEF c
  <2>8. /\ DOMAIN f = DOMAIN d /\ f.content = c /\ f.text = d.text /\ f.think = d.think
        /\ f.tools = d.tools /\ f.stop = d.stop /\ f.finished = d.finished
        /\ f.cut = d.cut /\ f.stopSequence = d.stopSequence
        /\ f.out = Append(Append(d.out, start), end)
    <3> DEFINE a == [d EXCEPT !.content = c]
               b == Tell(a, "thinking_start", n + 1)
    <3>1. /\ DOMAIN a = DOMAIN d /\ a.content = c /\ a.text = d.text /\ a.think = d.think
          /\ a.tools = d.tools /\ a.stop = d.stop /\ a.finished = d.finished /\ a.out = d.out
          /\ a.cut = d.cut /\ a.stopSequence = d.stopSequence
      BY <1>1 DEF DecFields
    <3> HIDE DEF a
    <3>2. /\ DOMAIN b = DOMAIN d /\ b.content = c /\ b.text = d.text /\ b.think = d.think
          /\ b.tools = d.tools /\ b.stop = d.stop /\ b.finished = d.finished
          /\ b.cut = d.cut /\ b.stopSequence = d.stopSequence
          /\ b.out = Append(d.out, start)
      BY <1>1, <3>1 DEF Tell, DecFields
    <3>3. f = Tell(b, "thinking_end", n + 1)
      BY <2>1 DEF a
    <3> HIDE DEF b, start, f
    <3> QED BY <1>1, <3>2, <3>3 DEF Tell, DecFields
  <2>9. /\ DOMAIN g = DOMAIN d /\ g.content = c /\ g.text = d.text /\ g.think = think
        /\ g.tools = d.tools /\ g.stop = d.stop /\ g.finished = d.finished
        /\ g.out = Append(d.out, start)
    BY <1>1 DEF DecFields
  <2> HIDE DEF f, g, start, end
  <2>10. ThinkOK(g.think, c)
    BY <1>1, <2>3, <2>4, <2>5, <2>9 DEF ThinkOK
  <2>11. Opens(g, d, "thinking", block, start)
    BY <2>3, <2>4, <2>6, <2>7, <2>9, <2>10 DEF Opens
  <2>12. PICK w : Fine(E, C, w, g, {})
    BY <2>11, BlockOpens
  <2>13. /\ ThinkOK(f.think, g.content) /\ f.think.at = 0
    BY <1>1, <2>5, <2>8, <2>9 DEF ThinkOK
  <2>14. Reshaped(f.content, g.content)
    BY <2>5, <2>8, <2>9, ReshapedItself
  <2>15. /\ DOMAIN f = DOMAIN g /\ f.text = g.text /\ f.tools = g.tools
         /\ f.finished = g.finished /\ f.content = g.content
         /\ f.out = Append(g.out, end) /\ g.think.at = n + 1 /\ g.think.at # 0
    BY <1>1, <2>3, <2>8, <2>9
  <2>16. \E x : Fine(E, C, x, f, {})
    <3>1. /\ end.kind = "thinking_end" /\ end.index = g.think.at
          /\ end.block.redacted \in BOOLEAN
      BY <2>4, <2>6, <2>15
    <3>2. \A i \in 1..Len(g.content) : i # g.think.at => f.content[i] = g.content[i]
      BY <2>15
    <3> QED BY SMTT(30), <2>12, <2>13, <2>14, <2>15, <3>1, <3>2, ThinkingCloses
  <2>17. Thinks(f, d)
    <3>1. IsSeq(g.out)
      BY <2>12 DEF Fine, Matched
    <3>2. Opened(g.out) = Opened(d.out) /\ Opened(f.out) = Opened(g.out)
      BY <1>q, <2>6, <2>9, <2>15, <3>1, OpenedGrows
    <3>3. Beside(f, d)
      BY <2>8, <3>2 DEF Beside
    <3>4. f.content = Append(d.content, block)
      BY <2>7, <2>8
    <3>5. TextKept(f, d)
      BY <1>1, <2>4, <3>3, <3>4, AddedKept
    <3> QED BY <2>8, <3>5 DEF Thinks
  <2> QED BY <2>16, <2>17 DEF f
<1> QED BY <1>2, <1>3

LEMMA ThoughtsFine ==
  ASSUME NEW E, NEW C, NEW v, NEW d, Fine(E, C, v, d, {}), NEW frame, frame.redacted \in BOOLEAN
  PROVE  /\ DecodeThoughts(d, frame).tools = d.tools /\ DecodeThoughts(d, frame).stop = d.stop
         /\ Carries(DecodeThoughts(d, frame), d)
         /\ \E w : Fine(E, C, w, DecodeThoughts(d, frame), {})
<1>1. CASE frame.sig # <<>> /\ frame.think = <<>> /\ d.think.at = 0
  <2>1. DecodeThoughts(d, frame) = DecodeLateSignature(d, frame)
    BY <1>1 DEF DecodeThoughts
  <2>2. /\ Thinks(DecodeLateSignature(d, frame), d)
        /\ \E w : Fine(E, C, w, DecodeLateSignature(d, frame), {})
    BY <1>1, LateSignatureFine
  <2> QED BY <2>1, <2>2, KeptCarries DEF Thinks
<1>2. CASE /\ ~(frame.sig # <<>> /\ frame.think = <<>> /\ d.think.at = 0)
           /\ frame.think # <<>> \/ frame.redacted \/ frame.sig # <<>>
  <2> DEFINE g == EndText(d)
  <2>1. DecodeThoughts(d, frame) = DecodeThinking(g, frame)
    BY <1>2 DEF DecodeThoughts
  <2>2. TextEnded(g, d) /\ \E w : Fine(E, C, w, g, {})
    BY EndTextFine
  <2> HIDE DEF g
  <2>3. PICK w : Fine(E, C, w, g, {})
    BY <2>2
  <2>4. /\ Thinks(DecodeThinking(g, frame), g)
        /\ \E x : Fine(E, C, x, DecodeThinking(g, frame), {})
    BY <2>3, DecodeThinkingFine
  <2>5. Carries(g, d)
    <3>1. TextOK(d.text, d.content) /\ ContentOK(d.content)
      BY DEF Fine, DecOK
    <3> QED BY <2>2, <3>1, EndTextCarries
  <2> DEFINE f == DecodeThinking(g, frame)
  <2> HIDE DEF f
  <2>6. Carries(f, d)
    <3>1. Carries(f, g)
      BY <2>4, KeptCarries DEF Thinks, f
    <3> QED BY <2>5, <3>1, CarriesTwice
  <2> QED BY <2>1, <2>2, <2>4, <2>6 DEF Thinks, TextEnded, f
<1>3. CASE /\ ~(frame.sig # <<>> /\ frame.think = <<>> /\ d.think.at = 0)
           /\ ~(frame.think # <<>> \/ frame.redacted \/ frame.sig # <<>>)
  <2>1. DecodeThoughts(d, frame) = d
    BY <1>3 DEF DecodeThoughts
  <2>2. Carries(d, d)
    BY KeptItself, KeptCarries
  <2> QED BY <2>1, <2>2
<1> QED BY <1>1, <1>2, <1>3

LEMMA WordsFine ==
  ASSUME NEW E, NEW C, NEW v, NEW d, Fine(E, C, v, d, {}), NEW frame, frame.redacted \in BOOLEAN,
         frame.text \in Seq(Bytes), frame.text # <<>> => Whole(frame.text)
  PROVE  /\ DecodeWords(d, frame).tools = d.tools /\ DecodeWords(d, frame).stop = d.stop
         /\ Heard(DecodeWords(d, frame), d, frame.text)
         /\ \E w : Fine(E, C, w, DecodeWords(d, frame), {})
<1> DEFINE thought == DecodeThoughts(d, frame)
           g == EndThinking(thought)
<1>1. /\ thought.tools = d.tools /\ thought.stop = d.stop /\ Carries(thought, d)
      /\ \E w : Fine(E, C, w, thought, {})
  BY ThoughtsFine
<1>2. DecodeWords(d, frame) = IF frame.text = <<>> THEN thought ELSE DecodeText(g, frame.text)
  BY DEF DecodeWords
<1> HIDE DEF thought
<1>3. PICK w : Fine(E, C, w, thought, {})
  BY <1>1
<1>4. ThinkingEnded(g, thought) /\ \E x : Fine(E, C, x, g, {})
  BY <1>3, EndThinkingFine
<1> HIDE DEF g
<1>5. PICK x : Fine(E, C, x, g, {})
  BY <1>4
<1> DEFINE text == frame.text
<1>6. text \in Seq(Bytes)
  OBVIOUS
<1> HIDE DEF text
<1> DEFINE f == DecodeText(g, text)
<1> HIDE DEF f
<1>7. Apart(f, g) /\ TextDecoded(f, g, text) /\ \E y : Fine(E, C, y, f, {})
  BY <1>5, <1>6, DecodeTextFine DEF f
<1>8. ASSUME text # <<>>, d.cut = FALSE PROVE \E at : UttersAt(f, d, text, at)
  <2>1. Carries(g, d)
    <3>1. Carries(g, thought)
      BY <1>4, KeptCarries DEF ThinkingEnded
    <3> QED BY <1>1, <3>1, CarriesTwice
  <2>2. g.cut = FALSE
    BY <1>8, <2>1 DEF Carries
  <2>3. TextOK(g.text, g.content) /\ ContentOK(g.content) /\ Whole(text)
    BY <1>5, <1>8 DEF Fine, DecOK, text
  <2>4. PICK at : UttersAt(f, g, text, at)
    BY <1>7, <2>2, <2>3, TextSpeaks
  <2>5. 0 \notin Texts(f)
    BY DEF Texts
  <2>6. UttersAt(f, d, text, at)
    BY <2>1, <2>4, <2>5, SpeaksAfter
  <2> QED BY <2>6
<1>9. CASE text = <<>>
  <2>1. DecodeWords(d, frame) = thought
    BY <1>2, <1>9 DEF text
  <2>2. Heard(thought, d, text)
    BY <1>1, <1>9 DEF Heard
  <2> QED BY <1>1, <2>1, <2>2 DEF text
<1>10. CASE text # <<>>
  <2>1. DecodeWords(d, frame) = f
    BY <1>2, <1>10 DEF text, f
  <2>2. Heard(f, d, text)
    BY <1>8, <1>10 DEF Heard
  <2>3. f.tools = d.tools /\ f.stop = d.stop
    BY <1>1, <1>4, <1>7 DEF Apart, ThinkingEnded
  <2> QED BY <1>7, <2>1, <2>2, <2>3 DEF text
<1> QED BY <1>9, <1>10

-----------------------------------------------------------------------------
(* A delta of a call.                                                      *)

LEMMA ToolReplaced ==
  ASSUME NEW content, NEW tools, ToolsOK(tools, content), NEW k \in 1..Len(tools),
         NEW tool, ToolOK(tool, content), tool.at = tools[k].at
  PROVE  /\ ToolsOK([tools EXCEPT ![k] = tool], content)
         /\ Replaced([tools EXCEPT ![k] = tool], tools, k, tool)
<1> DEFINE ts == [tools EXCEPT ![k] = tool]
<1>1. Replaced(ts, tools, k, tool)
  BY SeqExcept DEF ToolsOK
<1> HIDE DEF ts
<1>2. /\ IsSeq(ts) /\ Len(ts) = Len(tools) /\ ts[k] = tool
      /\ \A j \in 1..Len(tools) : j # k => ts[j] = tools[j]
  BY <1>1 DEF Replaced
<1>3. \A j \in 1..Len(tools) : ts[j].at = tools[j].at
  BY <1>2
<1>4. \A j \in 1..Len(tools) : ToolOK(ts[j], content)
  BY <1>2 DEF ToolsOK
<1>5. ToolsOK(ts, content)
  BY <1>2, <1>3, <1>4 DEF ToolsOK
<1> QED BY <1>1, <1>5 DEF ts

LEMMA ToolAdded ==
  ASSUME NEW content, ContentOK(content), NEW tools, ToolsOK(tools, content),
         NEW block, BlockOK(block), block.kind = "tool",
         NEW tool, ToolShape(tool), tool.at = Len(content) + 1
  PROVE  ToolsOK(Append(tools, tool), Append(content, block))
<1> DEFINE ts == Append(tools, tool)
           c == Append(content, block)
           n == Len(content)
           m == Len(tools)
<1>1. /\ n \in Nat /\ Len(c) = n + 1 /\ c[n + 1] = block
      /\ \A i \in 1..n : c[i] = content[i]
  BY BlockAdded, ContentFacts
<1>2. \A t : ToolOK(t, content) => ToolOK(t, c)
  BY AddedKeeps
<1>3. /\ m \in Nat /\ IsSeq(ts) /\ Len(ts) = m + 1 /\ ts[m + 1] = tool
      /\ \A k \in 1..m : ts[k] = tools[k]
  BY SeqAppend, SeqFacts DEF ToolsOK
<1> HIDE DEF ts, c
<1>4. \A k \in 1..m : ToolOK(tools[k], content) /\ tools[k].at \in 1..n
  BY DEF ToolsOK, ToolOK
<1>5. \A k \in 1..Len(ts) : k = m + 1 \/ k \in 1..m
  BY <1>3
<1>6. \A k \in 1..Len(ts) : ToolOK(ts[k], c)
  <2> TAKE k \in 1..Len(ts)
  <2>1. CASE k = m + 1
    BY <1>1, <1>3, <2>1 DEF ToolOK
  <2>2. CASE k \in 1..m
    BY <1>2, <1>3, <1>4, <2>2
  <2> QED BY <1>5, <2>1, <2>2
<1>7. \A j, k \in 1..Len(ts) : ts[j].at = ts[k].at => j = k
  <2> TAKE j, k \in 1..Len(ts)
  <2>1. CASE j \in 1..m /\ k \in 1..m
    BY <1>3, <2>1 DEF ToolsOK
  <2>2. CASE j = m + 1 /\ k \in 1..m
    BY <1>1, <1>3, <1>4, <2>2
  <2>3. CASE j \in 1..m /\ k = m + 1
    BY <1>1, <1>3, <1>4, <2>3
  <2> QED BY <1>5, <2>1, <2>2, <2>3
<1>8. \A i \in 1..Len(c) : c[i].kind = "tool" => \E k \in 1..Len(ts) : ts[k].at = i
  <2> TAKE i \in 1..Len(c)
  <2>1. CASE i = n + 1
    <3>1. m + 1 \in 1..Len(ts)
      BY <1>3
    <3> QED BY <1>3, <2>1, <3>1
  <2>2. CASE i \in 1..n
    <3> HAVE c[i].kind = "tool"
    <3>1. PICK k \in 1..m : tools[k].at = i
      BY <1>1, <2>2 DEF ToolsOK
    <3>2. k \in 1..Len(ts) /\ ts[k].at = i
      BY <1>3, <3>1
    <3> QED BY <3>2
  <2> QED BY <1>1, <2>1, <2>2
<1> QED BY <1>3, <1>6, <1>7, <1>8 DEF ToolsOK, ts, c

(* What a delta makes of a call.                                           *)
WithTool(d, k, tool) == [d EXCEPT !.tools = [d.tools EXCEPT ![k] = tool]]
Filled(tool, delta) ==
  IF ~tool.placeholder \/ delta.id = <<>> THEN tool
  ELSE [tool EXCEPT !.placeholder = FALSE, !.call = [tool.call EXCEPT !.id = delta.id]]
Spelled(tool, delta) ==
  [tool EXCEPT !.call.custom = @ \/ delta.verbatim # <<>>, !.args = @ \o Fragment(delta)]

LEMMA NamedShape ==
  ASSUME NEW tool, ToolShape(tool), NEW delta
  PROVE  /\ ToolShape(Named(tool, delta)) /\ Named(tool, delta).at = tool.at
         /\ Named(tool, delta).placeholder = tool.placeholder
<1> DEFINE wrapped == delta.name \in CustomTools
           name == IF delta.name = "" THEN tool.call.name ELSE delta.name
           custom == tool.call.custom \/ wrapped \/ delta.custom
           call == [tool.call EXCEPT !.name = name, !.custom = custom]
           new == [tool EXCEPT !.call = call, !.wrapped = tool.wrapped \/ wrapped]
<1>1. Named(tool, delta) = new
  BY DEF Named, ToolShape, ToolFields, CallOK, CallFields
<1>2. name # ""
  BY DEF ToolShape, CallOK
<1>3. /\ DOMAIN call = DOMAIN tool.call /\ call.name = name /\ call.kind = tool.call.kind
      /\ call.id = tool.call.id /\ call.custom = custom
  BY DEF ToolShape, CallOK, CallFields
<1> HIDE DEF name
<1>4. CallOK(call)
  BY <1>2, <1>3 DEF ToolShape, CallOK
<1> HIDE DEF call, custom
<1>5. /\ DOMAIN new = DOMAIN tool /\ new.call = call /\ new.eventId = tool.eventId
      /\ new.at = tool.at /\ new.placeholder = tool.placeholder
      /\ new.wrapped = (tool.wrapped \/ wrapped)
  BY DEF ToolShape, ToolFields
<1> HIDE DEF new
<1>6. new.wrapped => custom
  BY <1>5 DEF custom, ToolShape
<1>7. new.wrapped => new.call.custom
  BY <1>3, <1>5, <1>6
<1>8. ToolShape(new)
  BY <1>4, <1>5, <1>7 DEF ToolShape
<1> QED BY <1>1, <1>5, <1>8

LEMMA FilledShape ==
  ASSUME NEW tool, ToolShape(tool), NEW delta
  PROVE  ToolShape(Filled(tool, delta)) /\ Filled(tool, delta).at = tool.at
<1>1. CASE ~tool.placeholder \/ delta.id = <<>>
  BY <1>1 DEF Filled
<1>2. CASE ~(~tool.placeholder \/ delta.id = <<>>)
  <2> DEFINE call == [tool.call EXCEPT !.id = delta.id]
             new == [tool EXCEPT !.placeholder = FALSE, !.call = call]
  <2>1. /\ DOMAIN call = DOMAIN tool.call /\ call.name = tool.call.name
        /\ call.kind = tool.call.kind /\ call.id = delta.id /\ call.custom = tool.call.custom
    BY DEF ToolShape, CallOK, CallFields
  <2>2. Filled(tool, delta) = new
    BY <1>2 DEF Filled
  <2> HIDE DEF call
  <2>3. CallOK(call)
    BY <1>2, <2>1 DEF ToolShape, CallOK
  <2>4. /\ DOMAIN new = DOMAIN tool /\ new.call = call /\ new.eventId = tool.eventId
        /\ new.at = tool.at /\ new.wrapped = tool.wrapped
    BY DEF ToolShape, ToolFields
  <2> HIDE DEF new
  <2>5. ToolShape(new)
    BY <2>1, <2>3, <2>4 DEF ToolShape
  <2> QED BY <2>2, <2>4, <2>5
<1> QED BY <1>1, <1>2

LEMMA SpelledShape ==
  ASSUME NEW tool, ToolShape(tool), NEW delta
  PROVE  ToolShape(Spelled(tool, delta)) /\ Spelled(tool, delta).at = tool.at
<1> DEFINE custom == tool.call.custom \/ delta.verbatim # <<>>
           call == [tool.call EXCEPT !.custom = custom]
           new == [tool EXCEPT !.call = call, !.args = @ \o Fragment(delta)]
<1>1. Spelled(tool, delta) = new
  BY DEF Spelled, ToolShape, ToolFields
<1>2. /\ DOMAIN call = DOMAIN tool.call /\ call.name = tool.call.name
      /\ call.kind = tool.call.kind /\ call.id = tool.call.id /\ call.custom = custom
  BY DEF ToolShape, CallOK, CallFields
<1> HIDE DEF call
<1>3. CallOK(call)
  BY <1>2 DEF ToolShape, CallOK
<1>4. /\ DOMAIN new = DOMAIN tool /\ new.call = call /\ new.eventId = tool.eventId
      /\ new.at = tool.at /\ new.wrapped = tool.wrapped
  BY DEF ToolShape, ToolFields
<1> HIDE DEF new
<1>5. new.wrapped => new.call.custom
  BY <1>2, <1>4 DEF ToolShape
<1>6. ToolShape(new)
  BY <1>3, <1>4, <1>5 DEF ToolShape
<1> QED BY <1>1, <1>4, <1>6

LEMMA NewToolShape ==
  ASSUME NEW d, NEW delta, delta.name # ""
  PROVE  ToolShape(NewTool(d, delta)) /\ NewTool(d, delta).at = 0
         /\ (NewTool(d, delta).placeholder => delta.id = <<>>)
<1> DEFINE id == IF delta.id = <<>> THEN <<"call", Len(d.tools)>> ELSE delta.id
           call == [kind |-> "tool", id |-> id, name |-> delta.name, args |-> <<"empty">>,
                    custom |-> FALSE]
           new == [call |-> call, at |-> 0, eventId |-> id, args |-> <<>>,
                   placeholder |-> delta.id = <<>>, wrapped |-> FALSE]
<1>1. NewTool(d, delta) = new
  BY DEF NewTool
<1>2. id # <<>>
  <2>1. <<"call", Len(d.tools)>> # <<>>
    OBVIOUS
  <2> QED BY <2>1
<1> HIDE DEF id
<1>3. CallOK(call)
  BY <1>2 DEF CallOK, CallFields
<1> HIDE DEF call
<1>4. ToolShape(new)
  BY <1>2, <1>3 DEF ToolShape, ToolFields
<1>5. new.at = 0 /\ (new.placeholder => delta.id = <<>>)
  OBVIOUS
<1> QED BY <1>1, <1>4, <1>5

(* The call of a delta.                                                    *)
LEMMA FindToolWithin ==
  ASSUME NEW d, IsSeq(d.tools), NEW delta
  PROVE  FindTool(d, delta) \in 0..Len(d.tools)
<1> DEFINE known == {k \in DOMAIN d.tools : delta.id # <<>> /\ d.tools[k].call.id = delta.id}
           last == Len(d.tools)
           continues == /\ last # 0
                        /\ delta.id # <<>> => d.tools[last].placeholder
                        /\ delta.id = <<>> => \/ delta.name \in {"", d.tools[last].call.name}
                                            \/ d.tools[last].call.name = ""
<1>1. last \in Nat /\ DOMAIN d.tools = 1..last
  BY SeqFacts
<1>2. FindTool(d, delta) = IF known # {} THEN Min(known) ELSE IF continues THEN last ELSE 0
  BY DEF FindTool
<1>3. known \subseteq 1..last /\ known \subseteq Nat
  BY <1>1
<1>4. known # {} => Min(known) \in known
  <2> HIDE DEF known
  <2> QED BY <1>3, MinOfNaturals
<1>5. known # {} => Min(known) \in 1..last
  BY <1>3, <1>4
<1>6. last # 0 => last \in 1..last
  BY <1>1
<1> HIDE DEF known
<1>7. (IF known # {} THEN Min(known) ELSE IF continues THEN last ELSE 0) \in 0..last
  <2>1. 0 \in 0..last /\ last \in 0..last /\ \A k \in 1..last : k \in 0..last
    BY <1>1
  <2> HIDE DEF continues, last
  <2> QED BY <1>5, <2>1, Zenon
<1> HIDE DEF continues
<1> QED BY <1>2, <1>7

(* A call starts: its block and itself.                                    *)
StartsCall(f, d, tool, ev) ==
  /\ ToolShape(tool) /\ tool.at = Len(d.content) + 1 /\ DOMAIN f = DOMAIN d
  /\ f.content = Append(d.content, tool.call) /\ f.tools = Append(d.tools, tool)
  /\ f.text = d.text /\ f.think = d.think /\ f.finished = d.finished
  /\ f.out = Append(d.out, ev) /\ ev.kind = "toolcall_start"
  /\ ev.index = Len(d.content) + 1 /\ ev.block = tool.call /\ ev.id = tool.eventId

LEMMA CallStarts ==
  ASSUME NEW E, NEW C, NEW v, NEW d, Fine(E, C, v, d, {}),
         NEW f, NEW tool, NEW ev, StartsCall(f, d, tool, ev)
  PROVE  \E w : Fine(E, C, w, f, {})
<1> DEFINE n == Len(d.content)
           c == f.content
           block == tool.call
           w == After(v, ev)
<1>1. /\ DecOK(d) /\ Orderly(v) /\ Sees(v, d, {})
      /\ DecFields \subseteq DOMAIN d
      /\ TextOK(d.text, d.content) /\ ContentOK(d.content)
      /\ ThinkOK(d.think, d.content) /\ ToolsOK(d.tools, d.content)
  BY DEF Fine, DecOK
<1>o. /\ ToolShape(tool) /\ tool.at = n + 1 /\ DOMAIN f = DOMAIN d
      /\ c = Append(d.content, block) /\ f.tools = Append(d.tools, tool)
      /\ f.text = d.text /\ f.think = d.think /\ f.finished = d.finished
      /\ f.out = Append(d.out, ev) /\ ev.kind = "toolcall_start"
      /\ ev.index = n + 1 /\ ev.block = block /\ ev.id = tool.eventId
  BY DEF StartsCall
<1>b. BlockOK(block) /\ block.kind = "tool" /\ block.name # "" /\ tool.eventId # <<>>
  <2>1. CallOK(block) /\ tool.eventId # <<>>
    BY <1>o DEF ToolShape
  <2>2. "kind" \in DOMAIN block /\ block.kind = "tool" /\ block.name # ""
    BY <2>1 DEF CallOK, CallFields
  <2> HIDE DEF block
  <2>3. BlockOK(block)
    BY <2>2 DEF BlockOK, Kinds
  <2> QED BY <2>1, <2>2, <2>3
<1>2. /\ n \in Nat /\ ContentOK(c) /\ Len(c) = n + 1 /\ c[n + 1] = block
      /\ \A i \in 1..n : c[i] = d.content[i]
  <2> DEFINE longer == Append(d.content, block)
  <2>1. /\ ContentOK(longer) /\ Len(longer) = n + 1 /\ longer[n + 1] = block
        /\ \A i \in 1..n : longer[i] = d.content[i]
    <3>1. ContentOK(d.content) /\ BlockOK(block)
      BY <1>1, <1>b
    <3> HIDE DEF block
    <3>2. /\ ContentOK(Append(d.content, block))
          /\ Len(Append(d.content, block)) = Len(d.content) + 1
          /\ Append(d.content, block)[Len(d.content) + 1] = block
          /\ \A i \in 1..Len(d.content) : Append(d.content, block)[i] = d.content[i]
      BY <3>1, BlockAdded
    <3> QED BY <3>2
  <2> HIDE DEF longer
  <2>2. c = longer /\ n \in Nat
    BY <1>1, <1>o, ContentFacts DEF longer
  <2> HIDE DEF c
  <2> QED BY <2>1, <2>2
<1>3. /\ v.over = FALSE /\ v.shut = {} /\ v.text = d.text.at /\ v.think = d.think.at
      /\ Len(v.kinds) = n /\ \A i \in 1..n : v.kinds[i] = d.content[i].kind
  BY <1>1 DEF Sees
<1>4. InPlace(v, ev) /\ ValidEvent(ev)
  BY <1>o, <1>b, <1>3 DEF InPlace, ValidEvent, EventKinds, Starts
<1>5. w = Started(v, "tool")
  BY <1>o DEF After
<1> HIDE DEF w
<1>6. /\ Len(w.kinds) = n + 1 /\ w.kinds[n + 1] = "tool"
      /\ \A i \in 1..n : w.kinds[i] = v.kinds[i] /\ w.told[i] = v.told[i]
      /\ w.text = v.text /\ w.think = v.think
      /\ w.shut = v.shut /\ w.over = v.over
  <2>1. "tool" \in Kinds
    BY DEF Kinds
  <2> QED BY SMTT(30), <1>1, <1>3, <1>5, <2>1, StartedIs
<1>7. DecOK(f)
  <2>1. TextOK(d.text, c) /\ ThinkOK(d.think, c)
    BY <1>1, <1>o, <1>b, AddedKeeps
  <2>2. ToolsOK(f.tools, c)
    BY <1>1, <1>o, <1>b, ToolAdded
  <2> QED BY <1>1, <1>o, <1>2, <2>1, <2>2 DEF DecOK
<1>8. Sees(w, f, {})
  <2>1. SeesText(w, f)
    <3> SUFFICES ASSUME NEW i \in 1..(n + 1), c[i].kind = "text"
                 PROVE  w.told[i] = Told(f, i)
      BY <1>2 DEF SeesText
    <3>0. i # n + 1
      BY <1>b, <1>2
    <3>1. i \in 1..n /\ d.content[i].kind = "text" /\ c[i] = d.content[i]
      <4> HIDE DEF c
      <4> QED BY <1>2, <3>0
    <3>2. w.told[i] = Told(d, i)
      BY <1>1, <1>6, <3>1 DEF Sees, SeesText
    <3>3. Told(f, i) = Told(d, i)
      BY <1>o, <3>1 DEF Told
    <3> QED BY <3>2, <3>3
  <2>2. \A i \in 1..Len(c) : w.kinds[i] = c[i].kind
    <3> TAKE i \in 1..Len(c)
    <3>1. i = n + 1 \/ i \in 1..n
      BY <1>2
    <3> QED BY <1>b, <1>2, <1>3, <1>6, <3>1
  <2> QED BY <1>o, <1>2, <1>3, <1>6, <2>1, <2>2 DEF Sees
<1>9. Fine(E, C, w, f, {})
  BY <1>o, <1>4, <1>7, <1>8, FineTells DEF w
<1> QED BY <1>9
LEMMA SameSeq ==
  ASSUME NEW s, NEW t, IsSeq(s), IsSeq(t), Len(s) = Len(t),
         \A i \in 1..Len(s) : s[i] = t[i]
  PROVE  s = t
<1> DEFINE S == Range(s) \cup Range(t)
<1>1. s \in Seq(S) /\ t \in Seq(S)
  <2>1. s \in Seq(Range(s)) /\ t \in Seq(Range(t))
    BY DEF IsSeq
  <2> QED BY <2>1
<1> HIDE DEF S
<1> QED BY <1>1, SeqEqual

LEMMA ToolChanged ==
  ASSUME NEW content, NEW tools, ToolsOK(tools, content), NEW k \in 1..Len(tools),
         NEW tool, ToolOK(tool, content), tool.at = tools[k].at,
         NEW ts, Replaced(ts, tools, k, tool)
  PROVE  ToolsOK(ts, content)
<1>2. /\ IsSeq(ts) /\ Len(ts) = Len(tools) /\ ts[k] = tool
      /\ \A j \in 1..Len(tools) : j # k => ts[j] = tools[j]
  BY DEF Replaced
<1>3. \A j \in 1..Len(tools) : ts[j].at = tools[j].at
  BY <1>2
<1>4. \A j \in 1..Len(tools) : ToolOK(ts[j], content)
  BY <1>2 DEF ToolsOK
<1>5. \A i, j \in 1..Len(tools) : ts[i].at = ts[j].at => i = j
  <2>1. \A i, j \in 1..Len(tools) : tools[i].at = tools[j].at => i = j
    BY DEF ToolsOK
  <2> QED BY <1>3, <2>1
<1>6. ASSUME NEW i \in 1..Len(content), content[i].kind = "tool"
      PROVE  \E j \in 1..Len(ts) : ts[j].at = i
  <2>1. PICK j \in 1..Len(tools) : tools[j].at = i
    BY <1>6 DEF ToolsOK
  <2> QED BY <1>2, <1>3, <2>1
<1>7. IsSeq(ts) /\ \A j \in 1..Len(ts) : ToolOK(ts[j], content)
  BY <1>2, <1>4
<1>8. \A i, j \in 1..Len(ts) : ts[i].at = ts[j].at => i = j
  BY <1>2, <1>5
<1> QED BY <1>6, <1>7, <1>8 DEF ToolsOK

LEMMA ReplacedTwice ==
  ASSUME NEW s, NEW t, NEW u, NEW i, NEW x, NEW y, Replaced(t, s, i, x), Replaced(u, t, i, y)
  PROVE  Replaced(u, s, i, y)
BY DEF Replaced

(* A step on one call: the rest stays.                                     *)
OnCall(f, d) ==
  /\ DOMAIN f = DOMAIN d /\ f.text = d.text /\ f.think = d.think /\ f.stop = d.stop
  /\ f.finished = d.finished /\ f.out = d.out
  /\ f.cut = d.cut /\ f.stopSequence = d.stopSequence

Renamed(d, k, delta) == [d EXCEPT !.tools[k] = Named(@, delta)]
Grown(d, k, delta) == [d EXCEPT !.tools[k].call.custom = @ \/ delta.verbatim # <<>>,
                                !.tools[k].args = @ \o Fragment(delta)]

LEMMA RenamedIs ==
  ASSUME NEW d, DecFields \subseteq DOMAIN d, IsSeq(d.tools), NEW k \in 1..Len(d.tools),
         NEW delta
  PROVE  /\ OnCall(Renamed(d, k, delta), d) /\ Renamed(d, k, delta).content = d.content
         /\ Replaced(Renamed(d, k, delta).tools, d.tools, k, Named(d.tools[k], delta))
<1> DEFINE x == Named(d.tools[k], delta)
           ts == [d.tools EXCEPT ![k] = x]
           f == Renamed(d, k, delta)
<1>1. f = [d EXCEPT !.tools = ts]
  BY DEF Renamed, DecFields
<1>2. Replaced(ts, d.tools, k, x)
  <2> HIDE DEF x
  <2> QED BY SeqExcept
<1> HIDE DEF x, ts
<1>3. /\ DOMAIN f = DOMAIN d /\ f.tools = ts /\ f.content = d.content /\ f.text = d.text
      /\ f.think = d.think /\ f.stop = d.stop /\ f.finished = d.finished /\ f.out = d.out
      /\ f.cut = d.cut /\ f.stopSequence = d.stopSequence
  <2> HIDE DEF f
  <2> QED BY <1>1 DEF DecFields
<1> HIDE DEF f
<1> QED BY <1>2, <1>3 DEF OnCall, f, x

LEMMA GrownIs ==
  ASSUME NEW d, DecFields \subseteq DOMAIN d, IsSeq(d.tools), NEW k \in 1..Len(d.tools),
         ToolShape(d.tools[k]), NEW delta
  PROVE  /\ OnCall(Grown(d, k, delta), d) /\ Grown(d, k, delta).content = d.content
         /\ Replaced(Grown(d, k, delta).tools, d.tools, k, Spelled(d.tools[k], delta))
<1> DEFINE x == Spelled(d.tools[k], delta)
           ts == [d.tools EXCEPT ![k] = x]
           f == Grown(d, k, delta)
<1>0. k \in DOMAIN d.tools /\ "tools" \in DOMAIN d
  BY SeqFacts DEF DecFields
<1>1. f = [d EXCEPT !.tools = ts]
  <2> DEFINE y == [d.tools[k] EXCEPT !.call.custom = @ \/ delta.verbatim # <<>>]
             us == [d.tools EXCEPT ![k] = y]
             g == [d EXCEPT !.tools[k].call.custom = @ \/ delta.verbatim # <<>>]
  <2>1. g = [d EXCEPT !.tools = us]
    BY <1>0
  <2>2. f = [g EXCEPT !.tools[k].args = @ \o Fragment(delta)]
    BY <1>0 DEF Grown
  <2>3. x = [y EXCEPT !.args = @ \o Fragment(delta)]
    BY DEF Spelled
  <2> HIDE DEF y, g, f, x
  <2>4. g.tools = us /\ DOMAIN g = DOMAIN d
    BY <1>0, <2>1
  <2>5. f = [g EXCEPT !.tools = [us EXCEPT ![k].args = @ \o Fragment(delta)]]
    BY <2>2, <2>4
  <2>6. us[k] = y
    BY <1>0
  <2>7. [us EXCEPT ![k].args = @ \o Fragment(delta)] = [us EXCEPT ![k] = x]
    BY <2>3, <2>6
  <2>8. [us EXCEPT ![k] = x] = ts
    BY <1>0
  <2> HIDE DEF us, ts
  <2>9. f = [g EXCEPT !.tools = ts]
    BY <2>5, <2>7, <2>8
  <2>10. [[d EXCEPT !.tools = us] EXCEPT !.tools = ts] = [d EXCEPT !.tools = ts]
    OBVIOUS
  <2> QED BY <2>1, <2>9, <2>10
<1>2. Replaced(ts, d.tools, k, x)
  <2> HIDE DEF x
  <2> QED BY SeqExcept
<1> HIDE DEF x, ts
<1>3. /\ DOMAIN f = DOMAIN d /\ f.tools = ts /\ f.content = d.content /\ f.text = d.text
      /\ f.think = d.think /\ f.stop = d.stop /\ f.finished = d.finished /\ f.out = d.out
      /\ f.cut = d.cut /\ f.stopSequence = d.stopSequence
  <2> HIDE DEF f
  <2> QED BY <1>1 DEF DecFields
<1> HIDE DEF f
<1> QED BY <1>2, <1>3 DEF OnCall, f, x

(* A fragment of a call's arguments is told.                               *)
CallIsOpen(E, C, v, d, shut, k) ==
  Fine(E, C, v, d, shut) /\ k \in 1..Len(d.tools) /\ d.tools[k].at \notin shut

LEMMA TellDeltaFine ==
  ASSUME NEW E, NEW C, NEW v, NEW d, NEW shut, NEW k, CallIsOpen(E, C, v, d, shut, k),
         NEW fragment,
         NEW f, f = TellCall(d, "toolcall_delta", d.tools[k], fragment)
  PROVE  /\ DOMAIN f = DOMAIN d /\ f.content = d.content /\ f.text = d.text
         /\ f.think = d.think /\ f.tools = d.tools /\ f.stop = d.stop
         /\ f.finished = d.finished /\ TextKept(f, d)
         /\ \E w : Fine(E, C, w, f, shut)
<1> DEFINE at == d.tools[k].at
           ev == [Event("toolcall_delta", at, d.content[at])
                    EXCEPT !.id = d.tools[k].eventId, !.delta = fragment]
<1>0. Fine(E, C, v, d, shut) /\ k \in 1..Len(d.tools) /\ at \notin shut
  BY DEF CallIsOpen
<1>1. /\ DecFields \subseteq DOMAIN d /\ ContentOK(d.content) /\ ToolOK(d.tools[k], d.content)
      /\ ThinkOK(d.think, d.content) /\ ToolsOK(d.tools, d.content) /\ Sees(v, d, shut)
  BY <1>0 DEF Fine, DecOK, ToolsOK
<1>2. /\ DOMAIN f = DOMAIN d /\ f.content = d.content /\ f.text = d.text
      /\ f.think = d.think /\ f.tools = d.tools /\ f.stop = d.stop
      /\ f.finished = d.finished /\ f.out = Append(d.out, ev)
      /\ f.cut = d.cut /\ f.stopSequence = d.stopSequence
  BY <1>1 DEF TellCall, DecFields
<1>3. ev.kind = "toolcall_delta" /\ ev.index = at /\ ev.id = d.tools[k].eventId
  BY EventIs
<1> HIDE DEF ev
<1>4. InPlace(v, ev) /\ ValidEvent(ev)
  <2>1. at \in 1..Len(d.content) /\ d.content[at].kind = "tool" /\ d.tools[k].eventId # <<>>
    BY <1>1 DEF ToolOK, ToolShape
  <2> HIDE DEF at
  <2>2. v.over = FALSE /\ Len(v.kinds) = Len(d.content) /\ v.kinds[at] = "tool" /\ v.shut = shut
    BY <1>1, <2>1 DEF Sees
  <2>3. at \notin shut
    BY <1>0
  <2> QED BY <1>3, <2>1, <2>2, <2>3 DEF InPlace, ValidEvent, EventKinds, Starts
<1>5. Aside(f, d)
  <2>1. Reshaped(d.content, d.content)
    BY <1>1, ReshapedItself
  <2> QED BY <1>1, <1>2, <2>1 DEF Aside
<1>6. Fine(E, C, After(v, ev), f, shut)
  BY <1>0, <1>2, <1>3, <1>4, <1>5, AsideTells
<1>7. TextKept(f, d)
  <2>1. IsSeq(d.out)
    BY <1>0 DEF Fine, Matched
  <2>2. Opened(f.out) = Opened(d.out)
    <3>1. ev.kind # "text_start" /\ f.out = Append(d.out, ev)
      BY <1>2, <1>3
    <3>2. Opened(Append(d.out, ev)) = Opened(d.out)
      BY <2>1, <3>1, OpenedGrows
    <3> QED BY <3>1, <3>2
  <2> QED BY <1>2, <2>2 DEF TextKept, Beside, Texts
<1> QED BY <1>2, <1>6, <1>7
(* A known call: renamed, given its id when that was missing, lengthened.  *)
LEMMA BackfilledIs ==
  ASSUME NEW d, DecFields \subseteq DOMAIN d, ContentOK(d.content), IsSeq(d.tools),
         NEW k \in 1..Len(d.tools), ToolOK(d.tools[k], d.content), NEW delta
  PROVE  /\ OnCall(Backfilled(d, k, delta), d)
         /\ Reshaped(Backfilled(d, k, delta).content, d.content)
         /\ \A n \in 1..Len(d.content) :
              d.content[n].kind = "text" => Backfilled(d, k, delta).content[n] = d.content[n]
         /\ Replaced(Backfilled(d, k, delta).tools, d.tools, k, Filled(d.tools[k], delta))
<1> DEFINE tool == d.tools[k]
           f == Backfilled(d, k, delta)
<1>1. CASE ~tool.placeholder \/ delta.id = <<>>
  <2>1. f = d /\ Filled(tool, delta) = tool
    BY <1>1 DEF Backfilled, Filled
  <2>2. Replaced(d.tools, d.tools, k, tool)
    BY DEF Replaced
  <2> HIDE DEF f
  <2> QED BY <2>1, <2>2, ReshapedItself DEF OnCall, f
<1>2. CASE ~(~tool.placeholder \/ delta.id = <<>>)
  <2> DEFINE call == [tool.call EXCEPT !.id = delta.id]
             x == [tool EXCEPT !.placeholder = FALSE, !.call = call]
             at == tool.at
             ts == [d.tools EXCEPT ![k] = x]
             c == [d.content EXCEPT ![at] = call]
  <2>0. k \in DOMAIN d.tools /\ "tools" \in DOMAIN d
    BY SeqFacts DEF DecFields
  <2>1. Filled(tool, delta) = x
    BY <1>2 DEF Filled
  <2>2. CallOK(call) /\ at \in 1..Len(d.content) /\ d.content[at].kind = "tool"
    <3>1. /\ DOMAIN call = DOMAIN tool.call /\ call.name = tool.call.name
          /\ call.kind = tool.call.kind /\ call.id = delta.id
      BY DEF ToolOK, ToolShape, CallOK, CallFields
    <3> HIDE DEF call
    <3>2. CallOK(call)
      BY <1>2, <3>1 DEF ToolOK, ToolShape, CallOK
    <3> QED BY <3>2 DEF ToolOK
  <2>3. BlockOK(call) /\ call.kind = "tool"
    <3> HIDE DEF call
    <3> QED BY <2>2 DEF CallOK, CallFields, BlockOK, Kinds
  <2>4. f = [d EXCEPT !.tools[k].placeholder = FALSE, !.tools[k].call = call,
                      !.content[at] = call]
    BY <1>2 DEF Backfilled
  <2>5. f = [[d EXCEPT !.tools = ts] EXCEPT !.content = c]
    <3> DEFINE y == [tool EXCEPT !.placeholder = FALSE]
               us == [d.tools EXCEPT ![k] = y]
               g == [d EXCEPT !.tools[k].placeholder = FALSE]
               h == [g EXCEPT !.tools[k].call = call]
    <3>1. g = [d EXCEPT !.tools = us]
      BY <2>0
    <3>2. x = [y EXCEPT !.call = call]
      OBVIOUS
    <3>3. f = [h EXCEPT !.content[at] = call]
      BY <2>4
    <3> HIDE DEF y, g, f, x, call
    <3>4. g.tools = us /\ DOMAIN g = DOMAIN d
      BY <2>0, <3>1
    <3>5. h = [g EXCEPT !.tools = [us EXCEPT ![k].call = call]]
      BY <3>4
    <3>6. us[k] = y
      BY <2>0
    <3>7. [us EXCEPT ![k].call = call] = [us EXCEPT ![k] = x]
      BY <3>2, <3>6
    <3>8. [us EXCEPT ![k] = x] = ts
      BY <2>0
    <3> HIDE DEF us, ts, h
    <3>9. h = [g EXCEPT !.tools = ts]
      BY <3>5, <3>7, <3>8
    <3>10. [[d EXCEPT !.tools = us] EXCEPT !.tools = ts] = [d EXCEPT !.tools = ts]
      OBVIOUS
    <3>11. h = [d EXCEPT !.tools = ts]
      BY <3>1, <3>9, <3>10
    <3>12. h.content = d.content
      BY <3>11
    <3> QED BY <3>3, <3>11, <3>12
  <2> HIDE DEF call
  <2>6. Replaced(ts, d.tools, k, x)
    <3> HIDE DEF x
    <3> QED BY SeqExcept
  <2>7. Reshaped(c, d.content) /\ Replaced(c, d.content, at, call)
    <3> HIDE DEF at
    <3> QED BY <2>2, <2>3, BlockReplaced
  <2> HIDE DEF x, ts, c, f
  <2>8. /\ DOMAIN f = DOMAIN d /\ f.tools = ts /\ f.content = c /\ f.text = d.text
        /\ f.think = d.think /\ f.stop = d.stop /\ f.finished = d.finished /\ f.out = d.out
        /\ f.cut = d.cut /\ f.stopSequence = d.stopSequence
    BY <2>5 DEF DecFields
  <2>9. ASSUME NEW n \in 1..Len(d.content), d.content[n].kind = "text"
        PROVE  c[n] = d.content[n]
    <3>1. n # at
      BY <2>2, <2>9
    <3> QED BY <2>7, <3>1 DEF Replaced
  <2> QED BY <2>1, <2>6, <2>7, <2>8, <2>9 DEF OnCall, f
<1> QED BY <1>1, <1>2

LEMMA KnownCallFine ==
  ASSUME NEW E, NEW C, NEW v, NEW d, Fine(E, C, v, d, {}), NEW k \in 1..Len(d.tools),
         NEW delta, NEW g, g = Grown(Backfilled(Renamed(d, k, delta), k, delta), k, delta)
  PROVE  /\ Fine(E, C, v, g, {}) /\ g.stop = d.stop /\ Len(g.tools) = Len(d.tools)
         /\ TextKept(g, d)
<1> DEFINE named == Renamed(d, k, delta)
           filled == Backfilled(named, k, delta)
           t1 == Named(d.tools[k], delta)
           t2 == Filled(t1, delta)
           t3 == Spelled(t2, delta)
<1>1. /\ DecFields \subseteq DOMAIN d /\ ContentOK(d.content) /\ ToolOK(d.tools[k], d.content)
      /\ ThinkOK(d.think, d.content) /\ ToolsOK(d.tools, d.content)
      /\ IsSeq(d.tools) /\ Len(d.tools) \in Nat
  BY SeqFacts DEF Fine, DecOK, ToolsOK
<1>g. g = Grown(filled, k, delta)
  OBVIOUS
<1>2. ToolShape(t1) /\ t1.at = d.tools[k].at
  BY <1>1, NamedShape DEF ToolOK
<1>3. /\ OnCall(named, d) /\ named.content = d.content
      /\ Replaced(named.tools, d.tools, k, t1)
  BY <1>1, RenamedIs
<1> HIDE DEF named, t1
<1>4. ToolShape(t2) /\ t2.at = t1.at
  BY <1>2, FilledShape
<1>5. /\ IsSeq(named.tools) /\ Len(named.tools) = Len(d.tools) /\ named.tools[k] = t1
      /\ DecFields \subseteq DOMAIN named /\ ContentOK(named.content)
      /\ ToolOK(t1, d.content)
  BY <1>1, <1>2, <1>3 DEF Replaced, OnCall, ToolOK
<1>6. /\ OnCall(filled, named) /\ Reshaped(filled.content, d.content)
      /\ \A n \in 1..Len(d.content) :
           d.content[n].kind = "text" => filled.content[n] = d.content[n]
      /\ Replaced(filled.tools, named.tools, k, t2)
  <2>1. k \in 1..Len(named.tools) /\ ToolOK(named.tools[k], named.content)
    BY <1>3, <1>5
  <2>2. /\ OnCall(filled, named) /\ Reshaped(filled.content, named.content)
        /\ \A n \in 1..Len(named.content) :
             named.content[n].kind = "text" => filled.content[n] = named.content[n]
        /\ Replaced(filled.tools, named.tools, k, Filled(named.tools[k], delta))
    BY <1>5, <2>1, BackfilledIs
  <2> HIDE DEF filled
  <2> QED BY <1>3, <1>5, <2>2
<1> HIDE DEF filled, t2
<1>7. ToolShape(t3) /\ t3.at = t2.at
  BY <1>4, SpelledShape
<1>8. /\ OnCall(g, filled) /\ g.content = filled.content
      /\ Replaced(g.tools, filled.tools, k, t3)
  <2>1. /\ IsSeq(filled.tools) /\ k \in 1..Len(filled.tools) /\ filled.tools[k] = t2
        /\ DecFields \subseteq DOMAIN filled
    BY <1>5, <1>6 DEF Replaced, OnCall
  <2>2. ToolShape(filled.tools[k])
    BY <1>4, <2>1
  <2>3. /\ OnCall(Grown(filled, k, delta), filled)
        /\ Grown(filled, k, delta).content = filled.content
        /\ Replaced(Grown(filled, k, delta).tools, filled.tools, k,
                    Spelled(filled.tools[k], delta))
    BY <2>1, <2>2, GrownIs
  <2> QED BY <1>g, <2>1, <2>3 DEF t3
<1> HIDE DEF t3
<1>9. Replaced(g.tools, d.tools, k, t3)
  BY <1>3, <1>6, <1>8, ReplacedTwice
<1>10. ToolOK(t3, d.content) /\ t3.at = d.tools[k].at
  BY <1>1, <1>2, <1>4, <1>7 DEF ToolOK
<1>11. ToolsOK(g.tools, d.content)
  BY <1>1, <1>9, <1>10, ToolChanged
<1>12. OnCall(g, d)
  BY <1>3, <1>6, <1>8 DEF OnCall
<1>13. Aside(g, d)
  BY <1>1, <1>6, <1>8, <1>11, <1>12 DEF Aside, OnCall
<1>14. Fine(E, C, v, g, {})
  BY <1>12, <1>13, AsideFine DEF OnCall
<1>15. TextKept(g, d)
  <2>1. Beside(g, d)
    BY <1>12 DEF OnCall, Beside
  <2> QED BY <1>6, <1>8, <2>1, ReshapedKept
<1> QED BY <1>9, <1>12, <1>14, <1>15 DEF OnCall, Replaced
(* A new call: its block is added, and it starts.                          *)
Names(delta) == delta.name # ""
WithNewTool(d, delta) == [d EXCEPT !.tools = Append(@, NewTool(d, delta))]
Announced(d, k) == TellCall(d, "toolcall_start", d.tools[k], <<>>)
Placed(d, k) == [d EXCEPT !.tools[k].at = Len(d.content) + 1,
                          !.content = Append(@, d.tools[k].call)]

LEMMA NewCallFine ==
  ASSUME NEW E, NEW C, NEW v, NEW d, Fine(E, C, v, d, {}), NEW delta, Names(delta),
         NEW k \in Nat, k = Len(d.tools) + 1,
         NEW known, known = WithNewTool(d, delta),
         NEW g, g = Grown(Backfilled(Renamed(known, k, delta), k, delta), k, delta),
         NEW fresh, fresh = Placed(g, k),
         NEW f, f = Announced(fresh, k)
  PROVE  /\ g.tools[k].at = 0 /\ f.stop = d.stop /\ Len(f.tools) = k
         /\ TextKept(f, d) /\ \E w : Fine(E, C, w, f, {})
<1> DEFINE m == Len(d.tools)
           n == Len(d.content)
           t0 == NewTool(d, delta)
           named == Renamed(known, k, delta)
           t1 == Named(t0, delta)
           t3 == Spelled(t1, delta)
           tool == [t3 EXCEPT !.at = n + 1]
           at == n + 1
           nothing == <<>>
           ev == [Event("toolcall_start", at, fresh.content[at])
                    EXCEPT !.id = tool.eventId, !.delta = nothing]
<1>1. /\ DecFields \subseteq DOMAIN d /\ ContentOK(d.content) /\ n \in Nat
      /\ IsSeq(d.tools) /\ m \in Nat
  BY SeqFacts, ContentFacts DEF Fine, DecOK, ToolsOK
<1>k. /\ k = m + 1 /\ k \in 1..k
      /\ \A j \in 1..m : j \in 1..k /\ j # k
      /\ \A j \in 1..k : j = k \/ j \in 1..m
  <2>1. k = m + 1 /\ m \in Nat
    BY <1>1
  <2> HIDE DEF m
  <2>2. k \in 1..k
    BY <2>1
  <2>3. \A j \in 1..m : j \in 1..k /\ j # k
    BY <2>1
  <2>4. \A j \in 1..k : j = k \/ j \in 1..m
    BY <2>1
  <2> QED BY <2>1, <2>2, <2>3, <2>4
<1>2. ToolShape(t0) /\ t0.at = 0 /\ (t0.placeholder => delta.id = <<>>)
  BY NewToolShape, Zenon DEF Names
<1> HIDE DEF t0
<1>3. /\ OnCall(known, d) /\ known.content = d.content /\ IsSeq(known.tools)
      /\ Len(known.tools) = k /\ known.tools[k] = t0
      /\ \A j \in 1..m : known.tools[j] = d.tools[j]
  <2> DEFINE longer == Append(d.tools, t0)
  <2>1. known = [d EXCEPT !.tools = longer]
    BY DEF t0, WithNewTool
  <2>2. /\ IsSeq(longer) /\ Len(longer) = m + 1 /\ longer[m + 1] = t0
        /\ \A j \in 1..m : longer[j] = d.tools[j]
    BY <1>1, SeqAppend
  <2> HIDE DEF longer
  <2>3. /\ DOMAIN known = DOMAIN d /\ known.tools = longer /\ known.content = d.content
        /\ known.text = d.text /\ known.think = d.think /\ known.stop = d.stop
        /\ known.finished = d.finished /\ known.out = d.out
        /\ known.cut = d.cut /\ known.stopSequence = d.stopSequence
    BY <1>1, <2>1 DEF DecFields
  <2> QED BY <2>2, <2>3 DEF OnCall
<1>4. k \in 1..Len(known.tools) /\ DecFields \subseteq DOMAIN known
  BY <1>1, <1>k, <1>3 DEF OnCall
<1>5. /\ ToolShape(t1) /\ t1.at = 0 /\ t1.placeholder = t0.placeholder
  BY <1>2, NamedShape
<1>6. /\ OnCall(named, known) /\ named.content = d.content
      /\ Replaced(named.tools, known.tools, k, t1)
  BY <1>3, <1>4, RenamedIs
<1> HIDE DEF t1
<1>7. /\ IsSeq(named.tools) /\ Len(named.tools) = k /\ named.tools[k] = t1
      /\ DecFields \subseteq DOMAIN named
  BY <1>3, <1>4, <1>6 DEF Replaced, OnCall
<1>8. g = Grown(named, k, delta)
  <2>1. ~named.tools[k].placeholder \/ delta.id = <<>>
    BY SMTT(30), <1>2, <1>5, <1>7
  <2> HIDE DEF named
  <2>2. Backfilled(named, k, delta) = named
    BY <2>1 DEF Backfilled
  <2> QED BY <2>2 DEF named
<1> HIDE DEF named
<1>9. ToolShape(t3) /\ t3.at = 0
  BY <1>5, SpelledShape
<1>10. /\ OnCall(g, named) /\ g.content = d.content
       /\ Replaced(g.tools, named.tools, k, t3)
  <2>1. k \in 1..Len(named.tools) /\ ToolShape(named.tools[k])
    BY <1>3, <1>4, <1>5, <1>7
  <2>2. /\ OnCall(Grown(named, k, delta), named)
        /\ Grown(named, k, delta).content = named.content
        /\ Replaced(Grown(named, k, delta).tools, named.tools, k,
                    Spelled(named.tools[k], delta))
    BY <1>7, <2>1, GrownIs
  <2> QED BY <1>6, <1>7, <1>8, <2>2 DEF t3
<1> HIDE DEF t3
<1>11. /\ OnCall(g, d) /\ IsSeq(g.tools) /\ Len(g.tools) = k /\ g.tools[k] = t3
       /\ DecFields \subseteq DOMAIN g
  BY <1>3, <1>4, <1>6, <1>10 DEF OnCall, Replaced
<1>12. \A j \in 1..m : g.tools[j] = d.tools[j]
  <2> TAKE j \in 1..m
  <2>1. j \in 1..k /\ j # k
    BY <1>k
  <2> QED BY <1>3, <1>6, <1>7, <1>10, <2>1 DEF Replaced
<1> DEFINE ts == [g.tools EXCEPT ![k] = tool]
           c == Append(d.content, t3.call)
<1>13. ToolShape(tool) /\ tool.at = n + 1 /\ tool.call = t3.call
  BY <1>9 DEF ToolShape, ToolFields
<1>14. k \in DOMAIN g.tools /\ k \in 1..Len(g.tools)
  BY <1>k, <1>11, SeqFacts
<1>15. fresh = [[g EXCEPT !.tools = ts] EXCEPT !.content = c]
  <2> DEFINE h == [g EXCEPT !.tools[k].at = Len(g.content) + 1]
  <2>1. h = [g EXCEPT !.tools = ts]
    BY <1>10, <1>11
  <2>2. fresh = [h EXCEPT !.content = Append(@, g.tools[k].call)]
    BY DEF Placed
  <2> HIDE DEF h, ts
  <2>3. h.content = d.content /\ "content" \in DOMAIN h
    BY <1>10, <1>11, <2>1 DEF DecFields
  <2> QED BY <1>11, <2>1, <2>2, <2>3
<1> HIDE DEF tool
<1>16. Replaced(ts, g.tools, k, tool)
  BY <1>11, <1>14, SeqExcept
<1>17. ts = Append(d.tools, tool)
  <2> DEFINE longer == Append(d.tools, tool)
  <2>1. /\ IsSeq(longer) /\ Len(longer) = m + 1 /\ longer[m + 1] = tool
        /\ \A j \in 1..m : longer[j] = d.tools[j]
    BY <1>1, SeqAppend
  <2> HIDE DEF longer, ts
  <2>2. /\ IsSeq(ts) /\ Len(ts) = m + 1 /\ ts[m + 1] = tool
    BY <1>k, <1>11, <1>16 DEF Replaced
  <2>3. \A j \in 1..m : ts[j] = d.tools[j]
    <3> TAKE j \in 1..m
    <3>1. j \in 1..k /\ j # k
      BY <1>k
    <3> QED BY <1>11, <1>12, <1>16, <3>1 DEF Replaced
  <2>4. \A j \in 1..Len(ts) : ts[j] = longer[j]
    <3> TAKE j \in 1..Len(ts)
    <3>1. j = m + 1 \/ j \in 1..m
      BY <1>k, <2>2
    <3> QED BY <2>1, <2>2, <2>3, <3>1
  <2>5. ts = longer
    BY <2>1, <2>2, <2>4, SameSeq
  <2> QED BY <2>5 DEF longer
<1>18. c[n + 1] = t3.call
  BY <1>1, SeqAppend DEF ContentOK
<1> HIDE DEF ts, c
<1>a. at = n + 1 /\ tool.at = at /\ c[at] = t3.call
  BY <1>13, <1>18
<1> HIDE DEF at
<1>19. /\ DOMAIN fresh = DOMAIN g /\ fresh.tools = ts /\ fresh.content = c /\ fresh.text = g.text
       /\ fresh.think = g.think /\ fresh.stop = g.stop /\ fresh.finished = g.finished
       /\ fresh.out = g.out /\ fresh.cut = g.cut /\ fresh.stopSequence = g.stopSequence
  BY <1>11, <1>15 DEF DecFields
<1>20. fresh.tools[k] = tool /\ DecFields \subseteq DOMAIN fresh
  BY <1>11, <1>16, <1>19 DEF Replaced
<1>21. /\ DOMAIN f = DOMAIN fresh /\ f.tools = ts /\ f.content = c /\ f.text = fresh.text
       /\ f.think = fresh.think /\ f.stop = fresh.stop /\ f.finished = fresh.finished
       /\ f.out = Append(fresh.out, ev) /\ f.cut = fresh.cut
       /\ f.stopSequence = fresh.stopSequence
  <2>1. f = TellCall(fresh, "toolcall_start", tool, nothing)
    BY <1>20 DEF Announced
  <2> HIDE DEF nothing
  <2> QED BY <1>a, <1>19, <1>20, <2>1 DEF TellCall, DecFields
<1>22. ev.kind = "toolcall_start" /\ ev.index = at /\ ev.block = t3.call /\ ev.id = tool.eventId
  <2> HIDE DEF nothing
  <2> QED BY SMTT(30), <1>a, <1>19, EventIs
<1> HIDE DEF ev
<1>23. StartsCall(f, d, tool, ev)
  <2>1. f.content = Append(d.content, tool.call) /\ f.tools = Append(d.tools, tool)
    BY SMTT(30), <1>13, <1>17, <1>21 DEF c
  <2>2. /\ DOMAIN f = DOMAIN d /\ f.text = d.text /\ f.think = d.think
        /\ f.finished = d.finished /\ f.out = Append(d.out, ev)
    BY <1>11, <1>19, <1>21 DEF OnCall
  <2> QED BY SMTT(30), <1>13, <1>a, <1>22, <2>1, <2>2 DEF StartsCall
<1>24. \E w : Fine(E, C, w, f, {})
  BY SMTT(30), <1>23, CallStarts
<1>25. g.tools[k].at = 0 /\ f.stop = d.stop /\ Len(f.tools) = k
  BY <1>9, <1>11, <1>16, <1>19, <1>21 DEF OnCall, Replaced
<1>26. TextKept(f, d)
  <2> DEFINE block == t3.call
  <2>1. BlockOK(block) /\ block.kind # "text"
    <3>1. CallOK(block)
      BY <1>9 DEF ToolShape
    <3> HIDE DEF block
    <3> QED BY <3>1 DEF CallOK, CallFields, BlockOK, Kinds
  <2>2. f.content = Append(d.content, block)
    BY SMTT(30), <1>21 DEF c
  <2> HIDE DEF block
  <2>3. IsSeq(d.out) /\ f.out = Append(d.out, ev)
    BY <1>11, <1>19, <1>21 DEF Fine, Matched, OnCall
  <2>4. Opened(f.out) = Opened(d.out)
    <3>1. ev.kind # "text_start"
      BY <1>22
    <3>2. Opened(Append(d.out, ev)) = Opened(d.out)
      BY <2>3, <3>1, OpenedGrows
    <3> QED BY <2>3, <3>2
  <2>5. Beside(f, d)
    BY <1>11, <1>19, <1>21, <2>4 DEF OnCall, Beside
  <2> QED BY <1>1, <2>1, <2>2, <2>5, AddedKept
<1> QED BY <1>24, <1>25, <1>26
(* decode_native_tool, once its call has a block.                          *)
Continued(d, k, fragment, quietly) ==
  IF fragment = <<>> \/ quietly THEN d
  ELSE TellCall(d, "toolcall_delta", d.tools[k], fragment)

LEMMA ContinuedFine ==
  ASSUME NEW E, NEW C, NEW v, NEW d, Fine(E, C, v, d, {}), NEW k \in 1..Len(d.tools), NEW fragment,
         NEW quietly
  PROVE  /\ TextKept(Continued(d, k, fragment, quietly), d)
         /\ \E w : Fine(E, C, w, Continued(d, k, fragment, quietly), {})
<1> DEFINE f == TellCall(d, "toolcall_delta", d.tools[k], fragment)
<1>1. TextKept(f, d) /\ \E w : Fine(E, C, w, f, {})
  <2>1. CallIsOpen(E, C, v, d, {}, k)
    BY DEF CallIsOpen
  <2> HIDE DEF f
  <2>2. f = TellCall(d, "toolcall_delta", d.tools[k], fragment)
    BY DEF f
  <2>3. /\ DOMAIN f = DOMAIN d /\ f.content = d.content /\ f.text = d.text
        /\ f.think = d.think /\ f.tools = d.tools /\ f.stop = d.stop
        /\ f.finished = d.finished /\ TextKept(f, d)
        /\ \E w : Fine(E, C, w, f, {})
    BY <2>1, <2>2, TellDeltaFine
  <2> QED BY <2>3
<1>2. Continued(d, k, fragment, quietly) = d \/ Continued(d, k, fragment, quietly) = f
  BY DEF Continued
<1> HIDE DEF f
<1> QED BY <1>1, <1>2, KeptItself

LEMMA DecodeToolFine ==
  ASSUME NEW E, NEW C, NEW v, NEW d, Fine(E, C, v, d, {}), NEW delta,
         FindTool(d, delta) = 0 => Names(delta)
  PROVE  /\ TextKept(DecodeTool(d, delta), d)
         /\ \E w : Fine(E, C, w, DecodeTool(d, delta), {})
<1> DEFINE found == FindTool(d, delta)
           known == IF found # 0 THEN d ELSE WithNewTool(d, delta)
           k     == IF found # 0 THEN found ELSE Len(known.tools)
           grown == Grown(Backfilled(Renamed(known, k, delta), k, delta), k, delta)
           fragment == Fragment(delta)
           quietly == grown.tools[k].wrapped
           fresh == Placed(grown, k)
           open == IF grown.tools[k].at # 0 THEN grown ELSE Announced(fresh, k)
<1>1. DecodeTool(d, delta) = DecodeNativeTool(grown, k, fragment)
  BY DEF DecodeTool, WithNewTool, Renamed, Grown
<1>2. DecodeNativeTool(grown, k, fragment) = Continued(open, k, fragment, quietly)
  <2> HIDE DEF grown, k, fragment
  <2> QED BY DEF DecodeNativeTool, Placed, Announced, Continued
<1>3. IsSeq(d.tools) /\ Len(d.tools) \in Nat /\ DecFields \subseteq DOMAIN d
      /\ ToolsOK(d.tools, d.content)
  BY SeqFacts DEF Fine, DecOK, ToolsOK
<1>4. found \in 0..Len(d.tools)
  BY SMTT(30), <1>3, FindToolWithin
<1>5. (\E w : Fine(E, C, w, open, {})) /\ k \in 1..Len(open.tools) /\ TextKept(open, d)
  <2>1. CASE found # 0
    <3>1. known = d /\ k = found
      BY <2>1
    <3> HIDE DEF found, known, k
    <3>2. k \in 1..Len(d.tools)
      BY <1>3, <1>4, <2>1, <3>1
    <3>3. grown = Grown(Backfilled(Renamed(d, k, delta), k, delta), k, delta)
      BY <3>1
    <3> HIDE DEF grown
    <3>4. /\ Fine(E, C, v, grown, {}) /\ Len(grown.tools) = Len(d.tools)
          /\ TextKept(grown, d)
      BY <3>2, <3>3, KnownCallFine
    <3>5. grown.tools[k].at # 0
      <4>1. ToolOK(grown.tools[k], grown.content) /\ Len(grown.content) \in Nat
        BY <3>2, <3>4, ContentFacts DEF Fine, DecOK, ToolsOK
      <4> QED BY <4>1 DEF ToolOK
    <3>6. open = grown
      BY <3>5
    <3> HIDE DEF open
    <3> QED BY <3>2, <3>4, <3>6
  <2>2. CASE found = 0
    <3>1. known = WithNewTool(d, delta) /\ k = Len(known.tools) /\ Names(delta)
      BY <2>2
    <3> HIDE DEF found, k
    <3>2. k = Len(d.tools) + 1 /\ k \in Nat
      <4>1. Len(Append(d.tools, NewTool(d, delta))) = Len(d.tools) + 1
        BY <1>3, SeqAppend
      <4>2. WithNewTool(d, delta).tools = Append(d.tools, NewTool(d, delta))
        BY <1>3 DEF WithNewTool, DecFields
      <4> QED BY <1>3, <3>1, <4>1, <4>2
    <3> HIDE DEF known, grown, fresh
    <3> DEFINE f == Announced(fresh, k)
    <3> HIDE DEF f
    <3>3. /\ grown = Grown(Backfilled(Renamed(known, k, delta), k, delta), k, delta)
          /\ fresh = Placed(grown, k) /\ f = Announced(fresh, k)
      BY DEF grown, fresh, f
    <3>4. /\ grown.tools[k].at = 0 /\ Len(f.tools) = k /\ TextKept(f, d)
          /\ \E w : Fine(E, C, w, f, {})
      BY <3>1, <3>2, <3>3, NewCallFine
    <3>5. open = f
      BY <3>4 DEF f
    <3> HIDE DEF open
    <3>6. k \in 1..k
      BY <1>3, <3>2
    <3> QED BY <3>4, <3>5, <3>6
  <2> QED BY <2>1, <2>2
<1> HIDE DEF open, k, fragment, grown, quietly
<1>6. PICK w : Fine(E, C, w, open, {})
  BY <1>5
<1>7. /\ TextKept(Continued(open, k, fragment, quietly), open)
      /\ \E x : Fine(E, C, x, Continued(open, k, fragment, quietly), {})
  BY <1>5, <1>6, ContinuedFine
<1>8. TextKept(Continued(open, k, fragment, quietly), d)
  BY <1>5, <1>7, KeptTwice
<1> QED BY <1>1, <1>2, <1>7, <1>8

(* What a frame's deltas may be: the first of a call names it.             *)
NamesEach(d, calls) ==
  \A k \in 1..Len(calls) :
    FindTool(CallsDecoded(d, calls)[k - 1], calls[k]) = 0 => Names(calls[k])

LEMMA CallsFine ==
  ASSUME NEW E, NEW C, NEW v, NEW d, Fine(E, C, v, d, {}), NEW calls, Len(calls) \in Nat,
         NamesEach(d, calls)
  PROVE  /\ Carries(CallsDecoded(d, calls)[Len(calls)], d)
         /\ \E w : Fine(E, C, w, CallsDecoded(d, calls)[Len(calls)], {})
<1> DEFINE m == Len(calls)
           g == CallsDecoded(d, calls)
           T == {k \in 0..m : Carries(g[k], d) /\ \E w : Fine(E, C, w, g[k], {})}
<1>1. IsDecoding(g, d, calls, m)
  BY DecodingSteps
<1>2. \A k \in 1..m : FindTool(g[k - 1], calls[k]) = 0 => Names(calls[k])
  BY DEF NamesEach
<1> HIDE DEF g
<1>3. 0 \in T
  BY <1>1, KeptItself, KeptCarries DEF IsDecoding
<1>4. \A k \in 1..m : k - 1 \in T => k \in T
  <2> SUFFICES ASSUME NEW k \in 1..m, k - 1 \in T PROVE k \in T
    OBVIOUS
  <2> DEFINE before == g[k - 1]
             quiet == EndThinking(before)
             silent == EndText(quiet)
             delta == calls[k]
  <2>1. Carries(before, d) /\ \E w : Fine(E, C, w, before, {})
    OBVIOUS
  <2>2. g[k] = DecodeTool(silent, delta)
    BY <1>1 DEF IsDecoding
  <2>3. FindTool(before, delta) = 0 => Names(delta)
    BY <1>2
  <2> HIDE DEF before, delta
  <2>w. PICK w : Fine(E, C, w, before, {})
    BY <2>1
  <2>4. ThinkingEnded(quiet, before) /\ \E x : Fine(E, C, x, quiet, {})
    BY <2>w, EndThinkingFine
  <2> HIDE DEF quiet
  <2>5. PICK x : Fine(E, C, x, quiet, {})
    BY <2>4
  <2>6. TextEnded(silent, quiet) /\ \E y : Fine(E, C, y, silent, {})
    BY <2>5, EndTextFine
  <2> HIDE DEF silent
  <2>7. PICK y : Fine(E, C, y, silent, {})
    BY <2>6
  <2>8. silent.tools = before.tools
    BY <2>4, <2>6 DEF ThinkingEnded, TextEnded
  <2>9. FindTool(silent, delta) = 0 => Names(delta)
    BY <2>3, <2>8 DEF FindTool
  <2> DEFINE f == DecodeTool(silent, delta)
  <2>10. TextKept(f, silent) /\ \E z : Fine(E, C, z, f, {})
    BY <2>7, <2>9, DecodeToolFine
  <2> HIDE DEF f
  <2>12. Carries(f, d)
    <3>1. Carries(quiet, before)
      BY <2>4, KeptCarries DEF ThinkingEnded
    <3>2. TextOK(quiet.text, quiet.content) /\ ContentOK(quiet.content)
      BY <2>5 DEF Fine, DecOK
    <3>3. Carries(silent, quiet)
      BY <2>6, <3>2, EndTextCarries
    <3>4. Carries(f, silent)
      BY <2>10, KeptCarries
    <3>5. Carries(quiet, d)
      BY <2>1, <3>1, CarriesTwice
    <3>6. Carries(silent, d)
      BY <3>3, <3>5, CarriesTwice
    <3> QED BY <3>4, <3>6, CarriesTwice
  <2>11. k \in 0..m
    OBVIOUS
  <2> QED BY <2>2, <2>10, <2>11, <2>12 DEF f
<1>5. m \in T
  <2> HIDE DEF T
  <2>1. \A k \in 0..m : k \in T
    BY <1>3, <1>4, StepByStep
  <2> QED BY <2>1
<1> QED BY <1>5 DEF g
(* A change that no event and no view is about.                            *)
LEMMA FineBeside ==
  ASSUME NEW E, NEW C, NEW v, NEW d, NEW shut, Fine(E, C, v, d, shut),
         NEW f, DOMAIN f = DOMAIN d, f.content = d.content, f.text = d.text,
         f.think = d.think, f.tools = d.tools, f.finished = d.finished, f.out = d.out
  PROVE  Fine(E, C, v, f, shut)
<1>1. DecOK(d) /\ Sees(v, d, shut)
  BY DEF Fine
<1>2. DecOK(f)
  BY <1>1 DEF DecOK
<1>3. \A i : Told(f, i) = Told(d, i)
  BY DEF Told
<1>4. Sees(v, f, shut)
  BY <1>1, <1>3 DEF Sees, SeesText
<1> QED BY <1>2, <1>4, FineStays

Fresh(d) == [d EXCEPT !.out = <<>>]

(* What a decoder expects of a frame.                                      *)
Legible(d, frame) ==
  /\ frame.redacted \in BOOLEAN /\ frame.text \in Seq(Bytes) /\ Len(frame.calls) \in Nat
  /\ frame.text # <<>> => Whole(frame.text)
  /\ NamesEach(DecodeWords(Fresh(d), frame), frame.calls)

(* A frame is heard, unless the text was cut.                              *)
Listens(f, d, delta) ==
  /\ delta = <<>> \/ d.cut => Carries(f, d)
  /\ delta # <<>> /\ d.cut = FALSE => \E at : UttersAt(f, d, delta, at)

LEMMA HeardBefore ==
  ASSUME NEW d, NEW g, NEW f, NEW delta, Heard(g, d, delta), Carries(f, g)
  PROVE  Heard(f, d, delta)
<1>1. ASSUME delta = <<>> PROVE Carries(f, d)
  BY <1>1, CarriesTwice DEF Heard
<1>2. ASSUME delta # <<>>, d.cut = FALSE PROVE \E at : UttersAt(f, d, delta, at)
  <2>1. PICK at : UttersAt(g, d, delta, at)
    BY <1>2 DEF Heard
  <2>2. UttersAt(f, d, delta, at)
    BY <2>1, SpeaksBefore
  <2> QED BY <2>2
<1> QED BY <1>1, <1>2 DEF Heard

(* A frame is decoded.                                                     *)
LEMMA DecodeFine ==
  ASSUME NEW E, NEW C, NEW v, NEW d, Fine(E, C, v, Fresh(d), {}), d.finished = FALSE,
         NEW frame, Legible(d, frame)
  PROVE  /\ Listens(Decode(d, frame), Fresh(d), frame.text)
         /\ \E w : Fine(E, C, w, Decode(d, frame), {})
<1> DEFINE g == Fresh(d)
           words == DecodeWords(g, frame)
           called == CallsDecoded(words, frame.calls)[Len(frame.calls)]
           f == [called EXCEPT !.stop = frame.stop]
<1>0. /\ frame.redacted \in BOOLEAN /\ frame.text \in Seq(Bytes) /\ Len(frame.calls) \in Nat
      /\ NamesEach(DecodeWords(Fresh(d), frame), frame.calls)
      /\ frame.text # <<>> => Whole(frame.text)
  BY DEF Legible
<1>1. Decode(d, frame) = IF d.cut THEN g ELSE IF frame.stop = "none" THEN called ELSE f
  BY DEF Decode, DecodeParts, Fresh
<1>a. g.cut = d.cut
  <2>1. "cut" \in DOMAIN g
    BY DEF Fine, DecOK, DecFields
  <2> QED BY <2>1 DEF Fresh
<1>2. Heard(words, g, frame.text) /\ \E w : Fine(E, C, w, words, {})
  <2> HIDE DEF words, g
  <2>1. Heard(DecodeWords(g, frame), g, frame.text) /\ \E w : Fine(E, C, w, DecodeWords(g, frame), {})
    <3>1. Fine(E, C, v, g, {})
      BY DEF g
    <3> QED BY <1>0, <3>1, WordsFine
  <2> QED BY <2>1 DEF words
<1> HIDE DEF words
<1>3. PICK w : Fine(E, C, w, words, {})
  BY <1>2
<1>4. Carries(called, words) /\ \E x : Fine(E, C, x, called, {})
  <2> DEFINE calls == frame.calls
  <2>1. NamesEach(words, calls) /\ Len(calls) \in Nat
    BY <1>0 DEF words
  <2> HIDE DEF calls
  <2>2. /\ Carries(CallsDecoded(words, calls)[Len(calls)], words)
        /\ \E x : Fine(E, C, x, CallsDecoded(words, calls)[Len(calls)], {})
    BY <1>3, <2>1, CallsFine
  <2> QED BY <2>2 DEF calls
<1> HIDE DEF called, g
<1>5. PICK x : Fine(E, C, x, called, {})
  BY <1>4
<1>6. Carries(f, called) /\ Fine(E, C, x, f, {})
  <2>1. DecFields \subseteq DOMAIN called
    BY <1>5 DEF Fine, DecOK
  <2>2. /\ DOMAIN f = DOMAIN called /\ f.content = called.content /\ f.text = called.text
        /\ f.think = called.think /\ f.tools = called.tools /\ f.finished = called.finished
        /\ f.out = called.out /\ f.cut = called.cut /\ f.stopSequence = called.stopSequence
    BY <2>1 DEF DecFields
  <2> HIDE DEF f
  <2>3. TextKept(f, called)
    BY <2>2 DEF TextKept, Beside, Texts
  <2> QED BY <1>5, <2>2, <2>3, FineBeside, KeptCarries
<1>7. Fine(E, C, v, g, {})
  BY DEF g
<1> HIDE DEF f
<1> DEFINE h == Decode(d, frame)
<1>8. CASE d.cut
  <2>1. h = g
    BY <1>1, <1>8
  <2> HIDE DEF h
  <2>2. Carries(h, g)
    BY <2>1, KeptItself, KeptCarries
  <2>3. Listens(h, g, frame.text)
    BY <1>8, <1>a, <2>2 DEF Listens
  <2> QED BY <1>7, <2>1, <2>3 DEF g, h
<1>9. CASE ~d.cut
  <2>1. h \in {called, f}
    BY <1>1, <1>9
  <2> HIDE DEF h
  <2>2. Heard(called, g, frame.text)
    BY <1>2, <1>4, HeardBefore
  <2>3. Heard(f, g, frame.text)
    BY <1>6, <2>2, HeardBefore
  <2>4. Heard(h, g, frame.text) /\ \E y : Fine(E, C, y, h, {})
    BY <1>5, <1>6, <2>1, <2>2, <2>3
  <2>5. Listens(h, g, frame.text)
    BY <1>9, <1>a, <2>4 DEF Listens, Heard
  <2> QED BY <2>4, <2>5 DEF g, h
<1> QED BY <1>8, <1>9

-----------------------------------------------------------------------------
(* The calls end, each once.                                               *)

LEMMA FinalCallOK ==
  ASSUME NEW tool, ToolShape(tool)
  PROVE  /\ CallOK(FinalCall(tool)) /\ ValidContent(FinalCall(tool))
         /\ FinalCall(tool).custom = tool.call.custom
<1> DEFINE args == IF tool.wrapped THEN UnwrapCustomToolArguments(tool.args)
                   ELSE IF tool.call.custom \/ IsJsonObject(tool.args) THEN tool.args
                   ELSE RepairLeakedXmlArguments(tool.args)
           call == [tool.call EXCEPT !.args = args]
<1>1. FinalCall(tool) = call
  BY DEF FinalCall
<1>2. tool.call.custom \/ IsJsonObject(args)
  BY ObjectsAssumption DEF ToolShape, IsJsonObject, RepairLeakedXmlArguments
<1> HIDE DEF args
<1>3. /\ DOMAIN call = DOMAIN tool.call /\ call.kind = tool.call.kind /\ call.id = tool.call.id
      /\ call.name = tool.call.name /\ call.custom = tool.call.custom /\ call.args = args
  BY DEF ToolShape, CallOK, CallFields
<1> HIDE DEF call
<1>4. CallOK(call)
  BY <1>3 DEF ToolShape, CallOK
<1>5. ValidContent(call)
  BY <1>2, <1>3, <1>4 DEF CallOK, ValidContent
<1> QED BY <1>1, <1>3, <1>4, <1>5
(* The calls up to the k-th are closed.                                    *)
ShutTo(d, k) == {d.tools[j].at : j \in 1..k}

LEMMA EndToolFine ==
  ASSUME NEW E, NEW C, NEW v, NEW d, NEW k \in 1..Len(d.tools),
         Fine(E, C, v, d, ShutTo(d, k - 1))
  PROVE  /\ \E w : Fine(E, C, w, EndTool(d, k), ShutTo(EndTool(d, k), k))
         /\ Len(EndTool(d, k).tools) = Len(d.tools) /\ EndTool(d, k).text = d.text
         /\ EndTool(d, k).think = d.think /\ TextKept(EndTool(d, k), d)
<1> DEFINE shut == ShutTo(d, k - 1)
           tool == d.tools[k]
           at == tool.at
           call == FinalCall(tool)
           told == IF tool.wrapped THEN TellCall(d, "toolcall_delta", tool, call.args) ELSE d
           x == [tool EXCEPT !.call = call]
           ts == [d.tools EXCEPT ![k] = x]
           c == [d.content EXCEPT ![at] = call]
           f == EndTool(d, k)
           ev == Event("toolcall_end", at, c[at])
<1>1. /\ DecFields \subseteq DOMAIN d /\ ContentOK(d.content) /\ ToolsOK(d.tools, d.content)
      /\ IsSeq(d.tools) /\ Len(d.tools) \in Nat /\ DOMAIN d.tools = 1..Len(d.tools)
      /\ Len(d.content) \in Nat
  BY SeqFacts, ContentFacts DEF Fine, DecOK, ToolsOK
<1>2. ToolOK(tool, d.content) /\ ToolShape(tool) /\ at \in 1..Len(d.content)
  <2>1. ToolOK(tool, d.content)
    BY <1>1 DEF ToolsOK
  <2> QED BY <2>1 DEF ToolOK
<1>3. CallOK(call) /\ ValidContent(call) /\ call.custom = tool.call.custom
  BY <1>2, FinalCallOK
<1>4. at \notin shut
  <2>1. \A j \in 1..(k - 1) : j \in 1..Len(d.tools) /\ j # k
    BY <1>1
  <2>2. \A j \in 1..(k - 1) : d.tools[j].at # at
    BY <1>1, <2>1 DEF ToolsOK
  <2> QED BY <2>2 DEF ShutTo
<1> HIDE DEF shut
<1>5. /\ DOMAIN told = DOMAIN d /\ told.content = d.content /\ told.text = d.text
      /\ told.think = d.think /\ told.tools = d.tools /\ told.stop = d.stop
      /\ told.finished = d.finished /\ TextKept(told, d)
      /\ \E w : Fine(E, C, w, told, shut)
  <2>1. Fine(E, C, v, d, shut)
    BY DEF shut
  <2>2. CASE tool.wrapped
    <3> DEFINE fragment == call.args
    <3> HIDE DEF fragment
    <3>1. told = TellCall(d, "toolcall_delta", d.tools[k], fragment)
      BY <2>2 DEF fragment
    <3> HIDE DEF told
    <3>2. CallIsOpen(E, C, v, d, shut, k)
      BY <1>4, <2>1 DEF CallIsOpen
    <3> HIDE DEF at, tool
    <3>3. /\ DOMAIN told = DOMAIN d /\ told.content = d.content /\ told.text = d.text
          /\ told.think = d.think /\ told.tools = d.tools /\ told.stop = d.stop
          /\ told.finished = d.finished /\ TextKept(told, d)
          /\ \E w : Fine(E, C, w, told, shut)
      BY <3>1, <3>2, TellDeltaFine
    <3> QED BY <3>3
  <2>3. CASE ~tool.wrapped
    <3>1. told = d
      BY <2>3
    <3> HIDE DEF told
    <3> QED BY <2>1, <3>1, KeptItself
  <2> QED BY <2>2, <2>3
<1>6. f = Tell([told EXCEPT !.content[at] = call, !.tools[k].call = call], "toolcall_end", at)
  BY DEF EndTool
<1> HIDE DEF told, f, call
<1>7. PICK w : Fine(E, C, w, told, shut)
  BY <1>5
<1>8. /\ DOMAIN x = DOMAIN tool /\ x.call = call /\ x.at = at /\ x.eventId = tool.eventId
      /\ x.wrapped = tool.wrapped
  BY <1>2 DEF ToolShape, ToolFields
<1>9. ToolOK(x, d.content)
  <2> HIDE DEF x
  <2>1. ToolShape(x)
    BY <1>2, <1>3, <1>8 DEF ToolShape
  <2> QED BY <1>2, <1>8, <2>1 DEF ToolOK
<1>10. BlockOK(call) /\ call.kind = "tool"
  BY <1>3 DEF CallOK, CallFields, BlockOK, Kinds
<1>11. Reshaped(c, d.content) /\ Replaced(c, d.content, at, call)
  <2>1. call.kind = d.content[at].kind
    BY <1>2, <1>10 DEF ToolOK
  <2> HIDE DEF at
  <2> QED BY <1>1, <1>2, <1>10, <2>1, BlockReplaced
<1>12. Replaced(ts, d.tools, k, x)
  <2> HIDE DEF x
  <2> QED BY <1>1, SeqExcept
<1>13. f = Tell([[told EXCEPT !.content = c] EXCEPT !.tools = ts], "toolcall_end", at)
  <2> DEFINE g == [told EXCEPT !.content[at] = call]
             h == [g EXCEPT !.tools[k].call = call]
  <2>1. g = [told EXCEPT !.content = c]
    BY <1>5
  <2>2. f = Tell(h, "toolcall_end", at)
    BY <1>6
  <2> HIDE DEF g, c
  <2>3. g.tools = d.tools /\ "tools" \in DOMAIN g
    BY <1>1, <1>5, <2>1 DEF DecFields
  <2>4. h = [g EXCEPT !.tools = ts]
    BY <2>3
  <2> QED BY <2>1, <2>2, <2>4
<1> HIDE DEF x, ts, c
<1>14. /\ DOMAIN f = DOMAIN d /\ f.tools = ts /\ f.content = c /\ f.text = d.text
       /\ f.think = d.think /\ f.finished = d.finished /\ f.out = Append(told.out, ev)
       /\ f.cut = told.cut /\ f.stopSequence = told.stopSequence
  BY <1>1, <1>5, <1>13 DEF Tell, DecFields
<1>15. c[at] = call /\ \A n \in 1..Len(d.content) : n # at => c[n] = d.content[n]
  BY <1>11 DEF Replaced
<1>16. ev.kind = "toolcall_end" /\ ev.index = at /\ ev.block = call
  BY <1>15, EventIs
<1> HIDE DEF ev
<1>17. /\ Sees(w, told, shut) /\ Orderly(w) /\ w.over = FALSE
       /\ Len(w.kinds) = Len(d.content) /\ w.shut = shut
       /\ \A i \in 1..Len(d.content) : w.kinds[i] = d.content[i].kind
       /\ w.text = d.text.at /\ w.think = d.think.at
  BY <1>5, <1>7 DEF Fine, Sees
<1>18. InPlace(w, ev) /\ ValidEvent(ev)
  <2>1. w.kinds[at] = "tool"
    BY <1>2, <1>17 DEF ToolOK
  <2> QED BY <1>2, <1>3, <1>4, <1>16, <1>17, <2>1 DEF InPlace, ValidEvent, EventKinds, Starts
<1> DEFINE y == After(w, ev)
<1>19. /\ y.kinds = w.kinds /\ y.told = w.told /\ y.text = w.text /\ y.think = w.think
       /\ y.shut = shut \cup {at} /\ y.over = w.over
  BY <1>16, <1>17, AfterCallEnd
<1> HIDE DEF y
<1>20. /\ IsSeq(f.tools) /\ Len(f.tools) = Len(d.tools) /\ f.tools[k] = x
       /\ \A j \in 1..Len(d.tools) : j # k => f.tools[j] = d.tools[j]
  BY <1>12, <1>14 DEF Replaced
<1>21. ShutTo(f, k) = shut \cup {at}
  <2>1. \A j \in 1..Len(d.tools) : f.tools[j].at = d.tools[j].at
    BY <1>8, <1>20
  <2>2. \A j \in 1..k : j \in 1..Len(d.tools) /\ (j \in 1..(k - 1) \/ j = k)
    BY <1>1
  <2>3. \A j \in 1..(k - 1) : j \in 1..k
    BY <1>1
  <2>4. k \in 1..k
    BY <1>1
  <2>5. ASSUME NEW a \in ShutTo(f, k) PROVE a \in shut \cup {at}
    <3>1. PICK j \in 1..k : a = f.tools[j].at
      BY DEF ShutTo
    <3>2. a = d.tools[j].at /\ (j \in 1..(k - 1) \/ j = k)
      BY <2>1, <2>2, <3>1
    <3> QED BY <3>2 DEF shut, ShutTo
  <2>6. ASSUME NEW a \in shut \cup {at} PROVE a \in ShutTo(f, k)
    <3>1. CASE a = at
      <4>1. a = f.tools[k].at
        BY <2>1, <3>1
      <4> QED BY <2>4, <4>1 DEF ShutTo
    <3>2. CASE a \in shut
      <4>1. PICK j \in 1..(k - 1) : a = d.tools[j].at
        BY <3>2 DEF shut, ShutTo
      <4>2. j \in 1..k /\ a = f.tools[j].at
        BY <2>1, <2>2, <2>3, <4>1
      <4> QED BY <4>2 DEF ShutTo
    <3> QED BY <3>1, <3>2
  <2> QED BY <2>5, <2>6
<1>22. DecOK(f)
  <2>1. DecOK(told) /\ TextOK(d.text, d.content) /\ ThinkOK(d.think, d.content)
    BY <1>5, <1>7 DEF Fine, DecOK
  <2>2. ToolsOK(ts, d.content)
    BY <1>1, <1>8, <1>9, <1>12, ToolChanged
  <2>3. TextOK(d.text, c) /\ ThinkOK(d.think, c) /\ ToolsOK(ts, c) /\ ContentOK(c)
    BY <1>1, <1>11, <2>1, <2>2, ReshapedKeeps DEF Reshaped
  <2>4. d.finished = FALSE
    BY DEF Fine, DecOK
  <2> QED BY <1>1, <1>14, <2>3, <2>4 DEF DecOK
<1>23. Sees(y, f, ShutTo(f, k))
  <2>1. Len(c) = Len(d.content) /\ \A i \in 1..Len(d.content) : c[i].kind = d.content[i].kind
    BY <1>11 DEF Reshaped
  <2>2. SeesText(y, f)
    <3> SUFFICES ASSUME NEW n \in 1..Len(d.content), d.content[n].kind = "text"
                 PROVE  y.told[n] = Told(f, n)
      BY <1>14, <2>1 DEF SeesText
    <3>1. n # at /\ c[n] = d.content[n]
      BY <1>2, <1>15 DEF ToolOK
    <3>2. w.told[n] = Told(told, n)
      BY <1>5, <1>17 DEF Sees, SeesText
    <3>3. Told(f, n) = Told(told, n)
      BY <1>5, <1>14, <3>1 DEF Told
    <3> QED BY <1>19, <3>2, <3>3
  <2> QED BY <1>14, <1>17, <1>19, <1>21, <2>1, <2>2 DEF Sees
<1>24. Fine(E, C, y, f, ShutTo(f, k))
  BY <1>7, <1>14, <1>18, <1>22, <1>23, FineTells DEF y
<1>25. TextKept(f, told)
  <2>1. IsSeq(told.out)
    BY <1>7 DEF Fine, Matched
  <2>2. ev.kind # "text_start" /\ f.out = Append(told.out, ev)
    BY <1>14, <1>16
  <2>3. Opened(Append(told.out, ev)) = Opened(told.out)
    BY <2>1, <2>2, OpenedGrows
  <2>4. Beside(f, told)
    BY <1>5, <1>14, <2>2, <2>3 DEF Beside
  <2>5. Reshaped(f.content, told.content)
    BY <1>5, <1>11, <1>14
  <2>6. \A n \in 1..Len(told.content) :
          told.content[n].kind = "text" => f.content[n] = told.content[n]
    BY <1>2, <1>5, <1>14, <1>15 DEF ToolOK
  <2> QED BY <2>4, <2>5, <2>6, ReshapedKept
<1>26. TextKept(f, d)
  BY <1>5, <1>25, KeptTwice
<1> QED BY <1>14, <1>20, <1>24, <1>26 DEF f
LEMMA ToolsEndedFine ==
  ASSUME NEW E, NEW C, NEW v, NEW d, Fine(E, C, v, d, {}),
         NEW g, g = ToolsEnded(d)[Len(d.tools)]
  PROVE  /\ g.text = d.text /\ g.think = d.think /\ TextKept(g, d)
         /\ \E w : Fine(E, C, w, g, ShutTo(g, Len(g.tools)))
<1> DEFINE m == Len(d.tools)
           h == ToolsEnded(d)
           Done(k) == /\ Len(h[k].tools) = m /\ h[k].text = d.text /\ h[k].think = d.think
                      /\ TextKept(h[k], d)
                      /\ \E w : Fine(E, C, w, h[k], ShutTo(h[k], k))
           T == {k \in 0..m : Done(k)}
<1>1. m \in Nat
  BY SeqFacts DEF Fine, DecOK, ToolsOK
<1>2. IsEnding(h, d, m)
  BY <1>1, EndingSteps
<1> HIDE DEF h
<1>3. 0 \in T
  <2>1. h[0] = d
    BY <1>2 DEF IsEnding
  <2>2. ShutTo(d, 0) = {}
    BY DEF ShutTo
  <2>3. Done(0)
    BY <2>1, <2>2, KeptItself
  <2> HIDE DEF Done
  <2> QED BY <1>1, <2>3
<1>4. \A k \in 1..m : k - 1 \in T => k \in T
  <2> SUFFICES ASSUME NEW k \in 1..m, k - 1 \in T PROVE k \in T
    OBVIOUS
  <2> DEFINE before == h[k - 1]
  <2>1. k \in 0..m /\ k \in 1..m
    BY <1>1
  <2>2. /\ Len(before.tools) = m /\ before.text = d.text /\ before.think = d.think
        /\ TextKept(before, d)
        /\ \E w : Fine(E, C, w, before, ShutTo(before, k - 1))
    OBVIOUS
  <2>3. h[k] = EndTool(before, k)
    BY <1>2 DEF IsEnding
  <2> HIDE DEF before
  <2>4. PICK w : Fine(E, C, w, before, ShutTo(before, k - 1))
    BY <2>2
  <2>5. k \in 1..Len(before.tools)
    BY <2>1, <2>2
  <2>6. /\ \E x : Fine(E, C, x, EndTool(before, k), ShutTo(EndTool(before, k), k))
        /\ Len(EndTool(before, k).tools) = Len(before.tools)
        /\ EndTool(before, k).text = before.text /\ EndTool(before, k).think = before.think
        /\ TextKept(EndTool(before, k), before)
    BY <2>4, <2>5, EndToolFine
  <2>a. TextKept(EndTool(before, k), d)
    BY <2>2, <2>6, KeptTwice
  <2>7. Done(k)
    BY <2>2, <2>3, <2>6, <2>a
  <2> HIDE DEF Done
  <2> QED BY <2>1, <2>7
<1>5. m \in T
  <2> HIDE DEF T
  <2>1. \A k \in 0..m : k \in T
    BY <1>1, <1>3, <1>4, StepByStep
  <2> QED BY <1>1, <2>1
<1>6. g = h[m]
  BY DEF h
<1> HIDE DEF h
<1> QED BY <1>5, <1>6

(* The answer is over: its last event has the content, and no encoder has  *)
(* refused it, unless the content is unfit.                                *)
Fit(content) == \A i \in DOMAIN content : ValidContent(content[i])

Shows(w, d) ==
  /\ Len(w.kinds) = Len(d.content) /\ \A i \in 1..Len(d.content) : w.kinds[i] = d.content[i].kind
  /\ SeesText(w, d)

Told1(E, C, out) == Relay("messages", E["messages"], C["messages"], out)

Settled(E, C, f) ==
  /\ f.finished = TRUE /\ DecFields \subseteq DOMAIN f
  /\ ContentOK(f.content) /\ TextOK(f.text, f.content)
  /\ Fit(f.content) => \E w : Matched(E, C, w, f.out) /\ Shows(w, f)
  /\ ~Fit(f.content) => Told1(E, C, f.out).e.refused = TRUE

LEMMA FinalEvent ==
  ASSUME NEW kind, NEW d, NEW reason
  PROVE  Final(kind, d, reason).kind = kind /\ Final(kind, d, reason).message = d.content
BY EventIs DEF Final

LEMMA UnfitIsRefused ==
  ASSUME NEW E, NEW C, NEW v, NEW out, Matched(E, C, v, out), NEW ev, ~ValidEvent(ev)
  PROVE  Told1(E, C, Append(out, ev)).e.refused = TRUE
<1> DEFINE pair == Told1(E, C, out)
           e == [pair.e EXCEPT !.wire = <<>>]
<1>1. "messages" \in Protocols
  BY DEF Protocols
<1>2. IsSeq(out) /\ Match("messages", v, pair)
  BY <1>1 DEF Matched, Told1
<1>3. Told1(E, C, Append(out, ev)) = AppendEvent(pair, "messages", ev)
  <2> DEFINE p == "messages"
  <2> HIDE DEF p
  <2>1. Relay(p, E[p], C[p], Append(out, ev)) = AppendEvent(Relay(p, E[p], C[p], out), p, ev)
    BY <1>2, RelayStep
  <2> QED BY <2>1 DEF p, Told1
<1> HIDE DEF pair
<1>4. MsgMatch(v, pair.e)
  BY <1>2 DEF Match, EncoderMatch
<1>5. MsgMatch(v, e)
  <2>1. EncoderMatch("messages", v, pair.e)
    BY <1>4 DEF EncoderMatch
  <2>2. EncoderMatch("messages", v, e)
    BY <1>1, <2>1, WireIsApart
  <2> QED BY <2>2 DEF EncoderMatch
<1>6. AppendEvent(pair, "messages", ev) = IF pair.e.refused THEN pair
        ELSE IF Encode("messages", e, ev).refused
        THEN [pair EXCEPT !.e.refused = TRUE, !.e.wire = <<>>]
        ELSE [e |-> [Encode("messages", e, ev) EXCEPT !.wire = <<>>],
              c |-> WireRead("messages", pair.c, Encode("messages", e, ev).wire)[Len(Encode("messages", e, ev).wire)]]
  BY DEF AppendEvent
<1> HIDE DEF e
<1>7. Encode("messages", e, ev) = [e EXCEPT !.refused = TRUE]
  BY DEF Encode, MessagesEncode
<1>8. Encode("messages", e, ev).refused = TRUE
  BY <1>5, <1>7 DEF MsgMatch, MsgFields
<1>9. AppendEvent(pair, "messages", ev) = [pair EXCEPT !.e.refused = TRUE, !.e.wire = <<>>]
  BY <1>4, <1>6, <1>8 DEF MsgMatch
<1>10. [pair EXCEPT !.e.refused = TRUE, !.e.wire = <<>>].e.refused = TRUE
  <2>1. pair = [e |-> pair.e, c |-> pair.c] /\ MsgFields \subseteq DOMAIN pair.e
    BY <1>2, <1>4 DEF Match, MsgMatch
  <2> QED BY <2>1 DEF MsgFields
<1> QED BY <1>3, <1>9, <1>10

(* The last event is told of a decoder that is done with its blocks.       *)
Closing(f, d, shut, ev) ==
  /\ f.finished = TRUE /\ DecFields \subseteq DOMAIN f /\ f.out = Append(d.out, ev)
  /\ f.text = d.text /\ f.cut = d.cut /\ f.stopSequence = d.stopSequence
  /\ Reshaped(f.content, d.content)
  /\ \A n \in 1..Len(d.content) : d.content[n].kind = "text" => f.content[n] = d.content[n]
  /\ ev.kind \in {"done", "error"} /\ ev.message = f.content
  /\ ev.kind = "done" =>
       /\ d.text.at = 0 /\ d.think.at = 0
       /\ \A i \in 1..Len(d.content) : d.content[i].kind = "tool" => i \in shut

LEMMA ClosingSettles ==
  ASSUME NEW E, NEW C, NEW v, NEW d, NEW shut, Fine(E, C, v, d, shut),
         NEW f, NEW ev, Closing(f, d, shut, ev)
  PROVE  Settled(E, C, f) /\ TextKept(f, d)
<1>1. Orderly(v) /\ Matched(E, C, v, d.out) /\ Sees(v, d, shut) /\ DecOK(d)
  BY DEF Fine
<1>2. /\ f.finished = TRUE /\ DecFields \subseteq DOMAIN f /\ f.out = Append(d.out, ev)
      /\ f.text = d.text /\ Reshaped(f.content, d.content)
      /\ ev.kind \in {"done", "error"} /\ ev.message = f.content
      /\ \A n \in 1..Len(d.content) : d.content[n].kind = "text" => f.content[n] = d.content[n]
  BY DEF Closing
<1>3. ContentOK(f.content) /\ TextOK(f.text, f.content)
  BY <1>1, <1>2, ReshapedKeeps DEF DecOK, Reshaped
<1>4. ValidEvent(ev) <=> Fit(f.content)
  BY <1>2 DEF ValidEvent, Fit
<1>5. ASSUME Fit(f.content) PROVE \E w : Matched(E, C, w, f.out) /\ Shows(w, f)
  <2> DEFINE w == After(v, ev)
  <2>1. ev.kind = "done" => /\ v.text = 0 /\ v.think = 0
                            /\ \A i \in 1..Len(v.kinds) : v.kinds[i] = "tool" => i \in v.shut
    BY <1>1 DEF Closing, Sees
  <2>2. InPlace(v, ev)
    BY <1>1, <1>2, <2>1 DEF InPlace, EventKinds, Starts, Sees
  <2>3. Matched(E, C, w, Append(d.out, ev))
    BY <1>1, <1>4, <1>5, <2>2, Telling
  <2>4. w.kinds = v.kinds /\ w.told = v.told
    <3>1. ev.kind \in EventKinds \ Starts
      BY <1>2 DEF EventKinds, Starts
    <3> QED BY <1>1, <1>2, <3>1, AfterIs
  <2> HIDE DEF w
  <2>5. Len(f.content) = Len(d.content) /\ \A i \in 1..Len(d.content) : f.content[i].kind = d.content[i].kind
    BY <1>2 DEF Reshaped
  <2>6. ASSUME NEW i \in 1..Len(d.content), f.content[i].kind = "text" PROVE w.told[i] = Told(f, i)
    <3>1. d.content[i].kind = "text" /\ f.content[i] = d.content[i]
      BY <1>2, <2>5, <2>6
    <3>2. v.told[i] = Told(d, i)
      BY <1>1, <3>1 DEF Sees, SeesText
    <3>3. Told(f, i) = Told(d, i)
      BY <1>2, <3>1 DEF Told
    <3> QED BY <2>4, <3>2, <3>3
  <2>7. Shows(w, f)
    BY <1>1, <2>4, <2>5, <2>6 DEF Shows, Sees, SeesText
  <2> QED BY <1>2, <2>3, <2>7
<1>6. ASSUME ~Fit(f.content) PROVE Told1(E, C, f.out).e.refused = TRUE
  <2>1. ~ValidEvent(ev)
    BY <1>4, <1>6
  <2>2. Told1(E, C, Append(d.out, ev)).e.refused = TRUE
    BY <1>1, <2>1, UnfitIsRefused
  <2> QED BY <1>2, <2>2
<1>7. TextKept(f, d)
  <2>1. IsSeq(d.out) /\ ev.kind # "text_start"
    BY <1>1, <1>2 DEF Matched
  <2>2. Opened(Append(d.out, ev)) = Opened(d.out)
    BY <2>1, OpenedGrows
  <2>3. Beside(f, d)
    BY <1>2, <2>2 DEF Beside, Closing
  <2> QED BY <1>2, <2>3, ReshapedKept
<1> QED BY <1>2, <1>3, <1>5, <1>6, <1>7 DEF Settled

LEMMA CompleteFine ==
  ASSUME NEW E, NEW C, NEW v, NEW d, Fine(E, C, v, Fresh(d), {}), DecFields \subseteq DOMAIN d,
         NEW reason
  PROVE  Settled(E, C, Complete(d, reason)) /\ Carries(Complete(d, reason), Fresh(d))
<1> DEFINE g == Fresh(d)
           quiet == EndThinking(g)
           closed == EndText(quiet)
           final == ToolsEnded(closed)[Len(closed.tools)]
           shut == ShutTo(final, Len(final.tools))
           ev == Final("done", final, reason)
           f == [final EXCEPT !.finished = TRUE, !.out = Append(@, ev)]
<1>1. ThinkingEnded(quiet, g) /\ \E w : Fine(E, C, w, quiet, {})
  <2> HIDE DEF g
  <2>1. Fine(E, C, v, g, {})
    BY DEF g
  <2> QED BY <2>1, EndThinkingFine
<1>2. g.tools = d.tools
  BY DEF Fresh, DecFields
<1> HIDE DEF quiet, g
<1>3. PICK w : Fine(E, C, w, quiet, {})
  BY <1>1
<1>4. TextEnded(closed, quiet) /\ \E x : Fine(E, C, x, closed, {})
  BY <1>3, EndTextFine
<1>5. Complete(d, reason) = f
  <2>1. Len(closed.tools) = Len(d.tools)
    BY <1>1, <1>2, <1>4 DEF ThinkingEnded, TextEnded
  <2> QED BY <2>1 DEF Complete, Fresh, quiet, g
<1> HIDE DEF closed
<1>6. PICK x : Fine(E, C, x, closed, {})
  BY <1>4
<1>7. closed.text.at = 0 /\ closed.think.at = 0
  BY <1>1, <1>4 DEF ThinkingEnded, TextEnded
<1>8. /\ final.text = closed.text /\ final.think = closed.think /\ TextKept(final, closed)
      /\ \E y : Fine(E, C, y, final, shut)
  BY <1>6, ToolsEndedFine
<1> HIDE DEF final
<1>9. PICK y : Fine(E, C, y, final, shut)
  BY <1>8
<1>10. DecFields \subseteq DOMAIN final /\ ToolsOK(final.tools, final.content) /\ ContentOK(final.content)
  BY <1>9 DEF Fine, DecOK
<1>11. /\ f.finished = TRUE /\ DecFields \subseteq DOMAIN f /\ f.content = final.content
       /\ f.out = Append(final.out, ev) /\ f.text = final.text /\ f.cut = final.cut
       /\ f.stopSequence = final.stopSequence
  BY <1>10 DEF DecFields
<1>12. ev.kind = "done" /\ ev.message = final.content
  BY FinalEvent
<1> HIDE DEF f, ev
<1>13. \A i \in 1..Len(final.content) : final.content[i].kind = "tool" => i \in shut
  BY <1>10 DEF ToolsOK, ShutTo
<1> HIDE DEF shut
<1>14. Closing(f, final, shut, ev)
  <2>1. Reshaped(f.content, final.content)
    BY <1>10, <1>11, ReshapedItself
  <2> QED BY <1>7, <1>8, <1>11, <1>12, <1>13, <2>1 DEF Closing
<1>15. Settled(E, C, f) /\ TextKept(f, final)
  BY <1>9, <1>14, ClosingSettles
<1>16. Carries(f, g)
  <2>1. Carries(quiet, g)
    BY <1>1, KeptCarries DEF ThinkingEnded
  <2>2. TextOK(quiet.text, quiet.content) /\ ContentOK(quiet.content)
    BY <1>3 DEF Fine, DecOK
  <2>3. Carries(closed, quiet)
    BY <1>4, <2>2, EndTextCarries
  <2>4. TextKept(f, closed)
    BY <1>8, <1>15, KeptTwice
  <2>5. Carries(f, closed)
    BY <2>4, KeptCarries
  <2>6. Carries(closed, g)
    BY <2>1, <2>3, CarriesTwice
  <2> QED BY <2>5, <2>6, CarriesTwice
<1> QED BY <1>5, <1>15, <1>16 DEF g

LEMMA FailFine ==
  ASSUME NEW E, NEW C, NEW v, NEW d, Fine(E, C, v, Fresh(d), {}), DecFields \subseteq DOMAIN d,
         d.finished = FALSE
  PROVE  Settled(E, C, Fail(d)) /\ Carries(Fail(d), Fresh(d))
<1> DEFINE g == Fresh(d)
           block == ThinkingBlock([d.think EXCEPT !.body = <<>>])
           kept == IF d.think.at = 0 THEN d ELSE [d EXCEPT !.content[d.think.at] = block]
           ev == Final("error", kept, "error")
           f == [kept EXCEPT !.finished = TRUE, !.out = <<ev>>]
<1>1. Fail(d) = f
  BY DEF Fail
<1>2. /\ g.out = <<>> /\ g.content = d.content /\ g.text = d.text /\ g.think = d.think
      /\ g.cut = d.cut /\ g.stopSequence = d.stopSequence
  BY DEF Fresh, DecFields
<1>3. ContentOK(d.content) /\ ThinkOK(d.think, d.content)
  <2>1. ContentOK(g.content) /\ ThinkOK(g.think, g.content)
    BY DEF Fine, DecOK
  <2> HIDE DEF g
  <2> QED BY <1>2, <2>1
<1>4. BlockOK(block) /\ block.kind = "thinking"
  <2> DEFINE think == [d.think EXCEPT !.body = <<>>]
  <2>1. think.redacted \in BOOLEAN
    BY <1>3 DEF ThinkOK
  <2> HIDE DEF think
  <2>2. /\ DOMAIN ThinkingBlock(think) = {"kind", "body", "sig", "redacted"}
        /\ ThinkingBlock(think).kind = "thinking" /\ ThinkingBlock(think).redacted = think.redacted
    BY DEF ThinkingBlock
  <2>3. block = ThinkingBlock(think)
    BY DEF think
  <2> HIDE DEF block
  <2> QED BY <2>1, <2>2, <2>3 DEF BlockOK, Kinds
<1> HIDE DEF block
<1> DEFINE c == IF d.think.at = 0 THEN d.content ELSE [d.content EXCEPT ![d.think.at] = block]
<1>5. /\ DecFields \subseteq DOMAIN kept /\ kept.content = c /\ kept.text = d.text
      /\ kept.cut = d.cut /\ kept.stopSequence = d.stopSequence
  BY DEF DecFields
<1>6. /\ Reshaped(c, d.content)
      /\ \A n \in 1..Len(d.content) : d.content[n].kind = "text" => c[n] = d.content[n]
  <2>1. CASE d.think.at = 0
    BY <1>3, <2>1, ReshapedItself
  <2>2. CASE d.think.at # 0
    <3> DEFINE at == d.think.at
    <3>1. at \in 1..Len(d.content) /\ d.content[at].kind = "thinking"
      BY <1>3, <2>2, ContentFacts DEF ThinkOK
    <3>2. c = [d.content EXCEPT ![at] = block]
      BY <2>2
    <3> HIDE DEF at, c
    <3>3. Reshaped(c, d.content) /\ Replaced(c, d.content, at, block)
      BY <1>3, <1>4, <3>1, <3>2, BlockReplaced
    <3> QED BY <3>1, <3>3 DEF Replaced
  <2> QED BY <2>1, <2>2
<1> HIDE DEF kept, c, g
<1>7. /\ f.finished = TRUE /\ DecFields \subseteq DOMAIN f /\ f.out = <<ev>>
      /\ f.content = c /\ f.text = d.text /\ f.cut = d.cut /\ f.stopSequence = d.stopSequence
  BY <1>5 DEF DecFields
<1>8. ev.kind = "error" /\ ev.message = c
  BY <1>5, FinalEvent
<1> HIDE DEF f, ev
<1>9. f.out = Append(g.out, ev)
  BY <1>2, <1>7
<1>10. Closing(f, g, {}, ev)
  BY <1>2, <1>6, <1>7, <1>8, <1>9 DEF Closing
<1>11. Fine(E, C, v, g, {})
  BY DEF g
<1>12. Settled(E, C, f) /\ TextKept(f, g)
  BY <1>10, <1>11, ClosingSettles
<1> QED BY <1>1, <1>12, KeptCarries DEF g

LEMMA FinishFine ==
  ASSUME NEW E, NEW C, NEW v, NEW d, Fine(E, C, v, Fresh(d), {}), DecFields \subseteq DOMAIN d,
         d.finished = FALSE
  PROVE  Settled(E, C, Finish(d)) /\ Carries(Finish(d), Fresh(d))
<1>1. /\ Settled(E, C, Fail(d)) /\ Carries(Fail(d), Fresh(d))
      /\ Settled(E, C, Complete(d, "stop_sequence")) /\ Carries(Complete(d, "stop_sequence"), Fresh(d))
      /\ Settled(E, C, Complete(d, d.stop)) /\ Carries(Complete(d, d.stop), Fresh(d))
  BY FailFine, CompleteFine
<1>2. Finish(d) \in {Fail(d), Complete(d, "stop_sequence"), Complete(d, d.stop)}
  BY DEF Finish
<1> QED BY <1>1, <1>2

-----------------------------------------------------------------------------
(* The answer: what holds between two steps of the stream.                 *)

(* Every encoder has followed what the decoder told so far, or the answer  *)
(* is over.                                                                *)
Attended(E, C, d) == \E v : Fine(E, C, v, Fresh(d), {})

CodecInv ==
  \/ dec.finished = FALSE /\ DecFields \subseteq DOMAIN dec /\ Attended(encoders, clients, dec)
  \/ dec.finished = TRUE /\ EventsAreAccepted

(* The encoders and clients after a step that told the events of `out`.    *)
Told2(E, C, out, E2, C2) ==
  /\ E2 = [p \in Protocols |-> Relay(p, E[p], C[p], out).e]
  /\ C2 = [p \in Protocols |-> Relay(p, E[p], C[p], out).c]

LEMMA RelayAllIs ==
  ASSUME NEW out, RelayAll(out)
  PROVE  Told2(encoders, clients, out, encoders', clients')
BY DEF RelayAll, Told2

LEMMA MatchedAgain ==
  ASSUME NEW E, NEW C, NEW v, NEW out, Matched(E, C, v, out), NEW E2, NEW C2,
         Told2(E, C, out, E2, C2)
  PROVE  Matched(E2, C2, v, <<>>)
<1>1. ASSUME NEW p \in Protocols PROVE Match(p, v, Relay(p, E2[p], C2[p], <<>>))
  <2> DEFINE pair == Relay(p, E[p], C[p], out)
  <2>1. Match(p, v, pair)
    BY DEF Matched
  <2>2. E2[p] = pair.e /\ C2[p] = pair.c
    BY DEF Told2
  <2>3. Relay(p, E2[p], C2[p], <<>>) = [e |-> E2[p], c |-> C2[p]]
    BY RelayNothing
  <2> HIDE DEF pair
  <2>4. pair = [e |-> pair.e, c |-> pair.c]
    BY <2>1 DEF Match
  <2>5. Relay(p, E2[p], C2[p], <<>>) = pair
    BY <2>2, <2>3, <2>4
  <2> QED BY <2>1, <2>5
<1> QED BY <1>1, EmptyIsSeq DEF Matched

LEMMA FreshIs ==
  ASSUME NEW d, DecFields \subseteq DOMAIN d
  PROVE  /\ DOMAIN Fresh(d) = DOMAIN d /\ Fresh(d).content = d.content
         /\ Fresh(d).text = d.text /\ Fresh(d).think = d.think /\ Fresh(d).tools = d.tools
         /\ Fresh(d).finished = d.finished /\ Fresh(d).out = <<>>
         /\ Fresh(Fresh(d)) = Fresh(d)
BY DEF Fresh, DecFields

LEMMA StepAttends ==
  ASSUME NEW E, NEW C, NEW v, NEW after, Fine(E, C, v, after, {}),
         NEW E2, NEW C2, Told2(E, C, after.out, E2, C2)
  PROVE  /\ Attended(E2, C2, Fresh(after)) /\ DecFields \subseteq DOMAIN Fresh(after)
         /\ Fresh(after).finished = FALSE
<1> DEFINE f == Fresh(after)
<1>1. /\ DecOK(after) /\ Orderly(v) /\ Sees(v, after, {}) /\ Matched(E, C, v, after.out)
      /\ DecFields \subseteq DOMAIN after /\ after.finished = FALSE
  BY DEF Fine, DecOK
<1>2. /\ DOMAIN f = DOMAIN after /\ f.content = after.content
      /\ f.text = after.text /\ f.think = after.think /\ f.tools = after.tools
      /\ f.finished = after.finished /\ f.out = <<>> /\ Fresh(f) = f
  BY <1>1, FreshIs
<1> HIDE DEF f
<1>3. DecOK(f)
  BY <1>1, <1>2 DEF DecOK
<1>4. \A i : Told(f, i) = Told(after, i)
  BY <1>2 DEF Told
<1>5. Sees(v, f, {})
  BY <1>1, <1>2, <1>4 DEF Sees, SeesText
<1>6. Matched(E2, C2, v, f.out)
  BY <1>1, <1>2, MatchedAgain
<1>7. Fine(E2, C2, v, f, {})
  BY <1>1, <1>3, <1>5, <1>6 DEF Fine
<1> QED BY <1>1, <1>2, <1>7 DEF Attended, f

LEMMA AttendedAccepts ==
  ASSUME NEW E, NEW C, NEW v, Matched(E, C, v, <<>>), NEW p \in Protocols
  PROVE  E[p].refused = FALSE
<1>1. Match(p, v, Relay(p, E[p], C[p], <<>>))
  BY DEF Matched
<1>2. Relay(p, E[p], C[p], <<>>) = [e |-> E[p], c |-> C[p]]
  BY RelayNothing
<1>3. EncoderMatch(p, v, E[p])
  BY <1>1, <1>2 DEF Match
<1> QED BY <1>3, NotRefused

LEMMA InvAccepts == CodecInv => EventsAreAccepted
<1> SUFFICES ASSUME dec.finished = FALSE, DecFields \subseteq DOMAIN dec,
                    Attended(encoders, clients, dec)
             PROVE  EventsAreAccepted
  BY DEF CodecInv
<1>1. PICK v : Fine(encoders, clients, v, Fresh(dec), {})
  BY DEF Attended
<1>2. Matched(encoders, clients, v, <<>>)
  BY <1>1, FreshIs DEF Fine
<1>3. \A p \in Protocols : encoders[p].refused = FALSE
  BY <1>2, AttendedAccepts
<1> QED BY <1>3 DEF EventsAreAccepted

(* The first event opens the answer.                                       *)
NoView == [kinds |-> <<>>, told |-> <<>>, text |-> 0, think |-> 0, shut |-> {}, over |-> FALSE]

LEMMA NoViewIs ==
  /\ Orderly(NoView) /\ NoView.kinds = <<>> /\ NoView.told = <<>> /\ NoView.text = 0
  /\ NoView.think = 0 /\ NoView.shut = {} /\ NoView.over = FALSE /\ Len(NoView.kinds) = 0
<1>1. <<>> \in Seq(Kinds) /\ <<>> \in Seq(Seq(Bytes)) /\ Len(<<>>) = 0
  OBVIOUS
<1> QED BY <1>1 DEF NoView, Orderly, Views

NewEncoder(p) ==
  CASE p = "messages" -> NewMessages [] p = "responses" -> NewResponses [] p = "chat" -> NewChat

LEMMA NoViewMatches ==
  ASSUME NEW s, IsSeq(s), Len(s) = 0, NEW e, e.refused = FALSE, e.finished = FALSE
  PROVE  /\ MsgFields \subseteq DOMAIN e /\ e.blocks = s => MsgMatch(NoView, e)
         /\ RespFields \subseteq DOMAIN e /\ e.items = s => RespMatch(NoView, e)
         /\ ChatFields \subseteq DOMAIN e /\ e.calls = s /\ e.texts = {} /\ e.thoughts = {}
            => ChatMatch(NoView, e)
<1>0. /\ NoView.over = FALSE /\ NoView.text = 0 /\ NoView.think = 0 /\ Len(NoView.kinds) = 0
      /\ \A n \in 1..Len(NoView.kinds) : FALSE
  <2>1. NoView.over = FALSE /\ NoView.text = 0 /\ NoView.think = 0 /\ Len(NoView.kinds) = 0
    BY NoViewIs
  <2>2. \A n \in 1..0 : FALSE
    OBVIOUS
  <2> QED BY <2>1, <2>2
<1>1. ASSUME MsgFields \subseteq DOMAIN e, e.blocks = s PROVE MsgMatch(NoView, e)
  BY <1>0, <1>1, Zenon DEF MsgMatch
<1>2. ASSUME RespFields \subseteq DOMAIN e, e.items = s PROVE RespMatch(NoView, e)
  BY <1>0, <1>2, Zenon DEF RespMatch, Itemized
<1>3. ASSUME ChatFields \subseteq DOMAIN e, e.calls = s, e.texts = {}, e.thoughts = {}
      PROVE  ChatMatch(NoView, e)
  <2>1. {NoView.text} \ {0} = {} /\ {NoView.think} \ {0} = {}
    BY <1>0
  <2> QED BY <1>0, <1>3, <2>1, Zenon DEF ChatMatch
<1> QED BY <1>1, <1>2, <1>3

LEMMA NewMatches ==
  ASSUME NEW p \in Protocols
  PROVE  EncoderMatch(p, NoView, NewEncoder(p))
<1> DEFINE nothing == <<>>
<1>0. IsSeq(nothing) /\ Len(nothing) = 0
  BY EmptyIsSeq
<1>1. /\ MsgFields \subseteq DOMAIN NewMessages /\ NewMessages.blocks = nothing
      /\ NewMessages.refused = FALSE /\ NewMessages.finished = FALSE
  <2> HIDE DEF nothing
  <2>1. NewMessages = [blocks |-> nothing, finished |-> FALSE, refused |-> FALSE, wire |-> nothing]
    BY Zenon DEF NewMessages, nothing
  <2> QED BY <2>1 DEF MsgFields
<1>2. /\ RespFields \subseteq DOMAIN NewResponses /\ NewResponses.items = nothing
      /\ NewResponses.refused = FALSE /\ NewResponses.finished = FALSE
  <2> HIDE DEF nothing
  <2>1. NewResponses = [items |-> nothing, finished |-> FALSE, refused |-> FALSE, wire |-> nothing]
    BY Zenon DEF NewResponses, nothing
  <2> QED BY <2>1 DEF RespFields
<1>3. /\ ChatFields \subseteq DOMAIN NewChat /\ NewChat.calls = nothing
      /\ NewChat.texts = {} /\ NewChat.thoughts = {}
      /\ NewChat.refused = FALSE /\ NewChat.finished = FALSE
  <2> HIDE DEF nothing
  <2>1. NewChat = [texts |-> {}, thoughts |-> {}, calls |-> nothing, finished |-> FALSE,
                   refused |-> FALSE, wire |-> nothing]
    BY Zenon DEF NewChat, nothing
  <2> QED BY <2>1 DEF ChatFields
<1> HIDE DEF nothing
<1>4. MsgMatch(NoView, NewMessages)
  BY <1>0, <1>1, NoViewMatches
<1>5. RespMatch(NoView, NewResponses)
  BY <1>0, <1>2, NoViewMatches
<1>6. ChatMatch(NoView, NewChat)
  BY <1>0, <1>3, NoViewMatches
<1> QED BY <1>4, <1>5, <1>6 DEF Protocols, EncoderMatch, NewEncoder

LEMMA StartFollows ==
  ASSUME NEW p \in Protocols, NEW e, EncoderMatch(p, NoView, e)
  PROVE  EncoderMatch(p, NoView, Encode(p, e, StartEvent))
<1>1. StartEvent.kind = "start"
  BY EventIs DEF StartEvent
<1>2. ValidEvent(StartEvent)
  BY <1>1 DEF ValidEvent
<1>3. CASE p = "messages"
  <2>1. MsgMatch(NoView, e) /\ e.finished = FALSE
    BY <1>3, NoViewIs DEF EncoderMatch, MsgMatch
  <2>2. MessagesEncode(e, StartEvent) = Write(e, Frame("open", 1, "plain", <<>>))
    BY <1>1, <1>2, <2>1 DEF MessagesEncode, MessagesKnows, MessagesHandle
  <2>3. MsgMatch(NoView, MessagesEncode(e, StartEvent))
    BY <2>1, <2>2, WriteMatches
  <2> QED BY <1>3, <2>3 DEF EncoderMatch, Encode
<1>4. CASE p = "responses"
  <2>1. RespMatch(NoView, e) /\ e.finished = FALSE
    BY <1>4, NoViewIs DEF EncoderMatch, RespMatch
  <2> DEFINE nothing == <<>>
  <2>2. ResponsesEncode(e, StartEvent) = Emit(e, "created", 1, nothing)
    BY <1>1, <1>2, <2>1 DEF ResponsesEncode, ResponsesKnows, ResponsesHandle
  <2> HIDE DEF nothing
  <2>3. RespMatch(NoView, Emit(e, "created", 1, nothing))
    <3> DEFINE f == Emit(e, "created", 1, nothing)
    <3>1. Itemized(e, 0)
      BY <2>1, NoViewIs DEF RespMatch
    <3>2. Itemized(f, 0) /\ f.items = e.items /\ f.refused = e.refused /\ f.finished = e.finished
      BY <3>1, EmitKeeps
    <3> HIDE DEF f
    <3>3. RespMatch(NoView, f)
      BY <2>1, <3>2, NoViewIs DEF RespMatch, Itemized
    <3> QED BY <3>3 DEF f
  <2> QED BY <1>4, <2>2, <2>3 DEF EncoderMatch, Encode
<1>5. CASE p = "chat"
  <2>1. ChatMatch(NoView, e) /\ e.finished = FALSE
    BY <1>5, NoViewIs DEF EncoderMatch, ChatMatch
  <2>2. ChatEncode(e, StartEvent) = Chunk(e, "role", 1, <<>>)
    BY <1>1, <1>2, <2>1 DEF ChatEncode, ChatKnows, ChatHandle
  <2>3. ChatMatch(NoView, ChatEncode(e, StartEvent))
    BY <2>1, <2>2, ChunkMatches
  <2> QED BY <1>5, <2>3 DEF EncoderMatch, Encode
<1> QED BY <1>3, <1>4, <1>5 DEF Protocols

LEMMA NewDecoderIs ==
  ASSUME NEW nothing, nothing = <<>>
  PROVE  /\ DecFields \subseteq DOMAIN NewDecoder
         /\ NewDecoder.finished = FALSE /\ NewDecoder.content = nothing
         /\ NewDecoder.tools = nothing /\ NewDecoder.out = nothing
         /\ {"at", "buf", "sent"} \subseteq DOMAIN NewDecoder.text
         /\ NewDecoder.text.at = 0 /\ NewDecoder.text.buf = nothing /\ NewDecoder.text.sent = 0
         /\ {"at", "body", "sig", "redacted"} \subseteq DOMAIN NewDecoder.think
         /\ NewDecoder.think.at = 0 /\ NewDecoder.think.redacted = FALSE
<1>1. NewDecoder = [content |-> nothing, text |-> NoText, think |-> NoThinking, tools |-> nothing,
                    stop |-> "none", cut |-> FALSE, stopSequence |-> nothing,
                    finished |-> FALSE, out |-> nothing]
  BY Zenon DEF NewDecoder
<1>2. NoText = [at |-> 0, buf |-> nothing, sent |-> 0]
  BY Zenon DEF NoText
<1>3. NoThinking = [at |-> 0, body |-> nothing, sig |-> nothing, redacted |-> FALSE]
  BY Zenon DEF NoThinking
<1> DEFINE d == NewDecoder
           text == NoText
           think == NoThinking
<1> HIDE DEF text, think
<1>4. /\ DecFields \subseteq DOMAIN d /\ d.finished = FALSE /\ d.content = nothing
      /\ d.tools = nothing /\ d.out = nothing /\ d.text = text /\ d.think = think
  <2>1. d = [content |-> nothing, text |-> text, think |-> think, tools |-> nothing,
             stop |-> "none", cut |-> FALSE, stopSequence |-> nothing,
             finished |-> FALSE, out |-> nothing]
    BY <1>1 DEF text, think
  <2> HIDE DEF d
  <2> QED BY <2>1 DEF DecFields
<1>5. /\ {"at", "buf", "sent"} \subseteq DOMAIN text
      /\ text.at = 0 /\ text.buf = nothing /\ text.sent = 0
  <2>1. text = [at |-> 0, buf |-> nothing, sent |-> 0]
    BY <1>2 DEF text
  <2> QED BY <2>1
<1>6. /\ {"at", "body", "sig", "redacted"} \subseteq DOMAIN think
      /\ think.at = 0 /\ think.redacted = FALSE
  <2>1. think = [at |-> 0, body |-> nothing, sig |-> nothing, redacted |-> FALSE]
    BY <1>3 DEF think
  <2> QED BY <2>1
<1> QED BY <1>4, <1>5, <1>6

LEMMA NewDecoderOK ==
  /\ DecOK(Fresh(NewDecoder)) /\ Sees(NoView, Fresh(NewDecoder), {})
  /\ Fresh(NewDecoder).out = <<>>
<1> DEFINE nothing == <<>>
           d == NewDecoder
           g == Fresh(d)
<1>1. IsSeq(nothing) /\ Len(nothing) = 0 /\ nothing \in Seq(Bytes)
  BY EmptyIsSeq
<1>2. \A i \in 1..0 : FALSE
  OBVIOUS
<1>3. NoView.kinds = nothing
  BY NoViewIs
<1>4. /\ NoView.over = FALSE /\ NoView.shut = {} /\ NoView.text = 0 /\ NoView.think = 0
      /\ Len(NoView.kinds) = 0
  BY NoViewIs
<1>5. nothing = <<>>
  OBVIOUS
<1>6. /\ DecFields \subseteq DOMAIN d
      /\ d.finished = FALSE /\ d.content = nothing /\ d.tools = nothing
      /\ {"at", "buf", "sent"} \subseteq DOMAIN d.text
      /\ d.text.at = 0 /\ d.text.buf = nothing /\ d.text.sent = 0
      /\ {"at", "body", "sig", "redacted"} \subseteq DOMAIN d.think
      /\ d.think.at = 0 /\ d.think.redacted = FALSE
  BY <1>5, NewDecoderIs
<1>7. /\ DOMAIN g = DOMAIN d /\ g.content = d.content /\ g.text = d.text
      /\ g.think = d.think /\ g.tools = d.tools /\ g.finished = d.finished /\ g.out = nothing
  BY <1>6, FreshIs
<1> HIDE DEF nothing, d, g
<1>8. ContentOK(g.content) /\ Len(g.content) = 0
  BY <1>1, <1>2, <1>6, <1>7, Zenon DEF ContentOK
<1>9. TextOK(g.text, g.content)
  <2>1. nothing = <<>>
    BY DEF nothing
  <2>2. g.text.at \in 0..Len(g.content) /\ g.text.sent \in 0..Len(g.text.buf)
    BY <1>1, <1>6, <1>7, <1>8
  <2>3. g.text.buf = <<>> /\ g.text.sent = 0 /\ g.text.at = 0
    BY <1>6, <1>7, <2>1
  <2> QED BY <1>1, <1>6, <1>7, <2>2, <2>3, Zenon DEF TextOK
<1>10. ThinkOK(g.think, g.content)
  <2>0. g.think.at = 0 /\ g.think.redacted = FALSE
    BY <1>6, <1>7, Zenon
  <2>1. g.think.at \in 0..Len(g.content)
    BY <1>8, <2>0
  <2>2. g.think.redacted \in BOOLEAN
    BY <2>0, Zenon
  <2> QED BY <1>6, <1>7, <2>0, <2>1, <2>2, Zenon DEF ThinkOK
<1>11. ToolsOK(g.tools, g.content)
  BY <1>1, <1>2, <1>6, <1>7, <1>8, Zenon DEF ToolsOK
<1>12. DecOK(g)
  BY <1>6, <1>7, <1>8, <1>9, <1>10, <1>11 DEF DecOK
<1>13. Sees(NoView, g, {})
  BY <1>2, <1>4, <1>6, <1>7, <1>8, Zenon DEF Sees, SeesText
<1> QED BY <1>7, <1>12, <1>13 DEF g, d, nothing

LEMMA OpensReading ==
  ASSUME NEW e, MsgMatch(NoView, e), e.wire = <<>>
  PROVE  ReadOn(NoView, NewMessagesClient, MessagesEncode(e, StartEvent))
<1> DEFINE c == NewMessagesClient
           nothing == <<>>
           frame == Frame("open", 1, "plain", nothing)
           k == MessagesRead(c, frame)
<1>1. StartEvent.kind = "start"
  BY EventIs DEF StartEvent
<1>2. ValidEvent(StartEvent)
  BY <1>1 DEF ValidEvent
<1>3. MessagesEncode(e, StartEvent) = Write(e, frame)
  <2>1. e.finished = FALSE
    BY NoViewIs DEF MsgMatch
  <2> QED BY <1>1, <1>2, <2>1 DEF MessagesEncode, MessagesKnows, MessagesHandle
<1>4. frame.name = "open"
  <2> HIDE DEF nothing
  <2> QED BY FrameIs
<1>5. IsSeq(nothing) /\ Len(nothing) = 0 /\ e.wire = nothing
  BY EmptyIsSeq
<1> HIDE DEF nothing, frame
<1>6. c = [state |-> "waiting", blocks |-> nothing, closed |-> nothing]
  BY Zenon DEF NewMessagesClient, nothing
<1> HIDE DEF c
<1>7. /\ k.state = "reading" /\ k.blocks = nothing /\ k.closed = nothing
      /\ ClientFields \subseteq DOMAIN k
  BY <1>4, <1>6 DEF MessagesRead, ClientFields
<1> HIDE DEF k
<1>8. \A b \in 1..0 : FALSE
  OBVIOUS
<1>9. /\ Len(k.blocks) = 0 /\ Len(k.closed) = 0 /\ Len(NoView.kinds) = 0
      /\ IsSeq(k.blocks) /\ IsSeq(k.closed)
  BY <1>5, <1>7, NoViewIs
<1>10. ClientOK(k)
  BY <1>7, <1>8, <1>9, Zenon DEF ClientOK
<1>11. TextIntact(NoView, k)
  BY <1>8, <1>9, Zenon DEF TextIntact
<1>12. InStep(NoView, e.blocks, k)
  BY <1>7, <1>8, <1>9, Zenon DEF InStep
<1>13. ClientMatch(NoView, e.blocks, k)
  BY <1>10, <1>11, <1>12 DEF ClientMatch
<1>14. Write(e, frame).blocks = e.blocks /\ Reads(c, Write(e, frame)) = k
  <2>1. IsSeq(e.wire) /\ Reads(c, e) = c
    BY <1>5, ReadsNothing DEF nothing
  <2> QED BY <2>1, OneMore DEF k
<1> QED BY <1>3, <1>13, <1>14 DEF ReadOn, c

LEMMA StartsMatched ==
  ASSUME NEW p \in Protocols, NEW c, p = "messages" => c = NewMessagesClient
  PROVE  Match(p, NoView, Relay(p, NewEncoder(p), c, <<StartEvent>>))
<1> DEFINE e == NewEncoder(p)
           ev == StartEvent
           pair == [e |-> e, c |-> c]
           f == [pair.e EXCEPT !.wire = <<>>]
<1>1. <<ev>> = Append(<<>>, ev)
  OBVIOUS
<1>2. Relay(p, e, c, Append(<<>>, ev)) = AppendEvent(Relay(p, e, c, <<>>), p, ev)
  <2> DEFINE nothing == <<>>
  <2>1. IsSeq(nothing)
    BY EmptyIsSeq
  <2> HIDE DEF nothing, e, ev
  <2>2. Relay(p, e, c, Append(nothing, ev)) = AppendEvent(Relay(p, e, c, nothing), p, ev)
    BY <2>1, RelayStep
  <2> QED BY <2>2 DEF nothing
<1>3. Relay(p, e, c, <<>>) = pair
  BY RelayNothing
<1>4. EncoderMatch(p, NoView, e)
  BY NewMatches
<1>5. pair.e = e /\ pair.c = c
  OBVIOUS
<1> HIDE DEF pair
<1>7. EncoderMatch(p, NoView, f)
  BY <1>4, <1>5, WireIsApart
<1>8. EncoderMatch(p, NoView, Encode(p, f, ev))
  <2> HIDE DEF f
  <2> QED BY <1>7, StartFollows
<1>a. ASSUME p = "messages" PROVE ReadOn(NoView, pair.c, Encode(p, f, ev))
  <2>1. MsgMatch(NoView, f)
    BY <1>7, <1>a DEF EncoderMatch
  <2>2. f.wire = <<>>
    <3>1. MsgMatch(NoView, e)
      BY <1>4, <1>a DEF EncoderMatch
    <3> HIDE DEF e
    <3> QED BY <1>5, <3>1 DEF MsgMatch, MsgFields
  <2> HIDE DEF f
  <2>3. ReadOn(NoView, NewMessagesClient, MessagesEncode(f, StartEvent))
    BY <2>1, <2>2, OpensReading
  <2>4. Encode(p, f, ev) = MessagesEncode(f, ev)
    BY <1>a DEF Encode
  <2> QED BY <1>5, <1>a, <2>3, <2>4
<1>9. Match(p, NoView, AppendEvent(pair, p, ev))
  <2>1. EncoderMatch(p, NoView, pair.e)
    BY <1>4, <1>5
  <2> HIDE DEF e, ev
  <2> QED BY <2>1, <1>8, <1>a, AppendMatches
<1> QED BY <1>1, <1>2, <1>3, <1>9

(* The answer begins with nothing told but its start.                      *)
LEMMA InitAttends == Init => CodecInv
<1> SUFFICES ASSUME Init PROVE CodecInv
  OBVIOUS
<1> DEFINE C0 == [messages |-> NewMessagesClient, responses |-> NewResponsesClient,
                  chat |-> NewChatClient]
           E0 == [messages |-> NewMessages, responses |-> NewResponses, chat |-> NewChat]
           start == <<StartEvent>>
<1>1. \A p \in Protocols : E0[p] = NewEncoder(p)
  BY DEF Protocols, NewEncoder
<1>a. \A p \in Protocols : p = "messages" => C0[p] = NewMessagesClient
  OBVIOUS
<1>2. dec = NewDecoder
  BY DEF Init
<1>3. \A p \in Protocols : /\ encoders[p] = Relay(p, E0[p], C0[p], start).e
                           /\ clients[p] = Relay(p, E0[p], C0[p], start).c
  BY DEF Init
<1> HIDE DEF E0, C0, start
<1>4. ASSUME NEW p \in Protocols
      PROVE  Match(p, NoView, Relay(p, encoders[p], clients[p], <<>>))
  <2> DEFINE pair == Relay(p, E0[p], C0[p], start)
  <2>1. Match(p, NoView, pair)
    BY <1>1, <1>a, StartsMatched DEF start
  <2>2. encoders[p] = pair.e /\ clients[p] = pair.c
    BY <1>3
  <2>3. Relay(p, encoders[p], clients[p], <<>>) = [e |-> encoders[p], c |-> clients[p]]
    BY RelayNothing
  <2> HIDE DEF pair
  <2>4. pair = [e |-> pair.e, c |-> pair.c]
    BY <2>1 DEF Match
  <2>5. Relay(p, encoders[p], clients[p], <<>>) = pair
    BY <2>2, <2>3, <2>4
  <2> QED BY <2>1, <2>5
<1>5. Matched(encoders, clients, NoView, <<>>)
  BY <1>4, EmptyIsSeq DEF Matched
<1> DEFINE g == Fresh(dec)
<1>6. DecOK(g) /\ Sees(NoView, g, {}) /\ g.out = <<>>
  BY <1>2, NewDecoderOK
<1> HIDE DEF g
<1>7. Fine(encoders, clients, NoView, g, {})
  BY <1>5, <1>6, NoViewIs, Zenon DEF Fine
<1>8. Attended(encoders, clients, dec)
  BY <1>7 DEF Attended, g
<1>9. dec.finished = FALSE /\ DecFields \subseteq DOMAIN dec
  BY <1>2, NewDecoderIs
<1> QED BY <1>8, <1>9 DEF CodecInv

(* A frame that is decoded leaves every encoder following.                 *)
LEMMA AdvanceAttends ==
  ASSUME NEW after, NEW frame, Advance(after, frame),
         \E v : Fine(encoders, clients, v, after, {})
  PROVE  CodecInv'
<1>1. PICK v : Fine(encoders, clients, v, after, {})
  OBVIOUS
<1>2. Told2(encoders, clients, after.out, encoders', clients')
  BY RelayAllIs DEF Advance
<1>3. /\ Attended(encoders', clients', Fresh(after)) /\ DecFields \subseteq DOMAIN Fresh(after)
      /\ Fresh(after).finished = FALSE
  BY <1>1, <1>2, StepAttends
<1>4. dec' = Fresh(after)
  BY DEF Advance, Fresh
<1>5. Attended(encoders', clients', dec') /\ DecFields \subseteq DOMAIN dec' /\ dec'.finished = FALSE
  BY <1>3, <1>4
<1>6. Attended(encoders, clients, dec)' <=> Attended(encoders', clients', dec')
  BY DEF Attended
<1> QED BY <1>5, <1>6 DEF CodecInv

(* An answer that is over was refused by no encoder, if it is fit.         *)
LEMMA AdvanceSettles ==
  ASSUME NEW after, NEW frame, Advance(after, frame), Settled(encoders, clients, after)
  PROVE  CodecInv'
<1>1. dec' = Fresh(after)
  BY DEF Advance, Fresh
<1>2. dec'.finished = TRUE /\ dec'.content = after.content
  BY <1>1, FreshIs DEF Settled
<1>3. Told2(encoders, clients, after.out, encoders', clients')
  BY RelayAllIs DEF Advance
<1>4. ASSUME ~Unfit', NEW p \in Protocols PROVE encoders'[p].refused = FALSE
  <2>1. Fit(after.content)
    BY <1>2, <1>4 DEF Unfit, Fit
  <2>2. PICK w : Matched(encoders, clients, w, after.out)
    BY <2>1 DEF Settled
  <2>3. Matched(encoders', clients', w, <<>>)
    BY <1>3, <2>2, MatchedAgain
  <2> QED BY <2>3, AttendedAccepts
<1>5. EventsAreAccepted'
  BY <1>4 DEF EventsAreAccepted
<1> QED BY <1>2, <1>5 DEF CodecInv

LEMMA FramesAreNamed ==
  ASSUME NEW frame, IsSeq(frame.calls), NamesItsCalls(frame)
  PROVE  NamesEach(DecodeWords(Fresh(dec), frame), frame.calls)
<1>1. DOMAIN frame.calls = 1..Len(frame.calls)
  BY SeqFacts
<1> DEFINE known(k) == CallsDecoded(DecodeWords(Fresh(dec), frame), frame.calls)[k - 1]
<1>2. ASSUME NEW k \in 1..Len(frame.calls), FindTool(known(k), frame.calls[k]) = 0
      PROVE  Names(frame.calls[k])
  BY <1>1, <1>2, Zenon DEF NamesItsCalls, Fresh, Names
<1> QED BY <1>2, Zenon DEF NamesEach

LEMMA AbsorbIsLegible ==
  ASSUME NEW frame \in Frames, Absorb(frame)
  PROVE  Legible(dec, frame)
<1>1. /\ frame.text \in Seq(Bytes) /\ frame.redacted \in BOOLEAN
      /\ frame.text # <<>> => frame.text[1] \notin Continuing
      /\ IsSeq(frame.calls)
  BY FramesAssumption DEF IsSeq
<1>2. Len(frame.calls) \in Nat
  BY <1>1, SeqFacts
<1>3. NamesEach(DecodeWords(Fresh(dec), frame), frame.calls)
  BY <1>1, FramesAreNamed DEF Absorb
<1>4. frame.text # <<>> => Whole(frame.text)
  BY <1>1 DEF Whole
<1> QED BY <1>1, <1>2, <1>3, <1>4, Zenon DEF Legible

LEMMA AbsorbAttends ==
  ASSUME NEW frame \in Frames, Absorb(frame), CodecInv
  PROVE  CodecInv'
<1>1. dec.finished = FALSE /\ DecFields \subseteq DOMAIN dec /\ Attended(encoders, clients, dec)
  BY DEF Absorb, CodecInv
<1>2. PICK v : Fine(encoders, clients, v, Fresh(dec), {})
  BY <1>1 DEF Attended
<1>3. \E w : Fine(encoders, clients, w, Decode(dec, frame), {})
  BY <1>1, <1>2, AbsorbIsLegible, DecodeFine
<1>4. Advance(Decode(dec, frame), frame)
  BY DEF Absorb
<1> QED BY <1>3, <1>4, AdvanceAttends

LEMMA SilenceIs ==
  ASSUME NEW reason, NEW nothing, nothing = <<>>
  PROVE  /\ [Silence EXCEPT !.stop = reason].text = nothing
         /\ [Silence EXCEPT !.stop = reason].redacted = FALSE
         /\ [Silence EXCEPT !.stop = reason].calls = nothing
<1>1. Silence = [think |-> nothing, sig |-> nothing, redacted |-> FALSE, text |-> nothing,
                 calls |-> nothing, stop |-> "none"]
  BY Zenon DEF Silence
<1> QED BY <1>1

LEMMA SilenceIsLegible ==
  ASSUME NEW reason
  PROVE  /\ Legible(dec, [Silence EXCEPT !.stop = reason])
         /\ [Silence EXCEPT !.stop = reason].text = <<>>
<1> DEFINE frame == [Silence EXCEPT !.stop = reason]
           nothing == <<>>
<1>3. nothing \in Seq(Bytes) /\ Len(nothing) = 0 /\ nothing = <<>>
  OBVIOUS
<1> HIDE DEF nothing
<1>5. frame.text = nothing /\ frame.redacted = FALSE /\ frame.calls = nothing
  BY <1>3, SilenceIs
<1> HIDE DEF frame
<1>6. \A k \in 1..0 : FALSE
  OBVIOUS
<1>7. Len(frame.calls) = 0 /\ Len(frame.calls) \in Nat
  BY <1>3, <1>5
<1>8. NamesEach(DecodeWords(Fresh(dec), frame), frame.calls)
  BY <1>6, <1>7, Zenon DEF NamesEach
<1>9. frame.text \in Seq(Bytes) /\ frame.redacted \in BOOLEAN
  BY <1>3, <1>5, Zenon
<1>10. frame.text = <<>>
  BY <1>3, <1>5
<1>11. Legible(dec, frame)
  BY <1>7, <1>8, <1>9, <1>10, Zenon DEF Legible
<1> QED BY <1>10, <1>11 DEF frame

LEMMA DeclareAttends ==
  ASSUME NEW reason, Declare(reason), CodecInv
  PROVE  CodecInv'
<1> DEFINE frame == [Silence EXCEPT !.stop = reason]
<1>1. dec.finished = FALSE /\ DecFields \subseteq DOMAIN dec /\ Attended(encoders, clients, dec)
  BY DEF Declare, CodecInv
<1>2. PICK v : Fine(encoders, clients, v, Fresh(dec), {})
  BY <1>1 DEF Attended
<1>3. Legible(dec, frame)
  BY SilenceIsLegible
<1>4. Advance(Decode(dec, frame), Silence)
  BY DEF Declare
<1> HIDE DEF frame
<1>5. \E w : Fine(encoders, clients, w, Decode(dec, frame), {})
  BY <1>1, <1>2, <1>3, DecodeFine
<1> QED BY <1>4, <1>5, AdvanceAttends

LEMMA EndSettles ==
  ASSUME EndCleanly \/ EndInError, CodecInv
  PROVE  CodecInv'
<1>1. dec.finished = FALSE /\ DecFields \subseteq DOMAIN dec /\ Attended(encoders, clients, dec)
  BY DEF EndCleanly, EndInError, CodecInv
<1>2. PICK v : Fine(encoders, clients, v, Fresh(dec), {})
  BY <1>1 DEF Attended
<1>3. Settled(encoders, clients, Finish(dec)) /\ Settled(encoders, clients, Fail(dec))
  BY <1>1, <1>2, FinishFine, FailFine
<1>4. Advance(Finish(dec), Silence) \/ Advance(Fail(dec), Silence)
  BY DEF EndCleanly, EndInError
<1> QED BY <1>3, <1>4, AdvanceSettles

LEMMA NextAttends == CodecInv /\ [Next]_vars => CodecInv'
<1> SUFFICES ASSUME CodecInv, [Next]_vars PROVE CodecInv'
  OBVIOUS
<1>1. CASE UNCHANGED vars
  <2>1. dec' = dec /\ encoders' = encoders /\ clients' = clients
    BY <1>1 DEF vars
  <2> QED BY <2>1 DEF CodecInv, Attended, EventsAreAccepted, Unfit
<1>2. CASE \E frame \in Frames : Absorb(frame)
  BY <1>2, AbsorbAttends
<1>3. CASE \E reason \in StopReasons : Declare(reason)
  BY <1>3, DeclareAttends
<1>4. CASE EndCleanly \/ EndInError
  BY <1>4, EndSettles
<1>5. CASE Over
  BY <1>1, <1>5 DEF Over
<1> QED BY <1>1, <1>2, <1>3, <1>4, <1>5 DEF Next

(* In every answer, whatever upstream mixes, an encoder refuses nothing    *)
(* but content that is unfit (messages.rs:862, chat.rs:778,                *)
(* responses.rs:1033).                                                     *)
THEOREM EventsHold == Spec => []EventsAreAccepted
<1>1. Init => CodecInv
  BY InitAttends
<1>2. CodecInv /\ [Next]_vars => CodecInv'
  BY NextAttends
<1>3. CodecInv => EventsAreAccepted
  BY InvAccepts
<1> QED BY <1>1, <1>2, <1>3, PTL DEF Spec

-----------------------------------------------------------------------------
(* What upstream said of each text block, over the steps of the stream.    *)

LEMMA LengthenedIs ==
  ASSUME NEW s, IsSeq(s), NEW n \in Nat, NEW x, NEW long, long = Lengthened(s, n, x)
  PROVE  /\ IsSeq(long) /\ Len(long) >= n /\ Len(long) >= Len(s)
         /\ \A i \in 1..Len(s) : long[i] = s[i]
         /\ \A i \in 1..Len(long) : i \notin 1..Len(s) => long[i] = x
<1> DEFINE S == Range(s) \cup {x}
           more == [i \in 1..(n - Len(s)) |-> x]
           m == Len(s)
<1>1. s \in Seq(Range(s)) /\ m \in Nat
  BY SeqFacts DEF IsSeq
<1>2. s \in Seq(S)
  BY <1>1
<1>3. x \in S
  OBVIOUS
<1> HIDE DEF S
<1>4. /\ more \in Seq(S) /\ Len(more) \in Nat /\ Len(more) >= n - m
      /\ \A i \in 1..Len(more) : more[i] = x
  <2>1. CASE n >= m
    <3> DEFINE k == n - m
    <3>1. k \in Nat
      BY <1>1, <2>1
    <3> HIDE DEF k
    <3>2. /\ [i \in 1..k |-> x] \in Seq(S) /\ Len([i \in 1..k |-> x]) = k
          /\ \A i \in 1..k : [j \in 1..k |-> x][i] = x
      BY <1>3, <3>1
    <3> QED BY <3>1, <3>2 DEF k
  <2>2. CASE n < m
    <3>1. 1..(n - m) = 1..0
      BY <1>1, <2>2
    <3>2. more = [i \in 1..0 |-> x]
      BY <3>1
    <3>3. /\ [i \in 1..0 |-> x] \in Seq(S) /\ Len([i \in 1..0 |-> x]) = 0
          /\ \A i \in 1..0 : FALSE
      BY <1>3
    <3> HIDE DEF more
    <3>4. more \in Seq(S) /\ Len(more) = 0
      BY <3>2, <3>3
    <3> QED BY <1>1, <2>2, <3>3, <3>4
  <2>3. n >= m \/ n < m
    BY <1>1
  <2> HIDE DEF more
  <2> QED BY <2>1, <2>2, <2>3
<1>5. long = s \o more
  BY DEF Lengthened
<1> HIDE DEF more
<1>6. /\ long \in Seq(S) /\ Len(long) = m + Len(more)
      /\ \A i \in 1..m : long[i] = s[i]
      /\ \A i \in (m + 1)..(m + Len(more)) : long[i] = more[i - m]
  BY <1>1, <1>2, <1>4, <1>5
<1>7. ASSUME NEW i \in 1..Len(long), i \notin 1..m PROVE long[i] = x
  <2>1. i \in (m + 1)..(m + Len(more)) /\ i - m \in 1..Len(more)
    BY <1>1, <1>4, <1>6, <1>7
  <2> QED BY <1>4, <1>6, <2>1
<1>8. IsSeq(long)
  BY <1>6, SeqIs
<1> QED BY <1>1, <1>4, <1>6, <1>7, <1>8

(* The record: nothing is said of a block that is no text.                 *)
Recorded(s, d) ==
  /\ IsSeq(s) /\ Len(s) >= Len(d.content)
  /\ \A i \in 1..Len(s) : /\ s[i] \in Seq(Bytes)
                          /\ i \notin Texts(d) => s[i] = <<>>

LEMMA SameIsSaid ==
  ASSUME NEW d, NEW s, Speaks(d, s), NEW t, \A i \in Texts(d) : t[i] = s[i]
  PROVE  Speaks(d, t)
BY DEF Speaks

LEMMA FreshSpeaks ==
  ASSUME NEW d, DecFields \subseteq DOMAIN d, NEW s
  PROVE  Speaks(Fresh(d), s) <=> Speaks(d, s)
<1> DEFINE g == Fresh(d)
<1>1. /\ g.content = d.content /\ g.text = d.text /\ g.cut = d.cut
      /\ g.stopSequence = d.stopSequence
  BY DEF Fresh, DecFields
<1> HIDE DEF g
<1>2. Texts(g) = Texts(d)
  BY <1>1 DEF Texts
<1>3. \A i : IsLast(g, i) = IsLast(d, i)
  BY <1>2 DEF IsLast
<1>4. \A i, said : ClosedSays(g, i, said) = ClosedSays(d, i, said)
  BY <1>1, <1>3 DEF ClosedSays
<1>5. \A i, said : Says(g, i, said) = Says(d, i, said)
  BY <1>1, <1>4 DEF Says
<1>6. Speaks(g, s) <=> Speaks(d, s)
  BY <1>1, <1>2, <1>3, <1>5 DEF Speaks
<1> QED BY <1>6 DEF g

LEMMA TextsAre ==
  ASSUME NEW d, ContentOK(d.content)
  PROVE  {i \in DOMAIN d.content : d.content[i].kind = "text"} = Texts(d)
BY ContentFacts DEF Texts

(* The text of a frame is recorded with the block that it was said of.     *)
LEMMA TargetIs ==
  ASSUME NEW after, NEW at, NEW delta, DecFields \subseteq DOMAIN dec,
         UttersAt(after, Fresh(dec), delta, at)
  PROVE  at = IF Opened(after.out) # {} THEN (CHOOSE ev \in Opened(after.out) : TRUE).index
              ELSE dec.text.at
<1> DEFINE opened == Opened(after.out)
<1>1. Opened(Fresh(dec).out) = {}
  <2> DEFINE nothing == <<>>
  <2>1. Fresh(dec).out = nothing
    BY DEF Fresh, DecFields
  <2>2. IsSeq(nothing) /\ Len(nothing) = 0
    BY EmptyIsSeq
  <2> HIDE DEF nothing
  <2>3. DOMAIN nothing = 1..0
    BY <2>2, SeqFacts
  <2>4. \A i \in 1..0 : FALSE
    OBVIOUS
  <2>5. Range(nothing) = {}
    BY <2>3, <2>4 DEF Range
  <2> QED BY <2>1, <2>5 DEF Opened
<1>2. Fresh(dec).text = dec.text
  BY DEF Fresh, DecFields
<1>3. \/ at = dec.text.at /\ opened = {}
      \/ \E ev : ev.index = at /\ opened = {ev}
  BY <1>1, <1>2 DEF UttersAt
<1>4. CASE at = dec.text.at /\ opened = {}
  BY <1>4
<1>5. CASE \E ev : ev.index = at /\ opened = {ev}
  <2>1. PICK ev : ev.index = at /\ opened = {ev}
    BY <1>5
  <2>2. (CHOOSE x \in {ev} : TRUE) = ev
    OBVIOUS
  <2> HIDE DEF opened
  <2>3. (CHOOSE x \in opened : TRUE) = ev /\ opened # {}
    BY <2>1, <2>2
  <2> QED BY <2>1, <2>3 DEF opened
<1> QED BY <1>3, <1>4, <1>5

LEMMA SpokenFollows ==
  ASSUME DecFields \subseteq DOMAIN dec, ContentOK(dec.content),
         Recorded(spoken, dec), Speaks(dec, spoken),
         NEW after, ContentOK(after.content),
         NEW frame, frame.text \in Seq(Bytes), Listens(after, Fresh(dec), frame.text),
         NEW t, t = Spoken(dec, after, frame)
  PROVE  Recorded(t, after) /\ Speaks(after, t)
<1> DEFINE g == Fresh(dec)
           n == Len(after.content)
           delta == frame.text
           long == Lengthened(spoken, n, <<>>)
           nothing == <<>>
           target == IF Opened(after.out) # {} THEN (CHOOSE ev \in Opened(after.out) : TRUE).index
                     ELSE dec.text.at
<1>1. t = IF delta = <<>> \/ dec.cut \/ target \notin Texts(after) THEN long
          ELSE [long EXCEPT ![target] = long[target] \o delta]
  <2>1. {i \in DOMAIN after.content : after.content[i].kind = "text"} = Texts(after)
    BY SMTT(30), TextsAre
  <2> HIDE DEF long
  <2>2. t = IF delta = <<>> \/ dec.cut
               \/ target \notin {i \in DOMAIN after.content : after.content[i].kind = "text"}
            THEN long ELSE [long EXCEPT ![target] = long[target] \o delta]
    BY DEF Spoken, Opened, long
  <2> QED BY <2>1, <2>2
<1>2. /\ IsSeq(spoken) /\ Len(spoken) \in Nat /\ Len(spoken) >= Len(dec.content)
      /\ \A i \in 1..Len(spoken) : /\ spoken[i] \in Seq(Bytes)
                                   /\ i \notin Texts(dec) => spoken[i] = nothing
  BY SeqFacts DEF Recorded
<1>3. n \in Nat /\ Len(dec.content) \in Nat
  BY ContentFacts
<1>4. /\ IsSeq(long) /\ Len(long) >= n /\ Len(long) >= Len(spoken)
      /\ \A i \in 1..Len(spoken) : long[i] = spoken[i]
      /\ \A i \in 1..Len(long) : i \notin 1..Len(spoken) => long[i] = nothing
  BY <1>2, <1>3, LengthenedIs
<1> HIDE DEF long
<1>5. Len(long) \in Nat /\ nothing \in Seq(Bytes)
  BY <1>4, SeqFacts
<1>6. Texts(g) = Texts(dec) /\ g.cut = dec.cut /\ Speaks(g, spoken)
  <2>1. g.content = dec.content /\ g.cut = dec.cut
    BY DEF Fresh, DecFields
  <2>2. Speaks(g, spoken)
    BY FreshSpeaks
  <2> QED BY <2>1, <2>2 DEF Texts
<1>7. \A i \in Texts(dec) : i \in 1..Len(spoken) /\ long[i] = spoken[i]
  <2>1. \A i \in Texts(dec) : i \in 1..Len(dec.content)
    BY DEF Texts
  <2> QED BY <1>2, <1>3, <1>4, <2>1
<1>8. \A i \in 1..Len(long) : /\ long[i] \in Seq(Bytes)
                              /\ i \notin Texts(dec) => long[i] = nothing
  <2> HIDE DEF nothing
  <2> QED BY <1>2, <1>4, <1>5
<1> HIDE DEF g, target
<1>9. CASE delta = <<>> \/ dec.cut
  <2>1. t = long /\ Carries(after, g)
    BY <1>1, <1>6, <1>9 DEF Listens, g
  <2>2. Texts(after) = Texts(dec) /\ Speaks(after, spoken)
    BY <1>6, <2>1 DEF Carries
  <2>3. Speaks(after, t)
    BY <1>7, <2>1, <2>2, SameIsSaid
  <2> QED BY <1>4, <1>8, <2>1, <2>2, <2>3 DEF Recorded
<1>10. CASE ~(delta = <<>> \/ dec.cut)
  <2>1. dec.cut = FALSE
    BY <1>10 DEF Speaks
  <2>2. PICK at : UttersAt(after, g, delta, at)
    BY <1>6, <1>10, <2>1 DEF Listens, g
  <2>3. target = at
    BY <2>2, TargetIs DEF target, g
  <2>4. at \in Texts(after) /\ Texts(after) = Texts(dec) \cup {at} /\ at \in 1..Len(long)
    <3>1. at \in Texts(after) /\ Texts(after) = Texts(dec) \cup {at}
      BY <1>6, <2>2 DEF UttersAt
    <3>2. at \in 1..n
      BY <3>1 DEF Texts
    <3> QED BY <1>3, <1>4, <1>5, <3>1, <3>2
  <2> DEFINE said == long[at] \o delta
  <2>5. t = [long EXCEPT ![at] = said]
    BY <1>1, <1>10, <2>3, <2>4
  <2>6. said \in Seq(Bytes)
    BY <1>8, <2>4
  <2>7. said = (IF at \in Texts(g) THEN spoken[at] ELSE <<>>) \o delta
    <3>1. CASE at \in Texts(dec)
      BY <1>6, <1>7, <3>1
    <3>2. CASE at \notin Texts(dec)
      BY <1>6, <1>8, <2>4, <3>2
    <3> QED BY <3>1, <3>2
  <2> HIDE DEF said
  <2>8. Replaced(t, long, at, said)
    <3>1. IsSeq(long) /\ at \in 1..Len(long)
      BY <1>4, <2>4
    <3>2. Replaced([long EXCEPT ![at] = said], long, at, said)
      BY <3>1, SeqExcept
    <3> QED BY <2>5, <3>2
  <2>9. /\ IsSeq(t) /\ Len(t) = Len(long) /\ t[at] = said
        /\ \A i \in 1..Len(long) : i # at => t[i] = long[i]
    BY <2>8 DEF Replaced
  <2>10. SpokenOn(t, spoken, g, at, delta)
    <3>1. \A i \in Texts(dec) : i # at => t[i] = spoken[i]
      <4>1. \A i \in Texts(dec) : i \in 1..Len(long)
        BY <1>2, <1>4, <1>5, <1>7
      <4> QED BY <1>7, <2>9, <4>1
    <3> QED BY <1>6, <2>7, <2>9, <3>1 DEF SpokenOn
  <2>11. Speaks(after, t)
    BY <1>6, <2>2, <2>10 DEF UttersAt
  <2>12. \A i \in 1..Len(t) : t[i] \in Seq(Bytes) /\ (i \notin Texts(after) => t[i] = <<>>)
    BY <1>8, <2>4, <2>6, <2>9
  <2>13. Recorded(t, after)
    BY <1>3, <1>4, <1>5, <2>9, <2>12 DEF Recorded
  <2> QED BY <2>11, <2>13
<1> QED BY SMTT(30), <1>9, <1>10

-----------------------------------------------------------------------------
(* What the client reads and what upstream said, between two steps.        *)

(* The client has read what the decoder told, unless the body has ended.   *)
Readable(E, C, d) ==
  /\ ContentOK(d.content) /\ TextOK(d.text, d.content)
  /\ ~E["messages"].refused => \E w : Matched(E, C, w, <<>>) /\ Shows(w, d)

StopInv ==
  /\ CodecInv /\ DecFields \subseteq DOMAIN dec /\ Readable(encoders, clients, dec)
  /\ Recorded(spoken, dec) /\ Speaks(dec, spoken)

LEMMA AttendedReads ==
  ASSUME NEW E, NEW C, NEW d, DecFields \subseteq DOMAIN d, Attended(E, C, d)
  PROVE  Readable(E, C, d)
<1> DEFINE g == Fresh(d)
<1>1. PICK w : Fine(E, C, w, g, {})
  BY DEF Attended
<1>2. g.content = d.content /\ g.text = d.text /\ g.out = <<>>
  BY FreshIs
<1> HIDE DEF g
<1>3. ContentOK(d.content) /\ TextOK(d.text, d.content)
  BY <1>1, <1>2 DEF Fine, DecOK
<1>4. Matched(E, C, w, <<>>) /\ Sees(w, g, {})
  BY <1>1, <1>2 DEF Fine
<1>5. \A i : Told(g, i) = Told(d, i)
  BY <1>2 DEF Told
<1>6. Shows(w, d)
  BY <1>2, <1>4, <1>5 DEF Shows, Sees, SeesText
<1> QED BY <1>3, <1>4, <1>6 DEF Readable

LEMMA SettledReads ==
  ASSUME NEW E, NEW C, NEW f, Settled(E, C, f), NEW E2, NEW C2, Told2(E, C, f.out, E2, C2)
  PROVE  Readable(E2, C2, Fresh(f))
<1> DEFINE d == Fresh(f)
<1>1. d.content = f.content /\ d.text = f.text
  BY FreshIs DEF Settled
<1> HIDE DEF d
<1>2. ContentOK(d.content) /\ TextOK(d.text, d.content)
  BY <1>1 DEF Settled
<1>3. ASSUME ~E2["messages"].refused PROVE \E w : Matched(E2, C2, w, <<>>) /\ Shows(w, d)
  <2>1. E2["messages"] = Told1(E, C, f.out).e
    BY DEF Told2, Told1, Protocols
  <2>2. Fit(f.content)
    BY <1>3, <2>1 DEF Settled
  <2>3. PICK w : Matched(E, C, w, f.out) /\ Shows(w, f)
    BY <2>2 DEF Settled
  <2>4. Matched(E2, C2, w, <<>>)
    BY <2>3, MatchedAgain
  <2>5. \A i : Told(d, i) = Told(f, i)
    BY <1>1 DEF Told
  <2>6. Shows(w, d)
    BY <1>1, <2>3, <2>5 DEF Shows, SeesText
  <2> QED BY <2>4, <2>6
<1> QED BY <1>2, <1>3 DEF Readable, d

(* In a step, the decoder's state and the record move together.            *)
LEMMA AdvanceSpeaks ==
  ASSUME StopInv, NEW after, NEW frame, Advance(after, frame),
         DecFields \subseteq DOMAIN after, ContentOK(after.content),
         frame.text \in Seq(Bytes), Listens(after, Fresh(dec), frame.text)
  PROVE  /\ dec' = Fresh(after) /\ DecFields \subseteq DOMAIN dec'
         /\ Recorded(spoken, dec)' /\ Speaks(dec, spoken)'
<1>1. dec' = Fresh(after) /\ spoken' = Spoken(dec, after, frame)
  BY DEF Advance, Fresh
<1>2. ContentOK(dec.content) /\ DecFields \subseteq DOMAIN dec /\ Recorded(spoken, dec) /\ Speaks(dec, spoken)
  BY DEF StopInv, Readable
<1> DEFINE t == Spoken(dec, after, frame)
<1> HIDE DEF t
<1>3. Recorded(t, after) /\ Speaks(after, t)
  BY <1>2, SpokenFollows DEF t
<1>4. DOMAIN Fresh(after) = DOMAIN after /\ Fresh(after).content = after.content
  BY FreshIs
<1>5. Speaks(Fresh(after), t)
  BY <1>3, FreshSpeaks
<1>6. Recorded(t, Fresh(after))
  BY <1>3, <1>4 DEF Recorded, Texts
<1>7. Recorded(spoken', dec') /\ Speaks(dec', spoken')
  BY <1>1, <1>5, <1>6 DEF t
<1>8. /\ Recorded(spoken, dec)' <=> Recorded(spoken', dec')
      /\ Speaks(dec, spoken)' <=> Speaks(dec', spoken')
  OBVIOUS
<1> QED BY <1>1, <1>4, <1>7, <1>8

LEMMA DecodesSaid ==
  ASSUME StopInv, CodecInv', dec.finished = FALSE, NEW frame, Legible(dec, frame),
         NEW said, Advance(Decode(dec, frame), said), said.text = frame.text
  PROVE  StopInv'
<1> DEFINE after == Decode(dec, frame)
<1>1. Attended(encoders, clients, dec)
  BY DEF StopInv, CodecInv
<1>2. PICK v : Fine(encoders, clients, v, Fresh(dec), {})
  BY <1>1 DEF Attended
<1>3. Listens(after, Fresh(dec), frame.text) /\ \E w : Fine(encoders, clients, w, after, {})
  BY <1>2, DecodeFine
<1> HIDE DEF after
<1>4. PICK w : Fine(encoders, clients, w, after, {})
  BY <1>3
<1>5. DecFields \subseteq DOMAIN after /\ ContentOK(after.content) /\ after.finished = FALSE
  BY <1>4 DEF Fine, DecOK
<1>6. frame.text \in Seq(Bytes) /\ Advance(after, said)
  BY DEF Legible, after
<1>7. /\ dec' = Fresh(after) /\ DecFields \subseteq DOMAIN dec'
      /\ Recorded(spoken, dec)' /\ Speaks(dec, spoken)'
  BY <1>3, <1>5, <1>6, AdvanceSpeaks
<1>8. Readable(encoders', clients', dec')
  <2>1. Told2(encoders, clients, after.out, encoders', clients')
    BY <1>6, RelayAllIs DEF Advance
  <2>2. Attended(encoders', clients', Fresh(after)) /\ DecFields \subseteq DOMAIN Fresh(after)
    BY <1>4, <2>1, StepAttends
  <2>3. Readable(encoders', clients', Fresh(after))
    BY <2>2, AttendedReads
  <2> QED BY <1>7, <2>3
<1>9. Readable(encoders, clients, dec)' <=> Readable(encoders', clients', dec')
  OBVIOUS
<1> QED BY <1>7, <1>8, <1>9 DEF StopInv

LEMMA EndingSaid ==
  ASSUME StopInv, CodecInv', NEW after, Settled(encoders, clients, after),
         Carries(after, Fresh(dec)), Advance(after, Silence)
  PROVE  StopInv'
<1> DEFINE nothing == <<>>
<1>1. DecFields \subseteq DOMAIN after /\ ContentOK(after.content)
  BY DEF Settled
<1>2. Silence.text = nothing /\ nothing = <<>>
  BY DEF Silence
<1>3. nothing \in Seq(Bytes)
  OBVIOUS
<1> HIDE DEF nothing
<1>4. Silence.text \in Seq(Bytes) /\ Listens(after, Fresh(dec), Silence.text)
  BY <1>2, <1>3 DEF Listens
<1>5. /\ dec' = Fresh(after) /\ DecFields \subseteq DOMAIN dec'
      /\ Recorded(spoken, dec)' /\ Speaks(dec, spoken)'
  BY <1>1, <1>4, AdvanceSpeaks
<1>6. Readable(encoders', clients', dec')
  <2>1. Told2(encoders, clients, after.out, encoders', clients')
    BY RelayAllIs DEF Advance
  <2>2. Readable(encoders', clients', Fresh(after))
    BY <2>1, SettledReads
  <2> QED BY <1>5, <2>2
<1>7. Readable(encoders, clients, dec)' <=> Readable(encoders', clients', dec')
  OBVIOUS
<1> QED BY <1>5, <1>6, <1>7 DEF StopInv

LEMMA InitSays == Init => StopInv
<1> SUFFICES ASSUME Init PROVE StopInv
  OBVIOUS
<1> DEFINE nothing == <<>>
<1>1. CodecInv
  BY InitAttends
<1>2. dec = NewDecoder /\ spoken = nothing
  BY DEF Init
<1>3. nothing = <<>>
  OBVIOUS
<1>4. IsSeq(nothing) /\ Len(nothing) = 0
  BY EmptyIsSeq
<1>5. /\ DecFields \subseteq DOMAIN dec /\ dec.finished = FALSE /\ dec.content = nothing
      /\ dec.text.at = 0
  BY <1>2, <1>3, NewDecoderIs
<1>6. dec.cut = FALSE
  <2>1. dec = [content |-> nothing, text |-> NoText, think |-> NoThinking, tools |-> nothing,
               stop |-> "none", cut |-> FALSE, stopSequence |-> nothing,
               finished |-> FALSE, out |-> nothing]
    BY <1>2, Zenon DEF NewDecoder
  <2> HIDE DEF nothing
  <2> QED BY <2>1, Zenon
<1> HIDE DEF nothing
<1>7. Readable(encoders, clients, dec)
  <2>1. Attended(encoders, clients, dec)
    BY <1>1, <1>5 DEF CodecInv
  <2> QED BY <1>5, <2>1, AttendedReads
<1>8. \A i \in 1..0 : FALSE
  OBVIOUS
<1>9. Texts(dec) = {}
  BY <1>4, <1>5, <1>8, Zenon DEF Texts
<1>10. Recorded(spoken, dec)
  BY <1>2, <1>4, <1>5, <1>8 DEF Recorded
<1>11. Speaks(dec, spoken)
  BY <1>5, <1>6, <1>9 DEF Speaks
<1> QED BY <1>1, <1>5, <1>7, <1>10, <1>11 DEF StopInv

LEMMA NextSays == StopInv /\ [Next]_vars => StopInv'
<1> SUFFICES ASSUME StopInv, [Next]_vars PROVE StopInv'
  OBVIOUS
<1>0. CodecInv'
  BY NextAttends DEF StopInv
<1>1. CASE UNCHANGED vars
  <2>1. dec' = dec /\ encoders' = encoders /\ clients' = clients /\ spoken' = spoken
    BY <1>1 DEF vars
  <2>2. /\ Readable(encoders, clients, dec)' <=> Readable(encoders', clients', dec')
        /\ Recorded(spoken, dec)' <=> Recorded(spoken', dec')
        /\ Speaks(dec, spoken)' <=> Speaks(dec', spoken')
    OBVIOUS
  <2> QED BY <1>0, <2>1, <2>2 DEF StopInv
<1>2. ASSUME NEW frame \in Frames, Absorb(frame) PROVE StopInv'
  <2>1. dec.finished = FALSE
    BY <1>2 DEF Absorb, StopInv, CodecInv
  <2>2. Legible(dec, frame)
    BY <1>2, AbsorbIsLegible
  <2>3. Advance(Decode(dec, frame), frame)
    BY <1>2 DEF Absorb
  <2> QED BY <1>0, <2>1, <2>2, <2>3, DecodesSaid
<1>3. ASSUME NEW reason \in StopReasons, Declare(reason) PROVE StopInv'
  <2> DEFINE frame == [Silence EXCEPT !.stop = reason]
  <2>1. dec.finished = FALSE
    BY <1>3 DEF Declare, StopInv, CodecInv
  <2>2. Legible(dec, frame) /\ frame.text = <<>>
    BY SilenceIsLegible
  <2>3. Advance(Decode(dec, frame), Silence)
    BY <1>3 DEF Declare
  <2>4. Silence.text = <<>>
    BY DEF Silence
  <2> HIDE DEF frame
  <2> QED BY <1>0, <2>1, <2>2, <2>3, <2>4, DecodesSaid
<1>4. CASE EndCleanly \/ EndInError
  <2>1. dec.finished = FALSE /\ DecFields \subseteq DOMAIN dec /\ Attended(encoders, clients, dec)
    BY <1>4 DEF EndCleanly, EndInError, StopInv, CodecInv
  <2>2. PICK v : Fine(encoders, clients, v, Fresh(dec), {})
    BY <2>1 DEF Attended
  <2>3. /\ Settled(encoders, clients, Finish(dec)) /\ Carries(Finish(dec), Fresh(dec))
        /\ Settled(encoders, clients, Fail(dec)) /\ Carries(Fail(dec), Fresh(dec))
    BY <2>1, <2>2, FinishFine, FailFine
  <2>4. Advance(Finish(dec), Silence) \/ Advance(Fail(dec), Silence)
    BY <1>4 DEF EndCleanly, EndInError
  <2> QED BY <1>0, <2>3, <2>4, EndingSaid
<1>5. CASE Over
  BY <1>1, <1>5 DEF Over
<1> QED BY <1>1, <1>2, <1>3, <1>4, <1>5 DEF Next

-----------------------------------------------------------------------------
(* What the client reads of a text block is what was told of it.           *)

LEMMA ShownIsTold ==
  ASSUME Readable(encoders, clients, dec), ~encoders["messages"].refused, NEW i \in Texts(dec)
  PROVE  Shown(i) = Told(dec, i)
<1> DEFINE c == clients["messages"]
           e == encoders["messages"]
<1>1. PICK w : Matched(encoders, clients, w, <<>>) /\ Shows(w, dec)
  BY DEF Readable
<1>2. ClientMatch(w, e.blocks, c)
  <2>1. "messages" \in Protocols
    BY DEF Protocols
  <2>2. Match("messages", w, Relay("messages", e, c, <<>>))
    BY <1>1, <2>1 DEF Matched
  <2>3. Relay("messages", e, c, <<>>) = [e |-> e, c |-> c]
    BY RelayNothing
  <2> HIDE DEF e, c
  <2>4. Match("messages", w, [e |-> e, c |-> c])
    BY <2>2, <2>3
  <2> QED BY <2>4 DEF Match
<1>3. /\ i \in 1..Len(w.kinds) /\ w.kinds[i] = "text" /\ w.told[i] = Told(dec, i)
  BY <1>1 DEF Shows, SeesText, Texts
<1>4. Shown(i) = IF ClientHas(c, i) THEN c.blocks[ClientAt(c, i)].body ELSE <<>>
  BY DEF Shown
<1> HIDE DEF c
<1>5. ClientOK(c) /\ TextIntact(w, c)
  BY <1>2 DEF ClientMatch
<1>6. HasShown(c, i) /\ \A b \in 1..Len(c.blocks) : c.blocks[b].index = i => c.blocks[b].body = w.told[i]
  BY <1>3, <1>5 DEF TextIntact
<1>7. ClientHas(c, i) /\ ClientAt(c, i) \in 1..Len(c.blocks) /\ c.blocks[ClientAt(c, i)].index = i
  BY <1>5, <1>6, ClientFacts
<1> QED BY <1>3, <1>4, <1>6, <1>7

LEMMA PrefixOfItself ==
  ASSUME NEW S, NEW s \in Seq(S)
  PROVE  IsPrefix(s, s)
BY DEF IsPrefix

LEMMA BeginningIsPrefix ==
  ASSUME NEW S, NEW s \in Seq(S), NEW n \in 0..Len(s)
  PROVE  IsPrefix(SubSeq(s, 1, n), s) /\ Len(SubSeq(s, 1, n)) = n
<1> DEFINE t == SubSeq(s, 1, n)
<1>1. t \in Seq(S) /\ Len(t) = n /\ n <= Len(s) /\ n \in Nat
  OBVIOUS
<1> HIDE DEF t
<1>2. SubSeq(t, 1, Len(t)) = t
  BY <1>1
<1>3. t = SubSeq(s, 1, Len(t))
  BY <1>1 DEF t
<1> QED BY <1>1, <1>2, <1>3 DEF IsPrefix, t

LEMMA PrefixOfPrefix ==
  ASSUME NEW S, NEW a \in Seq(S), NEW b \in Seq(S), NEW t \in Seq(S), IsPrefix(a \o b, t)
  PROVE  IsPrefix(a, t)
<1> DEFINE both == a \o b
           m == Len(a)
           l == Len(both)
<1>1. /\ both \in Seq(S) /\ l = m + Len(b) /\ m \in Nat /\ Len(b) \in Nat /\ Len(t) \in Nat
      /\ \A i \in 1..m : both[i] = a[i]
  OBVIOUS
<1>2. l <= Len(t) /\ SubSeq(both, 1, l) = SubSeq(t, 1, l)
  BY DEF IsPrefix
<1> HIDE DEF both
<1>3. m <= Len(t) /\ m <= l /\ l \in Nat
  BY <1>1, <1>2
<1>4. \A i \in 1..m : a[i] = t[i]
  <2> TAKE i \in 1..m
  <2>1. i \in 1..l /\ SubSeq(both, 1, l)[i] = both[i] /\ SubSeq(t, 1, l)[i] = t[i]
    BY <1>1, <1>2, <1>3
  <2> QED BY <1>1, <1>2, <2>1
<1> DEFINE x == SubSeq(a, 1, m)
           y == SubSeq(t, 1, m)
<1>5. /\ x \in Seq(S) /\ y \in Seq(S) /\ Len(x) = m /\ Len(y) = m
      /\ \A i \in 1..m : x[i] = a[i] /\ y[i] = t[i]
  BY <1>1, <1>3
<1> HIDE DEF x, y
<1>6. x = y
  BY <1>1, <1>4, <1>5, SeqEqual
<1> QED BY <1>3, <1>6 DEF IsPrefix, x, y

LEMMA LastIsMax ==
  ASSUME NEW d, ContentOK(d.content), NEW i \in Texts(d)
  PROVE  i = Max(Texts(d)) <=> IsLast(d, i)
<1> DEFINE T == Texts(d)
<1>1. T \subseteq Nat /\ Len(d.content) \in Nat /\ \A j \in T : j <= Len(d.content)
  BY ContentFacts DEF Texts
<1> HIDE DEF T
<1>2. i \in T
  BY DEF T
<1>3. Max(T) \in T /\ \A j \in T : j <= Max(T)
  BY <1>1, <1>2, MaxOfNaturals
<1> DEFINE m == Max(T)
<1> HIDE DEF m
<1>4. i \in Nat /\ m \in Nat /\ m \in T /\ i <= m /\ \A j \in T : j <= m
  BY <1>1, <1>2, <1>3 DEF m
<1>5. i = m <=> \A j \in T : j <= i
  BY <1>4
<1> QED BY <1>5 DEF IsLast, T, m

LEMMA InvCuts == StopInv => StopCutsText
<1> SUFFICES ASSUME StopInv, ~encoders["messages"].refused, NEW i \in TextBlocks
             PROVE  LET shown == Shown(i)
                        cutHere == dec.cut /\ i = LastText
                    IN  /\ IsPrefix(shown, spoken[i])
                        /\ ~Holds(shown)
                        /\ IsBoundary(spoken[i], Len(shown))
                        /\ ~cutHere => ~Holds(spoken[i])
                        /\ cutHere => IsPrefix(shown \o dec.stopSequence, spoken[i])
                        /\ ~cutHere /\ dec.text.at # i => shown = spoken[i]
                        /\ dec.text.at = i => \A j \in (Len(shown) + 1)..Len(spoken[i]) :
                             IsBoundary(spoken[i], j) => j > Len(spoken[i]) - (Longest - 1)
  BY DEF StopCutsText
<1> DEFINE shown == Shown(i)
           cutHere == dec.cut /\ i = LastText
           said == spoken[i]
           text == dec.text
           body == dec.content[i].body
           stop == dec.stopSequence
<1>1. /\ Readable(encoders, clients, dec) /\ ContentOK(dec.content) /\ TextOK(text, dec.content)
      /\ Recorded(spoken, dec) /\ Speaks(dec, spoken)
  BY DEF StopInv, Readable
<1>2. i \in Texts(dec) /\ TextBlocks = Texts(dec)
  BY <1>1, TextsAre DEF TextBlocks
<1>3. shown = Told(dec, i)
  BY <1>1, <1>2, ShownIsTold
<1>4. cutHere <=> dec.cut /\ IsLast(dec, i)
  BY <1>1, <1>2, LastIsMax DEF LastText
<1>5. /\ dec.cut => text.at = 0
      /\ Says(dec, i, said)
  BY <1>1, <1>2 DEF Speaks
<1>6. i \in 1..Len(dec.content) /\ i # 0
  BY <1>1, <1>2, ContentFacts DEF Texts
<1>7. said \in Seq(Bytes) /\ body \in Seq(Bytes)
  <2>1. i \in 1..Len(spoken)
    <3>1. Len(spoken) \in Nat /\ Len(dec.content) \in Nat /\ Len(spoken) >= Len(dec.content)
      BY <1>1, SeqFacts, ContentFacts DEF Recorded
    <3> QED BY <1>6, <3>1
  <2>2. BlockOK(dec.content[i]) /\ dec.content[i].kind = "text"
    BY <1>1, <1>2, <1>6, ContentFacts DEF Texts
  <2> QED BY <1>1, <2>1, <2>2 DEF Recorded, BlockOK
<1>8. text.buf \in Seq(Bytes) /\ text.sent \in 0..Len(text.buf)
  BY <1>1 DEF TextOK
<1>9. shown = IF i = text.at THEN SubSeq(text.buf, 1, text.sent) ELSE body
  BY <1>3 DEF Told
<1>10. IsSeq(stop) => \E S : stop \in Seq(S) /\ Bytes \subseteq S
  <2> DEFINE S == Bytes \cup Range(stop)
  <2>1. IsSeq(stop) => stop \in Seq(Range(stop))
    BY DEF IsSeq
  <2> HIDE DEF stop
  <2>2. IsSeq(stop) => stop \in Seq(S) /\ Bytes \subseteq S
    BY <2>1
  <2> QED BY <2>2
<1> DEFINE Goal == /\ IsPrefix(shown, said)
                   /\ ~Holds(shown)
                   /\ IsBoundary(said, Len(shown))
                   /\ ~cutHere => ~Holds(said)
                   /\ cutHere => IsPrefix(shown \o stop, said)
                   /\ ~cutHere /\ text.at # i => shown = said
                   /\ text.at = i => \A j \in (Len(shown) + 1)..Len(said) :
                        IsBoundary(said, j) => j > Len(said) - (Longest - 1)
<1> HIDE DEF shown, said, cutHere, body
<1>11. CASE i = text.at
  <2> DEFINE buf == text.buf
             told == text.sent
  <2>1. said = buf /\ Settling(text) /\ ~cutHere
    BY <1>4, <1>5, <1>6, <1>11 DEF Says
  <2>2. shown = SubSeq(buf, 1, told) /\ buf \in Seq(Bytes) /\ told \in 0..Len(buf)
    BY <1>8, <1>9, <1>11
  <2>3. Hits(buf, 0) = {} /\ IsBoundary(buf, told)
    BY <2>1 DEF Settling, Withheld
  <2>4. \A j \in (told + 1)..Len(buf) : IsBoundary(buf, j) => j > Len(buf) - (Longest - 1)
    BY <2>1 DEF Settling
  <2> HIDE DEF buf, told, text
  <2>5. IsPrefix(shown, buf) /\ Len(shown) = told
    BY <2>2, BeginningIsPrefix
  <2>6. Hits(shown, 0) = {}
    BY <2>2, <2>3, HitlessBefore
  <2>7. Goal
    BY <1>11, <2>1, <2>3, <2>4, <2>5, <2>6 DEF Holds
  <2> QED BY <2>7 DEF shown, said, cutHere, text, stop
<1>12. CASE i # text.at
  <2>1. shown = body /\ ClosedSays(dec, i, said)
    BY <1>5, <1>9, <1>12 DEF Says
  <2>2. /\ Hits(shown, 0) = {} /\ IsBoundary(said, Len(shown))
        /\ ~cutHere => said = shown
        /\ cutHere => IsSeq(stop) /\ IsPrefix(shown \o stop, said)
    BY <1>4, <2>1 DEF ClosedSays, body
  <2> HIDE DEF stop, text
  <2>3. shown \in Seq(Bytes)
    BY <1>7, <2>1
  <2>4. IsPrefix(shown, said)
    <3>1. CASE cutHere
      <4>1. IsSeq(stop) /\ IsPrefix(shown \o stop, said)
        BY <2>2, <3>1
      <4>2. PICK S : stop \in Seq(S) /\ Bytes \subseteq S
        BY <1>10, <4>1
      <4>3. shown \in Seq(S) /\ said \in Seq(S)
        BY <1>7, <2>3, <4>2
      <4> QED BY <4>1, <4>2, <4>3, PrefixOfPrefix
    <3>2. CASE ~cutHere
      <4>1. said = shown
        BY <2>2, <3>2
      <4> QED BY <2>3, <4>1, PrefixOfItself
    <3> QED BY <3>1, <3>2
  <2>5. Goal
    BY <1>12, <2>2, <2>4 DEF Holds
  <2> QED BY <2>5 DEF shown, said, cutHere, text, stop
<1> QED BY <1>11, <1>12

(* However upstream splits a stop sequence over frames, it is found, and   *)
(* no part of it is told: what a Messages client reads of each text is a   *)
(* beginning of what upstream said, which ends where the stop sequence     *)
(* begins, or as far as nothing could be part of one (response.rs:1186).   *)
THEOREM StopHolds == Spec => []StopCutsText
<1>1. Init => StopInv
  BY InitSays
<1>2. StopInv /\ [Next]_vars => StopInv'
  BY NextSays
<1>3. StopInv => StopCutsText
  BY InvCuts
<1> QED BY <1>1, <1>2, <1>3, PTL DEF Spec
=============================================================================
