---------------------------- MODULE EncoderProofs ----------------------------
(***************************************************************************)
(* The encoders' half of StreamCodecProofs: what an encoder and the client *)
(* at its end make of the events of an answer, event by event.             *)
(*                                                                         *)
(* Decoder and encoders keep their states apart, and what they agree on is *)
(* a view: the kinds of the blocks so far, the text told of each, which    *)
(* text, which thinking and which calls are open, whether the answer is    *)
(* over. An event is in place in a view (InPlace) or it is not. Each       *)
(* encoder matches a view (MsgMatch, RespMatch, ChatMatch), takes every    *)
(* event that is in place, and matches the view after it (After). The      *)
(* client of a Messages stream has of each text block what the view was    *)
(* told of it (ClientMatch).                                               *)
(***************************************************************************)
EXTENDS StreamCodec, FiniteSetTheorems, SequenceTheorems, WellFoundedInduction, TLAPS

-----------------------------------------------------------------------------
(* Numbers *)

(* A set of numbers that is not empty has a least one.                     *)
LEMMA LeastOfNaturals ==
  ASSUME NEW T, T \subseteq Nat, T # {}
  PROVE  \E x \in T : \A y \in T : x <= y
<1> DEFINE R == OpToRel(<, Nat)
<1>1. \A x, y \in Nat : y < x => <<y, x>> \in R
  BY DEF OpToRel
<1>2. IsWellFoundedOn(R, Nat)
  BY NatLessThanWellFounded
<1> HIDE DEF R
<1>3. PICK x \in T : \A y \in T : ~(<<y, x>> \in R)
  BY <1>2, WFMin
<1>4. ASSUME NEW y \in T PROVE x <= y
  <2>1. x \in Nat /\ y \in Nat
    OBVIOUS
  <2>2. ~(y < x)
    BY <1>1, <1>3, <2>1
  <2> QED BY <2>1, <2>2
<1> QED BY <1>4

(* Max and Min of a bounded set of numbers are what their names say.       *)
LEMMA MinOfNaturals ==
  ASSUME NEW T, T \subseteq Nat, T # {}
  PROVE  Min(T) \in T /\ \A y \in T : Min(T) <= y
BY LeastOfNaturals DEF Min

LEMMA MaxOfNaturals ==
  ASSUME NEW T, T \subseteq Nat, T # {}, NEW b \in Nat, \A y \in T : y <= b
  PROVE  Max(T) \in T /\ \A y \in T : y <= Max(T)
<1> DEFINE Gaps == {g \in Nat : b - g \in T}
<1>1. Gaps # {}
  <2>1. PICK y \in T : TRUE
    OBVIOUS
  <2>2. b - y \in Nat /\ b - (b - y) = y
    OBVIOUS
  <2>3. b - y \in Gaps
    BY <2>2
  <2> QED BY <2>3
<1>2. PICK g \in Gaps : \A h \in Gaps : g <= h
  <2>1. Gaps \subseteq Nat
    OBVIOUS
  <2> HIDE DEF Gaps
  <2> QED BY <1>1, <2>1, LeastOfNaturals
<1>3. ASSUME NEW y \in T PROVE y <= b - g
  <2>1. y \in Nat /\ b - y \in Nat /\ b - (b - y) = y
    OBVIOUS
  <2>2. b - y \in Gaps
    BY <2>1
  <2>3. g \in Nat /\ g <= b - y
    BY <1>2, <2>2
  <2> QED BY <2>1, <2>3
<1>4. b - g \in T
  OBVIOUS
<1> QED BY <1>3, <1>4 DEF Max

-----------------------------------------------------------------------------
(* Sequences of anything *)

IsSeq(s) == s \in Seq(Range(s))

LEMMA SeqIs ==
  ASSUME NEW S, NEW s \in Seq(S)
  PROVE  IsSeq(s)
<1>1. s \in [1..Len(s) -> S] /\ DOMAIN s = 1..Len(s) /\ Len(s) \in Nat
  OBVIOUS
<1>2. s \in [1..Len(s) -> Range(s)]
  BY <1>1 DEF Range
<1>3. s \in Seq(Range(s))
  BY <1>1, <1>2, SeqDef
<1> QED BY <1>3 DEF IsSeq

LEMMA SeqFacts ==
  ASSUME NEW s, IsSeq(s)
  PROVE  Len(s) \in Nat /\ DOMAIN s = 1..Len(s)
BY DEF IsSeq

LEMMA EmptyIsSeq == IsSeq(<<>>) /\ Len(<<>>) = 0
<1>1. <<>> \in Seq({})
  OBVIOUS
<1> QED BY <1>1, SeqIs

LEMMA SeqAppend ==
  ASSUME NEW s, IsSeq(s), NEW x
  PROVE  /\ IsSeq(Append(s, x)) /\ Len(Append(s, x)) = Len(s) + 1
         /\ DOMAIN Append(s, x) = 1..(Len(s) + 1)
         /\ Append(s, x)[Len(s) + 1] = x
         /\ \A i \in 1..Len(s) : Append(s, x)[i] = s[i]
<1> DEFINE S == Range(s) \cup {x}
<1>1. s \in Seq(Range(s)) /\ Len(s) \in Nat
  BY DEF IsSeq
<1>2. s \in Seq(S)
  BY <1>1
<1> HIDE DEF S
<1>3. x \in S
  BY DEF S
<1>4. Append(s, x) \in Seq(S)
  BY <1>2, <1>3
<1>5. IsSeq(Append(s, x))
  BY <1>4, SeqIs
<1> QED BY <1>1, <1>2, <1>3, <1>4, <1>5

(* t is s with x in place i.                                               *)
Replaced(t, s, i, x) ==
  /\ IsSeq(t) /\ Len(t) = Len(s) /\ t[i] = x
  /\ \A j \in 1..Len(s) : j # i => t[j] = s[j]

LEMMA SeqExcept ==
  ASSUME NEW s, IsSeq(s), NEW i \in 1..Len(s), NEW x
  PROVE  Replaced([s EXCEPT ![i] = x], s, i, x)
<1> DEFINE S == Range(s) \cup {x}
<1>1. s \in Seq(Range(s)) /\ Len(s) \in Nat /\ DOMAIN s = 1..Len(s)
  BY DEF IsSeq
<1>2. s \in Seq(S)
  BY <1>1
<1> HIDE DEF S
<1>3. x \in S
  BY DEF S
<1>4. [s EXCEPT ![i] = x] \in Seq(S)
  BY <1>2, <1>3
<1>5. IsSeq([s EXCEPT ![i] = x])
  BY <1>4, SeqIs
<1> QED BY <1>1, <1>2, <1>4, <1>5 DEF Replaced

(* A beginning and what follows it is the longer beginning.                *)
LEMMA BeginningGrows ==
  ASSUME NEW S, NEW s \in Seq(S), NEW m \in 0..Len(s), NEW n \in m..Len(s)
  PROVE  SubSeq(s, 1, m) \o SubSeq(s, m + 1, n) = SubSeq(s, 1, n)
<1>1. /\ SubSeq(s, 1, m) \in Seq(S) /\ Len(SubSeq(s, 1, m)) = m
      /\ SubSeq(s, m + 1, n) \in Seq(S) /\ Len(SubSeq(s, m + 1, n)) = n - m
      /\ SubSeq(s, 1, n) \in Seq(S) /\ Len(SubSeq(s, 1, n)) = n
  OBVIOUS
<1> DEFINE a == SubSeq(s, 1, m)
           b == SubSeq(s, m + 1, n)
           c == SubSeq(s, 1, n)
<1>2. \A i \in 1..m : a[i] = s[i]
  OBVIOUS
<1>3. \A i \in 1..(n - m) : b[i] = s[m + i]
  OBVIOUS
<1>4. \A i \in 1..n : c[i] = s[i]
  OBVIOUS
<1> HIDE DEF a, b, c
<1>5. a \in Seq(S) /\ b \in Seq(S) /\ c \in Seq(S) /\ Len(a) = m /\ Len(b) = n - m /\ Len(c) = n
  BY <1>1 DEF a, b, c
<1>6. a \o b \in Seq(S) /\ Len(a \o b) = n
  BY <1>5
<1>7. \A i \in 1..n : (a \o b)[i] = c[i]
  BY <1>2, <1>3, <1>4, <1>5
<1>8. a \o b = c
  <2> DEFINE ab == a \o b
  <2>1. ab \in Seq(S) /\ Len(ab) = Len(c) /\ \A i \in 1..Len(ab) : ab[i] = c[i]
    BY <1>5, <1>6, <1>7
  <2> HIDE DEF ab
  <2>2. ab = c
    BY <1>5, <2>1, SeqEqual
  <2> QED BY <2>2 DEF ab
<1> QED BY <1>8 DEF a, b, c

-----------------------------------------------------------------------------
(* The recursive functions of the model exist *)

LEMMA NatSteps ==
  ASSUME NEW T, T \subseteq Nat, 0 \in T, \A m \in T : m + 1 \in T
  PROVE  T = Nat
<1> DEFINE Rest == Nat \ T
<1> SUFFICES ASSUME Rest # {} PROVE FALSE
  OBVIOUS
<1>1. PICK n \in Rest : \A k \in Rest : n <= k
  BY LeastOfNaturals
<1>2. n \in Nat /\ n # 0
  OBVIOUS
<1>3. n - 1 \in Nat /\ ~(n <= n - 1) /\ (n - 1) + 1 = n
  BY <1>2
<1>4. n - 1 \in T
  BY <1>1, <1>3
<1> QED BY <1>3, <1>4

(* A function on 0..m and one value more.                                  *)
Extension(h, g, m, x) ==
  /\ h = [n \in 0..(m + 1) |-> h[n]] /\ h[m + 1] = x
  /\ \A n \in 0..m : h[n] = g[n]

LEMMA Extends ==
  ASSUME NEW m \in Nat, NEW g, NEW x
  PROVE  \E h : Extension(h, g, m, x)
<1> DEFINE h == [n \in 0..(m + 1) |-> IF n = m + 1 THEN x ELSE g[n]]
<1>1. h = [n \in 0..(m + 1) |-> h[n]]
  OBVIOUS
<1>2. h[m + 1] = x
  OBVIOUS
<1>3. \A n \in 0..m : h[n] = g[n]
  OBVIOUS
<1> HIDE DEF h
<1>4. Extension(h, g, m, x)
  BY <1>1, <1>2, <1>3 DEF Extension
<1> QED BY <1>4

IsDecoding(g, d, calls, m) ==
  /\ g = [k \in 0..m |-> g[k]] /\ g[0] = d
  /\ \A k \in 1..m : g[k] = DecodeTool(EndText(EndThinking(g[k - 1])), calls[k])

LEMMA DecodingExists ==
  ASSUME NEW d, NEW calls
  PROVE  \A m \in Nat : \E g : IsDecoding(g, d, calls, m)
<1> DEFINE T == {m \in Nat : \E g : IsDecoding(g, d, calls, m)}
<1>1. 0 \in T
  <2> DEFINE g == [k \in 0..0 |-> d]
  <2>1. g = [k \in 0..0 |-> g[k]] /\ g[0] = d
    OBVIOUS
  <2> HIDE DEF g
  <2>2. IsDecoding(g, d, calls, 0)
    BY <2>1 DEF IsDecoding
  <2> QED BY <2>2
<1>2. ASSUME NEW m \in T PROVE m + 1 \in T
  <2>1. m \in Nat /\ \E g : IsDecoding(g, d, calls, m)
    OBVIOUS
  <2>2. PICK g : IsDecoding(g, d, calls, m)
    BY <2>1
  <2> DEFINE next == DecodeTool(EndText(EndThinking(g[m])), calls[m + 1])
  <2> HIDE DEF next
  <2>e. PICK h : Extension(h, g, m, next)
    BY <2>1, Extends
  <2>3. /\ h = [n \in 0..(m + 1) |-> h[n]] /\ h[m + 1] = next
        /\ \A n \in 0..m : h[n] = g[n]
    BY <2>e DEF Extension
  <2>0. /\ g = [k \in 0..m |-> g[k]] /\ g[0] = d
        /\ \A k \in 1..m : g[k] = DecodeTool(EndText(EndThinking(g[k - 1])), calls[k])
    BY <2>2 DEF IsDecoding
  <2>d. 0 \in 0..m
    BY <2>1
  <2>4. h[0] = d
    BY <2>0, <2>3, <2>d, Zenon
  <2>5. ASSUME NEW k \in 1..(m + 1)
        PROVE  h[k] = DecodeTool(EndText(EndThinking(h[k - 1])), calls[k])
    <3>0. k \in Nat /\ k - 1 \in 0..m
      BY <2>1
    <3>1. h[k - 1] = g[k - 1]
      BY <2>3, <3>0, Zenon
    <3>2. CASE k = m + 1
      <4>1. k - 1 = m
        BY <2>1, <3>2
      <4> QED BY <2>3, <3>1, <3>2, <4>1 DEF next
    <3>3. CASE k # m + 1
      <4>1. k \in 1..m /\ k \in 0..m
        BY <2>1, <3>0, <3>3
      <4>2. h[k] = g[k]
        BY <2>3, <4>1, Zenon
      <4> QED BY <2>0, <3>1, <4>1, <4>2, Zenon
    <3> QED BY <3>2, <3>3
  <2>6. IsDecoding(h, d, calls, m + 1)
    BY <2>3, <2>4, <2>5 DEF IsDecoding
  <2> QED BY <2>1, <2>6
<1>3. T = Nat
  <2>1. T \subseteq Nat
    OBVIOUS
  <2> HIDE DEF T
  <2> QED BY <1>1, <1>2, <2>1, NatSteps
<1> QED BY <1>3

LEMMA DecodingSteps ==
  ASSUME NEW d, NEW calls, Len(calls) \in Nat
  PROVE  IsDecoding(CallsDecoded(d, calls), d, calls, Len(calls))
<1> DEFINE Is(g) == g = [k \in 0..Len(calls) |-> IF k = 0 THEN d ELSE DecodeTool(EndText(EndThinking(g[k - 1])), calls[k])]
<1>1. CallsDecoded(d, calls) = CHOOSE g : Is(g)
  BY DEF CallsDecoded
<1>2. PICK g : IsDecoding(g, d, calls, Len(calls))
  BY DecodingExists
<1>3. Is(g)
  <2>1. \A k \in 0..Len(calls) : g[k] = IF k = 0 THEN d ELSE DecodeTool(EndText(EndThinking(g[k - 1])), calls[k])
    <3> TAKE k \in 0..Len(calls)
    <3>1. k = 0 \/ k \in 1..Len(calls)
      OBVIOUS
    <3> QED BY <1>2, <3>1 DEF IsDecoding
  <2>2. g = [k \in 0..Len(calls) |-> g[k]]
    BY <1>2 DEF IsDecoding
  <2> QED BY <2>1, <2>2
<1>4. Is(CallsDecoded(d, calls))
  <2> HIDE DEF Is
  <2> QED BY <1>1, <1>3, Zenon
<1> DEFINE f == CallsDecoded(d, calls)
<1>5. f = [k \in 0..Len(calls) |-> IF k = 0 THEN d ELSE DecodeTool(EndText(EndThinking(f[k - 1])), calls[k])]
  BY <1>4
<1> HIDE DEF f
<1>6. f[0] = d /\ f = [k \in 0..Len(calls) |-> f[k]]
  BY <1>5
<1>7. \A k \in 1..Len(calls) : f[k] = DecodeTool(EndText(EndThinking(f[k - 1])), calls[k])
  BY <1>5
<1>8. IsDecoding(f, d, calls, Len(calls))
  BY <1>6, <1>7 DEF IsDecoding
<1> QED BY <1>8 DEF f

IsEnding(g, d, m) ==
  /\ g = [k \in 0..m |-> g[k]] /\ g[0] = d
  /\ \A k \in 1..m : g[k] = EndTool(g[k - 1], k)

LEMMA EndingExists ==
  ASSUME NEW d
  PROVE  \A m \in Nat : \E g : IsEnding(g, d, m)
<1> DEFINE T == {m \in Nat : \E g : IsEnding(g, d, m)}
<1>1. 0 \in T
  <2> DEFINE g == [k \in 0..0 |-> d]
  <2>1. g = [k \in 0..0 |-> g[k]] /\ g[0] = d
    OBVIOUS
  <2> HIDE DEF g
  <2>2. IsEnding(g, d, 0)
    BY <2>1 DEF IsEnding
  <2> QED BY <2>2
<1>2. ASSUME NEW m \in T PROVE m + 1 \in T
  <2>1. m \in Nat /\ \E g : IsEnding(g, d, m)
    OBVIOUS
  <2>2. PICK g : IsEnding(g, d, m)
    BY <2>1
  <2> DEFINE next == EndTool(g[m], m + 1)
  <2> HIDE DEF next
  <2>e. PICK h : Extension(h, g, m, next)
    BY <2>1, Extends
  <2>3. /\ h = [n \in 0..(m + 1) |-> h[n]] /\ h[m + 1] = next
        /\ \A n \in 0..m : h[n] = g[n]
    BY <2>e DEF Extension
  <2>0. /\ g = [k \in 0..m |-> g[k]] /\ g[0] = d
        /\ \A k \in 1..m : g[k] = EndTool(g[k - 1], k)
    BY <2>2 DEF IsEnding
  <2>d. 0 \in 0..m
    BY <2>1
  <2>4. h[0] = d
    BY <2>0, <2>3, <2>d, Zenon
  <2>5. ASSUME NEW k \in 1..(m + 1)
        PROVE  h[k] = EndTool(h[k - 1], k)
    <3>0. k \in Nat /\ k - 1 \in 0..m
      BY <2>1
    <3>1. h[k - 1] = g[k - 1]
      BY <2>3, <3>0, Zenon
    <3>2. CASE k = m + 1
      <4>1. k - 1 = m
        BY <2>1, <3>2
      <4> QED BY <2>3, <3>1, <3>2, <4>1 DEF next
    <3>3. CASE k # m + 1
      <4>1. k \in 1..m /\ k \in 0..m
        BY <2>1, <3>0, <3>3
      <4>2. h[k] = g[k]
        BY <2>3, <4>1, Zenon
      <4> QED BY <2>0, <3>1, <4>1, <4>2, Zenon
    <3> QED BY <3>2, <3>3
  <2>6. IsEnding(h, d, m + 1)
    BY <2>3, <2>4, <2>5 DEF IsEnding
  <2> QED BY <2>1, <2>6
<1>3. T = Nat
  <2>1. T \subseteq Nat
    OBVIOUS
  <2> HIDE DEF T
  <2> QED BY <1>1, <1>2, <2>1, NatSteps
<1> QED BY <1>3

LEMMA EndingSteps ==
  ASSUME NEW d, Len(d.tools) \in Nat
  PROVE  IsEnding(ToolsEnded(d), d, Len(d.tools))
<1> DEFINE Is(g) == g = [k \in 0..Len(d.tools) |-> IF k = 0 THEN d ELSE EndTool(g[k - 1], k)]
<1>1. ToolsEnded(d) = CHOOSE g : Is(g)
  BY DEF ToolsEnded
<1>2. PICK g : IsEnding(g, d, Len(d.tools))
  BY EndingExists
<1>3. Is(g)
  <2>1. \A k \in 0..Len(d.tools) : g[k] = IF k = 0 THEN d ELSE EndTool(g[k - 1], k)
    <3> TAKE k \in 0..Len(d.tools)
    <3>1. k = 0 \/ k \in 1..Len(d.tools)
      OBVIOUS
    <3> QED BY <1>2, <3>1 DEF IsEnding
  <2>2. g = [k \in 0..Len(d.tools) |-> g[k]]
    BY <1>2 DEF IsEnding
  <2> QED BY <2>1, <2>2
<1>4. Is(ToolsEnded(d))
  <2> HIDE DEF Is
  <2> QED BY <1>1, <1>3, Zenon
<1> DEFINE f == ToolsEnded(d)
<1>5. f = [k \in 0..Len(d.tools) |-> IF k = 0 THEN d ELSE EndTool(f[k - 1], k)]
  BY <1>4
<1> HIDE DEF f
<1>6. f[0] = d /\ f = [k \in 0..Len(d.tools) |-> f[k]]
  BY <1>5
<1>7. \A k \in 1..Len(d.tools) : f[k] = EndTool(f[k - 1], k)
  BY SMTT(30), <1>5
<1>8. IsEnding(f, d, Len(d.tools))
  BY <1>6, <1>7 DEF IsEnding
<1> QED BY <1>8 DEF f

IsFlushing(g, e, m) ==
  /\ g = [k \in 0..m |-> g[k]] /\ g[0] = e
  /\ \A k \in 1..m : g[k] = ClosePending(g[k - 1], k)

LEMMA FlushingExists ==
  ASSUME NEW e
  PROVE  \A m \in Nat : \E g : IsFlushing(g, e, m)
<1> DEFINE T == {m \in Nat : \E g : IsFlushing(g, e, m)}
<1>1. 0 \in T
  <2> DEFINE g == [k \in 0..0 |-> e]
  <2>1. g = [k \in 0..0 |-> g[k]] /\ g[0] = e
    OBVIOUS
  <2> HIDE DEF g
  <2>2. IsFlushing(g, e, 0)
    BY <2>1 DEF IsFlushing
  <2> QED BY <2>2
<1>2. ASSUME NEW m \in T PROVE m + 1 \in T
  <2>1. m \in Nat /\ \E g : IsFlushing(g, e, m)
    OBVIOUS
  <2>2. PICK g : IsFlushing(g, e, m)
    BY <2>1
  <2> DEFINE next == ClosePending(g[m], m + 1)
  <2> HIDE DEF next
  <2>e. PICK h : Extension(h, g, m, next)
    BY <2>1, Extends
  <2>3. /\ h = [n \in 0..(m + 1) |-> h[n]] /\ h[m + 1] = next
        /\ \A n \in 0..m : h[n] = g[n]
    BY <2>e DEF Extension
  <2>0. /\ g = [k \in 0..m |-> g[k]] /\ g[0] = e
        /\ \A k \in 1..m : g[k] = ClosePending(g[k - 1], k)
    BY <2>2 DEF IsFlushing
  <2>d. 0 \in 0..m
    BY <2>1
  <2>4. h[0] = e
    BY <2>0, <2>3, <2>d, Zenon
  <2>5. ASSUME NEW k \in 1..(m + 1)
        PROVE  h[k] = ClosePending(h[k - 1], k)
    <3>0. k \in Nat /\ k - 1 \in 0..m
      BY <2>1
    <3>1. h[k - 1] = g[k - 1]
      BY <2>3, <3>0, Zenon
    <3>2. CASE k = m + 1
      <4>1. k - 1 = m
        BY <2>1, <3>2
      <4> QED BY <2>3, <3>1, <3>2, <4>1 DEF next
    <3>3. CASE k # m + 1
      <4>1. k \in 1..m /\ k \in 0..m
        BY <2>1, <3>0, <3>3
      <4>2. h[k] = g[k]
        BY <2>3, <4>1, Zenon
      <4> QED BY <2>0, <3>1, <4>1, <4>2, Zenon
    <3> QED BY <3>2, <3>3
  <2>6. IsFlushing(h, e, m + 1)
    BY <2>3, <2>4, <2>5 DEF IsFlushing
  <2> QED BY <2>1, <2>6
<1>3. T = Nat
  <2>1. T \subseteq Nat
    OBVIOUS
  <2> HIDE DEF T
  <2> QED BY <1>1, <1>2, <2>1, NatSteps
<1> QED BY <1>3

LEMMA FlushingSteps ==
  ASSUME NEW e, Len(e.blocks) \in Nat
  PROVE  IsFlushing(Flushed(e), e, Len(e.blocks))
<1> DEFINE Is(g) == g = [b \in 0..Len(e.blocks) |-> IF b = 0 THEN e ELSE ClosePending(g[b - 1], b)]
<1>1. Flushed(e) = CHOOSE g : Is(g)
  BY DEF Flushed
<1>2. PICK g : IsFlushing(g, e, Len(e.blocks))
  BY FlushingExists
<1>3. Is(g)
  <2>1. \A b \in 0..Len(e.blocks) : g[b] = IF b = 0 THEN e ELSE ClosePending(g[b - 1], b)
    <3> TAKE b \in 0..Len(e.blocks)
    <3>1. b = 0 \/ b \in 1..Len(e.blocks)
      OBVIOUS
    <3> QED BY <1>2, <3>1 DEF IsFlushing
  <2>2. g = [b \in 0..Len(e.blocks) |-> g[b]]
    BY <1>2 DEF IsFlushing
  <2> QED BY <2>1, <2>2
<1>4. Is(Flushed(e))
  <2> HIDE DEF Is
  <2> QED BY <1>1, <1>3, Zenon
<1> DEFINE f == Flushed(e)
<1>5. f = [b \in 0..Len(e.blocks) |-> IF b = 0 THEN e ELSE ClosePending(f[b - 1], b)]
  BY <1>4
<1> HIDE DEF f
<1>6. f[0] = e /\ f = [k \in 0..Len(e.blocks) |-> f[k]]
  BY <1>5
<1>7. \A k \in 1..Len(e.blocks) : f[k] = ClosePending(f[k - 1], k)
  BY SMTT(30), <1>5
<1>8. IsFlushing(f, e, Len(e.blocks))
  BY <1>6, <1>7 DEF IsFlushing
<1> QED BY <1>8 DEF f

IsFlushingItems(g, e, m) ==
  /\ g = [k \in 0..m |-> g[k]] /\ g[0] = e
  /\ \A k \in 1..m : g[k] = (IF e.items[k].pending THEN ReasoningDone(g[k - 1], e.items[k].index) ELSE g[k - 1])

LEMMA FlushingItemsExists ==
  ASSUME NEW e
  PROVE  \A m \in Nat : \E g : IsFlushingItems(g, e, m)
<1> DEFINE T == {m \in Nat : \E g : IsFlushingItems(g, e, m)}
<1>1. 0 \in T
  <2> DEFINE g == [k \in 0..0 |-> e]
  <2>1. g = [k \in 0..0 |-> g[k]] /\ g[0] = e
    OBVIOUS
  <2> HIDE DEF g
  <2>2. IsFlushingItems(g, e, 0)
    BY <2>1 DEF IsFlushingItems
  <2> QED BY <2>2
<1>2. ASSUME NEW m \in T PROVE m + 1 \in T
  <2>1. m \in Nat /\ \E g : IsFlushingItems(g, e, m)
    OBVIOUS
  <2>2. PICK g : IsFlushingItems(g, e, m)
    BY <2>1
  <2> DEFINE next == (IF e.items[m + 1].pending THEN ReasoningDone(g[m], e.items[m + 1].index) ELSE g[m])
  <2> HIDE DEF next
  <2>e. PICK h : Extension(h, g, m, next)
    BY <2>1, Extends
  <2>3. /\ h = [n \in 0..(m + 1) |-> h[n]] /\ h[m + 1] = next
        /\ \A n \in 0..m : h[n] = g[n]
    BY <2>e DEF Extension
  <2>0. /\ g = [k \in 0..m |-> g[k]] /\ g[0] = e
        /\ \A k \in 1..m : g[k] = (IF e.items[k].pending THEN ReasoningDone(g[k - 1], e.items[k].index) ELSE g[k - 1])
    BY <2>2 DEF IsFlushingItems
  <2>d. 0 \in 0..m
    BY <2>1
  <2>4. h[0] = e
    BY <2>0, <2>3, <2>d, Zenon
  <2>5. ASSUME NEW k \in 1..(m + 1)
        PROVE  h[k] = (IF e.items[k].pending THEN ReasoningDone(h[k - 1], e.items[k].index) ELSE h[k - 1])
    <3>0. k \in Nat /\ k - 1 \in 0..m
      BY <2>1
    <3>1. h[k - 1] = g[k - 1]
      BY <2>3, <3>0, Zenon
    <3>2. CASE k = m + 1
      <4>1. k - 1 = m
        BY <2>1, <3>2
      <4> QED BY <2>3, <3>1, <3>2, <4>1 DEF next
    <3>3. CASE k # m + 1
      <4>1. k \in 1..m /\ k \in 0..m
        BY <2>1, <3>0, <3>3
      <4>2. h[k] = g[k]
        BY <2>3, <4>1, Zenon
      <4> QED BY <2>0, <3>1, <4>1, <4>2, Zenon
    <3> QED BY <3>2, <3>3
  <2>6. IsFlushingItems(h, e, m + 1)
    BY <2>3, <2>4, <2>5 DEF IsFlushingItems
  <2> QED BY <2>1, <2>6
<1>3. T = Nat
  <2>1. T \subseteq Nat
    OBVIOUS
  <2> HIDE DEF T
  <2> QED BY <1>1, <1>2, <2>1, NatSteps
<1> QED BY <1>3

LEMMA FlushingItemsSteps ==
  ASSUME NEW e, Len(e.items) \in Nat
  PROVE  IsFlushingItems(ReasoningFlushed(e), e, Len(e.items))
<1> DEFINE Is(g) == g = [n \in 0..Len(e.items) |-> CASE n = 0 -> e [] n # 0 /\ e.items[n].pending -> ReasoningDone(g[n - 1], e.items[n].index) [] OTHER -> g[n - 1]]
<1>1. ReasoningFlushed(e) = CHOOSE g : Is(g)
  BY DEF ReasoningFlushed
<1>2. PICK g : IsFlushingItems(g, e, Len(e.items))
  BY FlushingItemsExists
<1>3. Is(g)
  <2>1. \A n \in 0..Len(e.items) : g[n] = CASE n = 0 -> e [] n # 0 /\ e.items[n].pending -> ReasoningDone(g[n - 1], e.items[n].index) [] OTHER -> g[n - 1]
    <3> TAKE n \in 0..Len(e.items)
    <3>1. n = 0 \/ n \in 1..Len(e.items)
      OBVIOUS
    <3> QED BY <1>2, <3>1 DEF IsFlushingItems
  <2>2. g = [n \in 0..Len(e.items) |-> g[n]]
    BY <1>2 DEF IsFlushingItems
  <2> QED BY <2>1, <2>2
<1>4. Is(ReasoningFlushed(e))
  <2> HIDE DEF Is
  <2> QED BY <1>1, <1>3, Zenon
<1> DEFINE f == ReasoningFlushed(e)
<1>5. f = [n \in 0..Len(e.items) |-> CASE n = 0 -> e [] n # 0 /\ e.items[n].pending -> ReasoningDone(f[n - 1], e.items[n].index) [] OTHER -> f[n - 1]]
  BY <1>4
<1> HIDE DEF f
<1>6. f[0] = e /\ f = [k \in 0..Len(e.items) |-> f[k]]
  BY <1>5
<1>7. \A k \in 1..Len(e.items) : f[k] = (IF e.items[k].pending THEN ReasoningDone(f[k - 1], e.items[k].index) ELSE f[k - 1])
  BY <1>5
<1>8. IsFlushingItems(f, e, Len(e.items))
  BY <1>6, <1>7 DEF IsFlushingItems
<1> QED BY <1>8 DEF f

IsReading(g, p, c, wire, m) ==
  /\ g = [k \in 0..m |-> g[k]] /\ g[0] = c
  /\ \A k \in 1..m : g[k] = Read(p, g[k - 1], wire[k])

LEMMA ReadingExists ==
  ASSUME NEW p, NEW c, NEW wire
  PROVE  \A m \in Nat : \E g : IsReading(g, p, c, wire, m)
<1> DEFINE T == {m \in Nat : \E g : IsReading(g, p, c, wire, m)}
<1>1. 0 \in T
  <2> DEFINE g == [k \in 0..0 |-> c]
  <2>1. g = [k \in 0..0 |-> g[k]] /\ g[0] = c
    OBVIOUS
  <2> HIDE DEF g
  <2>2. IsReading(g, p, c, wire, 0)
    BY <2>1 DEF IsReading
  <2> QED BY <2>2
<1>2. ASSUME NEW m \in T PROVE m + 1 \in T
  <2>1. m \in Nat /\ \E g : IsReading(g, p, c, wire, m)
    OBVIOUS
  <2>2. PICK g : IsReading(g, p, c, wire, m)
    BY <2>1
  <2> DEFINE next == Read(p, g[m], wire[m + 1])
  <2> HIDE DEF next
  <2>e. PICK h : Extension(h, g, m, next)
    BY <2>1, Extends
  <2>3. /\ h = [n \in 0..(m + 1) |-> h[n]] /\ h[m + 1] = next
        /\ \A n \in 0..m : h[n] = g[n]
    BY <2>e DEF Extension
  <2>0. /\ g = [k \in 0..m |-> g[k]] /\ g[0] = c
        /\ \A k \in 1..m : g[k] = Read(p, g[k - 1], wire[k])
    BY <2>2 DEF IsReading
  <2>d. 0 \in 0..m
    BY <2>1
  <2>4. h[0] = c
    BY <2>0, <2>3, <2>d, Zenon
  <2>5. ASSUME NEW k \in 1..(m + 1)
        PROVE  h[k] = Read(p, h[k - 1], wire[k])
    <3>0. k \in Nat /\ k - 1 \in 0..m
      BY <2>1
    <3>1. h[k - 1] = g[k - 1]
      BY <2>3, <3>0, Zenon
    <3>2. CASE k = m + 1
      <4>1. k - 1 = m
        BY <2>1, <3>2
      <4> QED BY <2>3, <3>1, <3>2, <4>1 DEF next
    <3>3. CASE k # m + 1
      <4>1. k \in 1..m /\ k \in 0..m
        BY <2>1, <3>0, <3>3
      <4>2. h[k] = g[k]
        BY <2>3, <4>1, Zenon
      <4> QED BY <2>0, <3>1, <4>1, <4>2, Zenon
    <3> QED BY <3>2, <3>3
  <2>6. IsReading(h, p, c, wire, m + 1)
    BY <2>3, <2>4, <2>5 DEF IsReading
  <2> QED BY <2>1, <2>6
<1>3. T = Nat
  <2>1. T \subseteq Nat
    OBVIOUS
  <2> HIDE DEF T
  <2> QED BY <1>1, <1>2, <2>1, NatSteps
<1> QED BY <1>3

LEMMA ReadingSteps ==
  ASSUME NEW p, NEW c, NEW wire, Len(wire) \in Nat
  PROVE  IsReading(WireRead(p, c, wire), p, c, wire, Len(wire))
<1> DEFINE Is(g) == g = [n \in 0..Len(wire) |-> IF n = 0 THEN c ELSE Read(p, g[n - 1], wire[n])]
<1>1. WireRead(p, c, wire) = CHOOSE g : Is(g)
  BY DEF WireRead
<1>2. PICK g : IsReading(g, p, c, wire, Len(wire))
  BY ReadingExists
<1>3. Is(g)
  <2>1. \A n \in 0..Len(wire) : g[n] = IF n = 0 THEN c ELSE Read(p, g[n - 1], wire[n])
    <3> TAKE n \in 0..Len(wire)
    <3>1. n = 0 \/ n \in 1..Len(wire)
      OBVIOUS
    <3> QED BY <1>2, <3>1 DEF IsReading
  <2>2. g = [n \in 0..Len(wire) |-> g[n]]
    BY <1>2 DEF IsReading
  <2> QED BY <2>1, <2>2
<1>4. Is(WireRead(p, c, wire))
  <2> HIDE DEF Is
  <2> QED BY <1>1, <1>3, Zenon
<1> DEFINE f == WireRead(p, c, wire)
<1>5. f = [n \in 0..Len(wire) |-> IF n = 0 THEN c ELSE Read(p, f[n - 1], wire[n])]
  BY <1>4
<1> HIDE DEF f
<1>6. f[0] = c /\ f = [k \in 0..Len(wire) |-> f[k]]
  BY <1>5
<1>7. \A k \in 1..Len(wire) : f[k] = Read(p, f[k - 1], wire[k])
  BY <1>5
<1>8. IsReading(f, p, c, wire, Len(wire))
  BY <1>6, <1>7 DEF IsReading
<1> QED BY <1>8 DEF f

IsRelaying(g, p, e, c, events, m) ==
  /\ g = [k \in 0..m |-> g[k]] /\ g[0] = [e |-> e, c |-> c]
  /\ \A k \in 1..m : g[k] = AppendEvent(g[k - 1], p, events[k])

LEMMA RelayingExists ==
  ASSUME NEW p, NEW e, NEW c, NEW events
  PROVE  \A m \in Nat : \E g : IsRelaying(g, p, e, c, events, m)
<1> DEFINE T == {m \in Nat : \E g : IsRelaying(g, p, e, c, events, m)}
<1>1. 0 \in T
  <2> DEFINE g == [k \in 0..0 |-> [e |-> e, c |-> c]]
  <2>1. g = [k \in 0..0 |-> g[k]] /\ g[0] = [e |-> e, c |-> c]
    OBVIOUS
  <2> HIDE DEF g
  <2>2. IsRelaying(g, p, e, c, events, 0)
    BY <2>1 DEF IsRelaying
  <2> QED BY <2>2
<1>2. ASSUME NEW m \in T PROVE m + 1 \in T
  <2>1. m \in Nat /\ \E g : IsRelaying(g, p, e, c, events, m)
    OBVIOUS
  <2>2. PICK g : IsRelaying(g, p, e, c, events, m)
    BY <2>1
  <2> DEFINE next == AppendEvent(g[m], p, events[m + 1])
  <2> HIDE DEF next
  <2>e. PICK h : Extension(h, g, m, next)
    BY <2>1, Extends
  <2>3. /\ h = [n \in 0..(m + 1) |-> h[n]] /\ h[m + 1] = next
        /\ \A n \in 0..m : h[n] = g[n]
    BY <2>e DEF Extension
  <2>0. /\ g = [k \in 0..m |-> g[k]] /\ g[0] = [e |-> e, c |-> c]
        /\ \A k \in 1..m : g[k] = AppendEvent(g[k - 1], p, events[k])
    BY <2>2 DEF IsRelaying
  <2>d. 0 \in 0..m
    BY <2>1
  <2>4. h[0] = [e |-> e, c |-> c]
    BY <2>0, <2>3, <2>d, Zenon
  <2>5. ASSUME NEW k \in 1..(m + 1)
        PROVE  h[k] = AppendEvent(h[k - 1], p, events[k])
    <3>0. k \in Nat /\ k - 1 \in 0..m
      BY <2>1
    <3>1. h[k - 1] = g[k - 1]
      BY <2>3, <3>0, Zenon
    <3>2. CASE k = m + 1
      <4>1. k - 1 = m
        BY <2>1, <3>2
      <4> QED BY <2>3, <3>1, <3>2, <4>1 DEF next
    <3>3. CASE k # m + 1
      <4>1. k \in 1..m /\ k \in 0..m
        BY <2>1, <3>0, <3>3
      <4>2. h[k] = g[k]
        BY <2>3, <4>1, Zenon
      <4> QED BY <2>0, <3>1, <4>1, <4>2, Zenon
    <3> QED BY <3>2, <3>3
  <2>6. IsRelaying(h, p, e, c, events, m + 1)
    BY <2>3, <2>4, <2>5 DEF IsRelaying
  <2> QED BY <2>1, <2>6
<1>3. T = Nat
  <2>1. T \subseteq Nat
    OBVIOUS
  <2> HIDE DEF T
  <2> QED BY <1>1, <1>2, <2>1, NatSteps
<1> QED BY <1>3

LEMMA RelayingSteps ==
  ASSUME NEW p, NEW e, NEW c, NEW events, Len(events) \in Nat
  PROVE  IsRelaying(Relayed(p, e, c, events), p, e, c, events, Len(events))
<1> DEFINE Is(g) == g = [n \in 0..Len(events) |-> IF n = 0 THEN [e |-> e, c |-> c] ELSE AppendEvent(g[n - 1], p, events[n])]
<1>1. Relayed(p, e, c, events) = CHOOSE g : Is(g)
  BY DEF Relayed
<1>2. PICK g : IsRelaying(g, p, e, c, events, Len(events))
  BY RelayingExists
<1>3. Is(g)
  <2>1. \A n \in 0..Len(events) : g[n] = IF n = 0 THEN [e |-> e, c |-> c] ELSE AppendEvent(g[n - 1], p, events[n])
    <3> TAKE n \in 0..Len(events)
    <3>1. n = 0 \/ n \in 1..Len(events)
      OBVIOUS
    <3> QED BY <1>2, <3>1 DEF IsRelaying
  <2>2. g = [n \in 0..Len(events) |-> g[n]]
    BY <1>2 DEF IsRelaying
  <2> QED BY <2>1, <2>2
<1>4. Is(Relayed(p, e, c, events))
  <2> HIDE DEF Is
  <2> QED BY <1>1, <1>3, Zenon
<1> DEFINE f == Relayed(p, e, c, events)
<1>5. f = [n \in 0..Len(events) |-> IF n = 0 THEN [e |-> e, c |-> c] ELSE AppendEvent(f[n - 1], p, events[n])]
  BY <1>4
<1> HIDE DEF f
<1>6. f[0] = [e |-> e, c |-> c] /\ f = [k \in 0..Len(events) |-> f[k]]
  BY <1>5
<1>7. \A k \in 1..Len(events) : f[k] = AppendEvent(f[k - 1], p, events[k])
  BY <1>5
<1>8. IsRelaying(f, p, e, c, events, Len(events))
  BY <1>6, <1>7 DEF IsRelaying
<1> QED BY <1>8 DEF f

-----------------------------------------------------------------------------
(* The contract of the events (ResponseEvent). A view is what the events   *)
(* so far say of the message: the kind of each block and the text told of  *)
(* it, the text and the thinking that are open, the calls that are closed, *)
(* and whether the answer is over. An event has its place in a view, and   *)
(* leads to the next one.                                                  *)

Kinds == {"text", "thinking", "tool"}
Views == [kinds : Seq(Kinds), told : Seq(Seq(Bytes)), text : Nat, think : Nat,
          shut : SUBSET Nat, over : BOOLEAN]

Orderly(v) ==
  /\ v \in Views
  /\ Len(v.told) = Len(v.kinds)
  /\ v.text \in 0..Len(v.kinds) /\ v.think \in 0..Len(v.kinds)
  /\ v.text # 0 => v.kinds[v.text] = "text"
  /\ v.think # 0 => v.kinds[v.think] = "thinking"
  /\ v.shut \subseteq 1..Len(v.kinds)

Starts == {"text_start", "thinking_start", "toolcall_start"}
EventKinds == Starts \cup {"text_delta", "text_end", "thinking_delta", "thinking_end",
                           "thinking_signature", "toolcall_delta", "toolcall_end",
                           "done", "error"}

InPlace(v, ev) ==
  /\ ~v.over
  /\ ev.kind \in EventKinds
  /\ ev.kind \in Starts => ev.index = Len(v.kinds) + 1
  /\ ev.kind = "text_start" => v.text = 0
  /\ ev.kind = "thinking_start" => v.think = 0
  /\ ev.kind \in {"thinking_start", "thinking_end"} => ev.block.redacted \in BOOLEAN
  /\ ev.kind \in {"text_delta", "text_end"} => v.text # 0 /\ ev.index = v.text
  /\ ev.kind = "text_delta" => ev.delta \in Seq(Bytes)
  /\ ev.kind \in {"thinking_delta", "thinking_end"} => v.think # 0 /\ ev.index = v.think
  /\ ev.kind = "thinking_signature" =>
       ev.index \in 1..Len(v.kinds) /\ v.kinds[ev.index] = "thinking"
  /\ ev.kind \in {"toolcall_delta", "toolcall_end"} =>
       ev.index \in 1..Len(v.kinds) /\ v.kinds[ev.index] = "tool" /\ ev.index \notin v.shut
  /\ ev.kind = "done" =>
       /\ v.text = 0 /\ v.think = 0
       /\ \A i \in 1..Len(v.kinds) : v.kinds[i] = "tool" => i \in v.shut

Started(v, kind) ==
  [v EXCEPT !.kinds = Append(@, kind), !.told = Append(@, <<>>),
            !.text = IF kind = "text" THEN Len(v.kinds) + 1 ELSE @,
            !.think = IF kind = "thinking" THEN Len(v.kinds) + 1 ELSE @]

After(v, ev) ==
  CASE ev.kind = "text_start"     -> Started(v, "text")
    [] ev.kind = "thinking_start" -> Started(v, "thinking")
    [] ev.kind = "toolcall_start" -> Started(v, "tool")
    [] ev.kind = "text_delta"     -> [v EXCEPT !.told[ev.index] = @ \o ev.delta]
    [] ev.kind = "text_end"       -> [v EXCEPT !.text = 0]
    [] ev.kind = "thinking_end"   -> [v EXCEPT !.think = 0]
    [] ev.kind = "toolcall_end"   -> [v EXCEPT !.shut = @ \cup {ev.index}]
    [] ev.kind \in {"done", "error"} -> [v EXCEPT !.over = TRUE]
    [] OTHER                      -> v

LEMMA OrderlyFacts ==
  ASSUME NEW v, Orderly(v)
  PROVE  /\ v.kinds \in Seq(Kinds) /\ Len(v.kinds) \in Nat /\ DOMAIN v.kinds = 1..Len(v.kinds)
         /\ v.told \in Seq(Seq(Bytes)) /\ Len(v.told) = Len(v.kinds)
         /\ v.text \in 0..Len(v.kinds) /\ v.think \in 0..Len(v.kinds)
         /\ v.shut \subseteq 1..Len(v.kinds) /\ v.over \in BOOLEAN
         /\ \A i \in 1..Len(v.kinds) : v.kinds[i] \in Kinds /\ v.told[i] \in Seq(Bytes)
BY DEF Orderly, Views

LEMMA StartedIs ==
  ASSUME NEW v, Orderly(v), NEW kind \in Kinds
  PROVE  /\ Started(v, kind) \in Views
         /\ Started(v, kind).kinds = Append(v.kinds, kind)
         /\ Started(v, kind).told = Append(v.told, <<>>)
         /\ Len(Started(v, kind).kinds) = Len(v.kinds) + 1
         /\ Started(v, kind).kinds[Len(v.kinds) + 1] = kind
         /\ Len(Started(v, kind).told) = Len(v.kinds) + 1
         /\ Started(v, kind).told[Len(v.kinds) + 1] = <<>>
         /\ \A i \in 1..Len(v.kinds) : /\ Started(v, kind).kinds[i] = v.kinds[i]
                                       /\ Started(v, kind).told[i] = v.told[i]
         /\ Started(v, kind).text = IF kind = "text" THEN Len(v.kinds) + 1 ELSE v.text
         /\ Started(v, kind).think = IF kind = "thinking" THEN Len(v.kinds) + 1 ELSE v.think
         /\ Started(v, kind).shut = v.shut /\ Started(v, kind).over = v.over
<1>1. /\ v.kinds \in Seq(Kinds) /\ Len(v.kinds) \in Nat
      /\ v.told \in Seq(Seq(Bytes)) /\ Len(v.told) = Len(v.kinds)
  BY OrderlyFacts
<1>2. <<>> \in Seq(Bytes)
  OBVIOUS
<1> DEFINE w == Started(v, kind)
<1>3. /\ w \in Views /\ w.kinds = Append(v.kinds, kind) /\ w.told = Append(v.told, <<>>)
      /\ w.text = IF kind = "text" THEN Len(v.kinds) + 1 ELSE v.text
      /\ w.think = IF kind = "thinking" THEN Len(v.kinds) + 1 ELSE v.think
      /\ w.shut = v.shut /\ w.over = v.over
  <2> DEFINE a == Append(v.kinds, kind)
             b == Append(v.told, <<>>)
             t == IF kind = "text" THEN Len(v.kinds) + 1 ELSE v.text
             h == IF kind = "thinking" THEN Len(v.kinds) + 1 ELSE v.think
  <2>1. a \in Seq(Kinds) /\ b \in Seq(Seq(Bytes)) /\ t \in Nat /\ h \in Nat
    BY <1>1, <1>2 DEF Orderly, Views
  <2>2. w = [v EXCEPT !.kinds = a, !.told = b, !.text = t, !.think = h]
    BY DEF Started
  <2> HIDE DEF a, b, t, h, w
  <2>3. /\ w \in Views /\ w.kinds = a /\ w.told = b /\ w.text = t /\ w.think = h
        /\ w.shut = v.shut /\ w.over = v.over
    BY <2>1, <2>2 DEF Orderly, Views
  <2> QED BY <2>3 DEF a, b, t, h
<1>4. /\ Len(Append(v.kinds, kind)) = Len(v.kinds) + 1
      /\ Append(v.kinds, kind)[Len(v.kinds) + 1] = kind
      /\ \A i \in 1..Len(v.kinds) : Append(v.kinds, kind)[i] = v.kinds[i]
  BY <1>1
<1>5. /\ Len(Append(v.told, <<>>)) = Len(v.kinds) + 1
      /\ Append(v.told, <<>>)[Len(v.kinds) + 1] = <<>>
      /\ \A i \in 1..Len(v.kinds) : Append(v.told, <<>>)[i] = v.told[i]
  BY <1>1, <1>2
<1> HIDE DEF w
<1>6. /\ Len(w.kinds) = Len(v.kinds) + 1 /\ w.kinds[Len(v.kinds) + 1] = kind
      /\ Len(w.told) = Len(v.kinds) + 1 /\ w.told[Len(v.kinds) + 1] = <<>>
      /\ \A i \in 1..Len(v.kinds) : w.kinds[i] = v.kinds[i] /\ w.told[i] = v.told[i]
  BY <1>3, <1>4, <1>5, Zenon
<1> QED BY <1>3, <1>6 DEF w

(* An event that starts no block: what it changes of a view.               *)
LEMMA AfterIs ==
  ASSUME NEW v, Orderly(v), NEW ev, ev.kind \in EventKinds \ Starts
  PROVE  /\ After(v, ev).kinds = v.kinds
         /\ After(v, ev).told = IF ev.kind = "text_delta"
                               THEN [v.told EXCEPT ![ev.index] = @ \o ev.delta] ELSE v.told
         /\ After(v, ev).text = IF ev.kind = "text_end" THEN 0 ELSE v.text
         /\ After(v, ev).think = IF ev.kind = "thinking_end" THEN 0 ELSE v.think
         /\ After(v, ev).shut = IF ev.kind = "toolcall_end" THEN v.shut \cup {ev.index}
                                ELSE v.shut
         /\ After(v, ev).over = IF ev.kind \in {"done", "error"} THEN TRUE ELSE v.over
         /\ DOMAIN After(v, ev) = DOMAIN v
<1>1. DOMAIN v = {"kinds", "told", "text", "think", "shut", "over"}
  BY DEF Orderly, Views
<1>2. CASE ev.kind = "text_delta"
  <2>1. After(v, ev) = [v EXCEPT !.told[ev.index] = @ \o ev.delta]
    BY <1>2 DEF After
  <2> QED BY <1>1, <1>2, <2>1
<1>3. CASE ev.kind = "text_end"
  <2>1. After(v, ev) = [v EXCEPT !.text = 0]
    BY <1>3 DEF After
  <2> QED BY <1>1, <1>3, <2>1
<1>4. CASE ev.kind = "thinking_end"
  <2>1. After(v, ev) = [v EXCEPT !.think = 0]
    BY <1>4 DEF After
  <2> QED BY <1>1, <1>4, <2>1
<1>5. CASE ev.kind = "toolcall_end"
  <2>1. After(v, ev) = [v EXCEPT !.shut = @ \cup {ev.index}]
    BY <1>5 DEF After
  <2> QED BY <1>1, <1>5, <2>1
<1>6. CASE ev.kind \in {"done", "error"}
  <2>1. After(v, ev) = [v EXCEPT !.over = TRUE]
    BY <1>6 DEF After
  <2> QED BY <1>1, <1>6, <2>1
<1>7. CASE ev.kind \in {"thinking_delta", "thinking_signature", "toolcall_delta"}
  <2>1. After(v, ev) = v
    BY <1>7 DEF After
  <2> QED BY <1>1, <1>7, <2>1
<1> QED BY <1>2, <1>3, <1>4, <1>5, <1>6, <1>7 DEF EventKinds, Starts

(* An event that starts no block, its kind named.                          *)
LEMMA AfterTextDelta ==
  ASSUME NEW v, Orderly(v), NEW ev, ev.kind = "text_delta"
  PROVE  /\ After(v, ev).kinds = v.kinds
         /\ After(v, ev).told = [v.told EXCEPT ![ev.index] = @ \o ev.delta]
         /\ After(v, ev).text = v.text /\ After(v, ev).think = v.think
         /\ After(v, ev).shut = v.shut /\ After(v, ev).over = v.over
<1>1. ev.kind \in EventKinds \ Starts
  BY DEF EventKinds, Starts
<1> QED BY <1>1, AfterIs

LEMMA AfterTextEnd ==
  ASSUME NEW v, Orderly(v), NEW ev, ev.kind = "text_end"
  PROVE  /\ After(v, ev).kinds = v.kinds /\ After(v, ev).told = v.told
         /\ After(v, ev).text = 0 /\ After(v, ev).think = v.think
         /\ After(v, ev).shut = v.shut /\ After(v, ev).over = v.over
<1>1. ev.kind \in EventKinds \ Starts
  BY DEF EventKinds, Starts
<1> QED BY <1>1, AfterIs

LEMMA AfterThinkingEnd ==
  ASSUME NEW v, Orderly(v), NEW ev, ev.kind = "thinking_end"
  PROVE  /\ After(v, ev).kinds = v.kinds /\ After(v, ev).told = v.told
         /\ After(v, ev).text = v.text /\ After(v, ev).think = 0
         /\ After(v, ev).shut = v.shut /\ After(v, ev).over = v.over
<1>1. ev.kind \in EventKinds \ Starts
  BY DEF EventKinds, Starts
<1> QED BY <1>1, AfterIs

LEMMA AfterCallEnd ==
  ASSUME NEW v, Orderly(v), NEW ev, ev.kind = "toolcall_end"
  PROVE  /\ After(v, ev).kinds = v.kinds /\ After(v, ev).told = v.told
         /\ After(v, ev).text = v.text /\ After(v, ev).think = v.think
         /\ After(v, ev).shut = v.shut \cup {ev.index} /\ After(v, ev).over = v.over
<1>1. ev.kind \in EventKinds \ Starts
  BY DEF EventKinds, Starts
<1> QED BY <1>1, AfterIs

LEMMA AfterLittle ==
  ASSUME NEW v, Orderly(v), NEW ev, ev.kind \in {"thinking_delta", "thinking_signature", "toolcall_delta"}
  PROVE  /\ After(v, ev).kinds = v.kinds /\ After(v, ev).told = v.told
         /\ After(v, ev).text = v.text /\ After(v, ev).think = v.think
         /\ After(v, ev).shut = v.shut /\ After(v, ev).over = v.over
<1>1. ev.kind \in EventKinds \ Starts
  BY DEF EventKinds, Starts
<1> QED BY <1>1, AfterIs

LEMMA AfterIsOrderly ==
  ASSUME NEW v, Orderly(v), NEW ev, InPlace(v, ev)
  PROVE  Orderly(After(v, ev))
<1>1. ASSUME NEW kind \in Kinds PROVE Orderly(Started(v, kind))
  <2> DEFINE w == Started(v, kind)
  <2>1. /\ w \in Views /\ Len(w.kinds) = Len(v.kinds) + 1 /\ Len(w.told) = Len(v.kinds) + 1
        /\ w.kinds[Len(v.kinds) + 1] = kind
        /\ \A i \in 1..Len(v.kinds) : w.kinds[i] = v.kinds[i]
        /\ w.text = IF kind = "text" THEN Len(v.kinds) + 1 ELSE v.text
        /\ w.think = IF kind = "thinking" THEN Len(v.kinds) + 1 ELSE v.think
        /\ w.shut = v.shut
    BY StartedIs
  <2> HIDE DEF w
  <2>2. Len(v.kinds) \in Nat /\ v.text \in 0..Len(v.kinds) /\ v.think \in 0..Len(v.kinds)
    BY OrderlyFacts
  <2>3. /\ v.text # 0 => v.text \in 1..Len(v.kinds) /\ v.kinds[v.text] = "text"
        /\ v.think # 0 => v.think \in 1..Len(v.kinds) /\ v.kinds[v.think] = "thinking"
    BY <2>2 DEF Orderly
  <2>4. Orderly(w)
    <3>1. w.shut \subseteq 1..Len(w.kinds)
      BY <2>1, <2>2, OrderlyFacts
    <3> QED BY SMTT(30), <2>1, <2>2, <2>3, <3>1 DEF Orderly
  <2> QED BY <2>4 DEF w
<1>2. CASE ev.kind \in Starts
  BY <1>1, <1>2 DEF After, Starts, Kinds
<1>3. CASE ev.kind \in EventKinds \ Starts
  <2> DEFINE w == After(v, ev)
  <2>1. /\ w.kinds = v.kinds
        /\ w.told = IF ev.kind = "text_delta"
                     THEN [v.told EXCEPT ![ev.index] = @ \o ev.delta] ELSE v.told
        /\ w.text = IF ev.kind = "text_end" THEN 0 ELSE v.text
        /\ w.think = IF ev.kind = "thinking_end" THEN 0 ELSE v.think
        /\ w.shut = IF ev.kind = "toolcall_end" THEN v.shut \cup {ev.index} ELSE v.shut
        /\ w.over = IF ev.kind \in {"done", "error"} THEN TRUE ELSE v.over
    BY <1>3, AfterIs
  <2>2. w \in [kinds : {w.kinds}, told : {w.told}, text : {w.text}, think : {w.think},
               shut : {w.shut}, over : {w.over}]
    <3>1. v = [kinds |-> v.kinds, told |-> v.told, text |-> v.text, think |-> v.think,
               shut |-> v.shut, over |-> v.over]
      BY DEF Orderly, Views
    <3> QED BY <1>3, <3>1 DEF After, EventKinds, Starts
  <2> HIDE DEF w
  <2>3. w.shut \in SUBSET Nat /\ w.shut \subseteq 1..Len(v.kinds)
    <3>1. ev.kind = "toolcall_end" => ev.index \in 1..Len(v.kinds)
      BY OrderlyFacts DEF InPlace
    <3> QED BY <2>1, <3>1, OrderlyFacts
  <2>4. w.told \in Seq(Seq(Bytes)) /\ Len(w.told) = Len(v.told)
    <3>1. CASE ev.kind = "text_delta"
      <4>1. ev.index \in 1..Len(v.kinds) /\ ev.delta \in Seq(Bytes)
        BY <3>1, OrderlyFacts DEF InPlace
      <4>2. v.told[ev.index] \o ev.delta \in Seq(Bytes)
        BY <4>1, OrderlyFacts
      <4> DEFINE more == v.told[ev.index] \o ev.delta
      <4>3. w.told = [v.told EXCEPT ![ev.index] = more]
        BY <2>1, <3>1
      <4> HIDE DEF more
      <4>4. more \in Seq(Bytes)
        BY <4>2 DEF more
      <4> QED BY <4>1, <4>3, <4>4, OrderlyFacts
    <3> QED BY <2>1, <3>1, OrderlyFacts
  <2>5. w \in Views
    <3>1. /\ w.kinds \in Seq(Kinds) /\ w.text \in Nat /\ w.think \in Nat /\ w.over \in BOOLEAN
      <4>1. w.over \in BOOLEAN
        BY <2>1, OrderlyFacts, Zenon
      <4>2. w.kinds \in Seq(Kinds) /\ w.text \in Nat /\ w.think \in Nat
        BY <2>1, OrderlyFacts
      <4> QED BY <4>1, <4>2
    <3> QED BY <2>2, <2>3, <2>4, <3>1 DEF Views
  <2>6. Orderly(w)
    BY <2>1, <2>3, <2>4, <2>5 DEF Orderly
  <2> QED BY <2>6 DEF w
<1> QED BY <1>2, <1>3 DEF InPlace

(* What holds at 0 and passes from each number to the next, up to n.       *)
LEMMA StepByStep ==
  ASSUME NEW n \in Nat, NEW T, 0 \in T, \A k \in 1..n : k - 1 \in T => k \in T
  PROVE  \A k \in 0..n : k \in T
<1> DEFINE U == {m \in Nat : m <= n => m \in T}
<1>1. \A m \in U : m + 1 \in U
  <2> TAKE m \in U
  <2>1. m \in Nat /\ m + 1 \in Nat /\ (m + 1) - 1 = m
    OBVIOUS
  <2>2. CASE m + 1 <= n
    <3>1. m + 1 \in 1..n /\ m \in T
      BY <2>1, <2>2
    <3>2. m + 1 \in T
      BY <2>1, <3>1
    <3> QED BY <2>1, <3>2
  <2>3. CASE ~(m + 1 <= n)
    BY <2>1, <2>3
  <2> QED BY <2>2, <2>3
<1>2. 0 \in U /\ U \subseteq Nat
  OBVIOUS
<1> HIDE DEF U
<1>3. U = Nat
  BY <1>1, <1>2, NatSteps
<1> QED BY <1>3 DEF U

-----------------------------------------------------------------------------
(* The Messages encoder follows the contract: its blocks are those of the  *)
(* view, numbered as they start.                                           *)

MsgFields == {"blocks", "finished", "refused", "wire"}
BlockFields == {"index", "kind", "sig", "pending", "deferred", "redacted", "unopened"}

BlockOf(block, i, kind) ==
  BlockFields \subseteq DOMAIN block /\ block.index = i /\ block.kind = kind

MsgMatch(v, e) ==
  /\ MsgFields \subseteq DOMAIN e
  /\ e.refused = FALSE /\ e.finished = v.over
  /\ IsSeq(e.blocks) /\ Len(e.blocks) = Len(v.kinds)
  /\ \A b \in 1..Len(v.kinds) : BlockOf(e.blocks[b], b, v.kinds[b])

LEMMA WriteMatches ==
  ASSUME NEW v, NEW e, MsgMatch(v, e), NEW frame
  PROVE  /\ MsgMatch(v, Write(e, frame)) /\ Write(e, frame).blocks = e.blocks
         /\ Write(e, frame).wire = Append(e.wire, frame)
<1> DEFINE f == Write(e, frame)
<1>1. /\ DOMAIN f = DOMAIN e /\ f.blocks = e.blocks /\ f.refused = e.refused
      /\ f.finished = e.finished /\ f.wire = Append(e.wire, frame)
  BY DEF Write, MsgMatch, MsgFields
<1> HIDE DEF f
<1>2. MsgMatch(v, f)
  BY <1>1 DEF MsgMatch
<1> QED BY <1>1, <1>2 DEF f

(* The encoder with another block in place i, and with a block more.       *)
WithBlock(e, i, x) == [e EXCEPT !.blocks = [e.blocks EXCEPT ![i] = x]]
MoreBlock(e, x) == [e EXCEPT !.blocks = Append(e.blocks, x)]

LEMMA BlockChanges ==
  ASSUME NEW v, Orderly(v), NEW e, MsgMatch(v, e), NEW i \in 1..Len(v.kinds), NEW x,
         BlockOf(x, i, v.kinds[i])
  PROVE  /\ MsgMatch(v, WithBlock(e, i, x)) /\ WithBlock(e, i, x).blocks[i] = x
         /\ WithBlock(e, i, x).wire = e.wire
         /\ \A b \in 1..Len(v.kinds) : b # i => WithBlock(e, i, x).blocks[b] = e.blocks[b]
<1> DEFINE bs == [e.blocks EXCEPT ![i] = x]
           f == [e EXCEPT !.blocks = bs]
<1>1. IsSeq(e.blocks) /\ Len(e.blocks) = Len(v.kinds)
  BY DEF MsgMatch
<1>2. /\ IsSeq(bs) /\ Len(bs) = Len(v.kinds) /\ bs[i] = x
      /\ \A b \in 1..Len(v.kinds) : b # i => bs[b] = e.blocks[b]
  BY <1>1, SeqExcept DEF Replaced
<1> HIDE DEF bs
<1>3. /\ DOMAIN f = DOMAIN e /\ f.blocks = bs /\ f.refused = e.refused
      /\ f.finished = e.finished /\ f.wire = e.wire
  BY DEF MsgMatch, MsgFields
<1> HIDE DEF f
<1>4. \A b \in 1..Len(v.kinds) : BlockOf(bs[b], b, v.kinds[b])
  <2> TAKE b \in 1..Len(v.kinds)
  <2>1. CASE b = i
    BY <1>2, <2>1
  <2>2. CASE b # i
    <3>1. bs[b] = e.blocks[b]
      BY <1>2, <2>2
    <3>2. BlockOf(e.blocks[b], b, v.kinds[b])
      BY DEF MsgMatch
    <3> QED BY <3>1, <3>2, Zenon
  <2> QED BY <2>1, <2>2
<1>5. MsgMatch(v, f)
  BY <1>2, <1>3, <1>4 DEF MsgMatch
<1>6. /\ f.blocks = bs /\ f.blocks[i] = x /\ f.wire = e.wire
      /\ \A b \in 1..Len(v.kinds) : b # i => f.blocks[b] = e.blocks[b]
  BY <1>2, <1>3, Zenon
<1> QED BY <1>5, <1>6 DEF f, bs, WithBlock

LEMMA BlockAt ==
  ASSUME NEW v, Orderly(v), NEW e, MsgMatch(v, e), NEW i \in 1..Len(v.kinds)
  PROVE  /\ At(e, i) = i /\ BlockOf(e.blocks[i], i, v.kinds[i])
         /\ \A kind : Has(e, i, kind) <=> kind = v.kinds[i]
<1>1. DOMAIN e.blocks = 1..Len(v.kinds)
  BY SeqFacts DEF MsgMatch
<1>2. \A b \in 1..Len(v.kinds) : BlockOf(e.blocks[b], b, v.kinds[b])
  BY DEF MsgMatch
<1>3. \A b \in 1..Len(v.kinds) : e.blocks[b].index = b /\ e.blocks[b].kind = v.kinds[b]
  BY <1>2 DEF BlockOf
<1>4. At(e, i) = i
  BY <1>1, <1>3 DEF At
<1>5. \A kind : Has(e, i, kind) <=> kind = v.kinds[i]
  BY <1>1, <1>3 DEF Has
<1> QED BY <1>2, <1>4, <1>5

LEMMA NewBlockMatches ==
  ASSUME NEW v, Orderly(v), NEW e, MsgMatch(v, e), NEW kind \in Kinds, NEW redacted,
         NEW x, x = BlockState(Len(v.kinds) + 1, kind, redacted)
  PROVE  /\ MsgMatch(Started(v, kind), MoreBlock(e, x)) /\ MoreBlock(e, x).wire = e.wire
         /\ MoreBlock(e, x).blocks[Len(v.kinds) + 1] = x
         /\ \A b \in 1..Len(v.kinds) : MoreBlock(e, x).blocks[b] = e.blocks[b]
<1> DEFINE n == Len(v.kinds)
           bs == Append(e.blocks, x)
           f == [e EXCEPT !.blocks = bs]
           w == Started(v, kind)
<1>1. IsSeq(e.blocks) /\ Len(e.blocks) = n /\ n \in Nat
  BY OrderlyFacts DEF MsgMatch
<1>2. BlockOf(x, n + 1, kind)
  BY DEF BlockOf, BlockState, BlockFields
<1>3. /\ IsSeq(bs) /\ Len(bs) = n + 1 /\ bs[n + 1] = x
      /\ \A b \in 1..n : bs[b] = e.blocks[b]
  BY <1>1, SeqAppend
<1> HIDE DEF bs
<1>4. /\ DOMAIN f = DOMAIN e /\ f.blocks = bs /\ f.refused = e.refused
      /\ f.finished = e.finished /\ f.wire = e.wire
  BY DEF MsgMatch, MsgFields
<1>5. /\ Len(w.kinds) = n + 1 /\ w.kinds[n + 1] = kind /\ w.over = v.over
      /\ \A b \in 1..n : w.kinds[b] = v.kinds[b]
  BY StartedIs
<1> HIDE DEF f, w
<1>6. \A b \in 1..Len(w.kinds) : BlockOf(f.blocks[b], b, w.kinds[b])
  <2> TAKE b \in 1..Len(w.kinds)
  <2>1. CASE b = n + 1
    BY <1>2, <1>3, <1>4, <1>5, <2>1
  <2>2. CASE b # n + 1
    <3>1. b \in 1..n
      BY <1>1, <1>5, <2>2
    <3>2. f.blocks[b] = e.blocks[b] /\ w.kinds[b] = v.kinds[b]
      BY <1>3, <1>4, <1>5, <3>1
    <3>3. BlockOf(e.blocks[b], b, v.kinds[b])
      BY <3>1 DEF MsgMatch
    <3> QED BY <3>2, <3>3, Zenon
  <2> QED BY <2>1, <2>2
<1>7. MsgMatch(w, f)
  BY <1>3, <1>4, <1>5, <1>6 DEF MsgMatch
<1>8. /\ f.blocks[n + 1] = x /\ f.wire = e.wire
      /\ \A b \in 1..n : f.blocks[b] = e.blocks[b]
  BY <1>3, <1>4
<1> QED BY <1>7, <1>8 DEF f, w, bs, MoreBlock

LEMMA StopThinkingMatches ==
  ASSUME NEW v, NEW e, MsgMatch(v, e), NEW i
  PROVE  /\ MsgMatch(v, StopThinking(e, i)) /\ StopThinking(e, i).blocks = e.blocks
         /\ MsgMatch(v, TellSignature(e, i)) /\ TellSignature(e, i).blocks = e.blocks
<1>1. \A f \in {e} : \A frame : MsgMatch(v, Write(f, frame)) /\ Write(f, frame).blocks = f.blocks
  BY WriteMatches
<1>2. \A frame, last : /\ MsgMatch(v, Write(Write(e, frame), last))
                       /\ Write(Write(e, frame), last).blocks = e.blocks
  BY <1>1, WriteMatches
<1>3. MsgMatch(v, StopThinking(e, i)) /\ StopThinking(e, i).blocks = e.blocks
  BY <1>1, <1>2 DEF StopThinking
<1>4. MsgMatch(v, TellSignature(e, i)) /\ TellSignature(e, i).blocks = e.blocks
  BY <1>1 DEF TellSignature
<1> QED BY <1>3, <1>4

LEMMA EndBlockMatches ==
  ASSUME NEW v, Orderly(v), NEW e, MsgMatch(v, e), NEW i \in 1..Len(v.kinds)
  PROVE  MsgMatch(v, EndBlock(e, i))
<1>1. At(e, i) = i /\ BlockOf(e.blocks[i], i, v.kinds[i])
  BY BlockAt
<1> DEFINE x == [e.blocks[i] EXCEPT !.deferred = TRUE]
<1>2. BlockOf(x, i, v.kinds[i])
  BY <1>1 DEF BlockOf, BlockFields
<1> HIDE DEF x
<1>3. MsgMatch(v, WithBlock(e, i, x))
  BY <1>2, BlockChanges
<1>4. MsgMatch(v, Write(e, Frame("stop", i, "plain", <<>>)))
  BY WriteMatches
<1>5. EndBlock(e, i) = IF EarlierPending(e, i) THEN WithBlock(e, i, x)
                       ELSE Write(e, Frame("stop", i, "plain", <<>>))
  BY <1>1 DEF EndBlock, WithBlock, x
<1> QED BY <1>3, <1>4, <1>5

LEMMA EndThinkingMatches ==
  ASSUME NEW v, Orderly(v), NEW e, MsgMatch(v, e), NEW ev, ev.index \in 1..Len(v.kinds)
  PROVE  MsgMatch(v, MessagesEndThinking(e, ev))
<1> DEFINE i == ev.index
           x == [e.blocks[i] EXCEPT !.sig = @ \o ev.block.sig,
                                    !.redacted = @ \/ ev.block.redacted]
           read == WithBlock(e, i, x)
<1>1. At(e, i) = i /\ BlockOf(e.blocks[i], i, v.kinds[i])
  BY BlockAt
<1>2. BlockOf(x, i, v.kinds[i])
  BY <1>1 DEF BlockOf, BlockFields
<1>3. read = [e EXCEPT !.blocks[i].sig = @ \o ev.block.sig,
                       !.blocks[i].redacted = @ \/ ev.block.redacted]
  <2>1. IsSeq(e.blocks) /\ DOMAIN e.blocks = 1..Len(v.kinds)
    BY SeqFacts DEF MsgMatch
  <2>2. "blocks" \in DOMAIN e
    BY DEF MsgMatch, MsgFields
  <2> QED BY <2>1, <2>2 DEF WithBlock
<1> HIDE DEF x, read
<1>4. MsgMatch(v, read) /\ read.blocks[i] = x
  BY <1>2, BlockChanges DEF read
<1> DEFINE y == [x EXCEPT !.pending = TRUE]
           z == [x EXCEPT !.deferred = TRUE]
<1>5. BlockOf(y, i, v.kinds[i]) /\ BlockOf(z, i, v.kinds[i])
  BY <1>2 DEF BlockOf, BlockFields
<1>6. /\ [read EXCEPT !.blocks[i].pending = TRUE] = WithBlock(read, i, y)
      /\ [read EXCEPT !.blocks[i].deferred = TRUE] = WithBlock(read, i, z)
  <2> HIDE DEF read
  <2> QED BY <1>4 DEF WithBlock
<1> HIDE DEF y, z, read
<1>a. MsgMatch(v, WithBlock(read, i, y)) /\ MsgMatch(v, WithBlock(read, i, z))
  BY <1>4, <1>5, BlockChanges
<1>7. /\ MsgMatch(v, [read EXCEPT !.blocks[i].pending = TRUE])
      /\ MsgMatch(v, [read EXCEPT !.blocks[i].deferred = TRUE])
  BY <1>6, <1>a
<1>8. MsgMatch(v, StopThinking(TellSignature(read, i), i))
  BY SMTT(30), <1>4, StopThinkingMatches
<1>9. \/ MessagesEndThinking(e, ev) = [read EXCEPT !.blocks[i].pending = TRUE]
      \/ MessagesEndThinking(e, ev) = [read EXCEPT !.blocks[i].deferred = TRUE]
      \/ MessagesEndThinking(e, ev) = StopThinking(TellSignature(read, i), i)
  BY <1>1, <1>3 DEF MessagesEndThinking
<1> QED BY <1>7, <1>8, <1>9

LEMMA ClosePendingMatches ==
  ASSUME NEW v, Orderly(v), NEW e, MsgMatch(v, e), NEW b \in 1..Len(v.kinds)
  PROVE  MsgMatch(v, ClosePending(e, b))
<1> DEFINE x == [e.blocks[b] EXCEPT !.pending = FALSE, !.deferred = FALSE]
           settled == [e EXCEPT !.blocks[b].pending = FALSE, !.blocks[b].deferred = FALSE]
<1>1. BlockOf(e.blocks[b], b, v.kinds[b])
  BY BlockAt
<1>2. BlockOf(x, b, v.kinds[b])
  BY <1>1 DEF BlockOf, BlockFields
<1>3. settled = WithBlock(e, b, x)
  <2>1. IsSeq(e.blocks) /\ DOMAIN e.blocks = 1..Len(v.kinds)
    BY SeqFacts DEF MsgMatch
  <2>2. "blocks" \in DOMAIN e
    BY DEF MsgMatch, MsgFields
  <2> QED BY <2>1, <2>2 DEF WithBlock
<1> HIDE DEF x, settled
<1>4. MsgMatch(v, settled)
  BY <1>2, <1>3, BlockChanges
<1>5. \A i : /\ MsgMatch(v, StopThinking(TellSignature(settled, i), i))
             /\ MsgMatch(v, Write(settled, Frame("stop", i, "plain", <<>>)))
  BY <1>4, StopThinkingMatches, WriteMatches
<1> QED BY <1>5 DEF ClosePending, settled

LEMMA FlushMatches ==
  ASSUME NEW v, Orderly(v), NEW e, MsgMatch(v, e)
  PROVE  MsgMatch(v, FlushPendingThinking(e))
<1> DEFINE n == Len(e.blocks)
           f == Flushed(e)
           T == {k \in 0..n : MsgMatch(v, f[k])}
<1>1. n \in Nat /\ n = Len(v.kinds)
  BY OrderlyFacts DEF MsgMatch
<1>2. f[0] = e /\ \A k \in 1..n : f[k] = ClosePending(f[k - 1], k)
  BY <1>1, FlushingSteps DEF IsFlushing
<1> HIDE DEF f
<1>3. 0 \in T
  BY <1>1, <1>2
<1>4. ASSUME NEW k \in 1..n, k - 1 \in T PROVE k \in T
  <2>1. k \in 0..n /\ k \in 1..Len(v.kinds) /\ f[k] = ClosePending(f[k - 1], k)
    BY <1>1, <1>2
  <2>2. MsgMatch(v, f[k - 1])
    BY <1>4
  <2>3. MsgMatch(v, ClosePending(f[k - 1], k))
    BY <2>1, <2>2, ClosePendingMatches
  <2> QED BY <2>1, <2>3
<1>5. \A k \in 0..n : k \in T
  <2> HIDE DEF T
  <2> QED BY <1>1, <1>3, <1>4, StepByStep
<1>6. n \in T
  BY <1>1, <1>5
<1> QED BY <1>6 DEF FlushPendingThinking, f

LEMMA MsgMatchIsOf ==
  ASSUME NEW v, NEW w, NEW e, MsgMatch(v, e), w.kinds = v.kinds, w.over = v.over
  PROVE  MsgMatch(w, e)
BY DEF MsgMatch

LEMMA MessagesFinishMatches ==
  ASSUME NEW v, Orderly(v), NEW w, Orderly(w), w.kinds = v.kinds, w.over = TRUE,
         NEW e, MsgMatch(v, e), NEW name
  PROVE  MsgMatch(w, MessagesFinish(e, name))
<1> DEFINE f == [e EXCEPT !.finished = TRUE]
<1>1. /\ DOMAIN f = DOMAIN e /\ f.blocks = e.blocks /\ f.refused = e.refused
      /\ f.finished = TRUE
  BY DEF MsgMatch, MsgFields
<1> HIDE DEF f
<1>2. MsgMatch(w, f)
  BY <1>1 DEF MsgMatch
<1>3. MsgMatch(w, FlushPendingThinking(f))
  BY <1>2, FlushMatches
<1>4. MsgMatch(w, Write(FlushPendingThinking(f), Frame(name, 1, "plain", <<>>)))
  BY <1>3, WriteMatches
<1> QED BY <1>4 DEF MessagesFinish, f

LEMMA MessagesHandles ==
  ASSUME NEW v, Orderly(v), NEW ev, InPlace(v, ev), ValidEvent(ev),
         NEW e, MsgMatch(v, e)
  PROVE  /\ MessagesEncode(e, ev) = MessagesHandle(e, ev)
         /\ ev.kind \notin Starts \cup {"done", "error"} =>
              /\ ev.index \in 1..Len(v.kinds) /\ At(e, ev.index) = ev.index
              /\ BlockOf(e.blocks[ev.index], ev.index, v.kinds[ev.index])
<1> DEFINE i == ev.index
<1>0. /\ e.finished = FALSE /\ Len(v.kinds) \in Nat
      /\ v.text \in 0..Len(v.kinds) /\ v.think \in 0..Len(v.kinds)
  BY OrderlyFacts DEF MsgMatch, InPlace
<1>1. ev.kind \notin Starts \cup {"done", "error"} =>
        i \in 1..Len(v.kinds) /\ At(e, i) = i /\ BlockOf(e.blocks[i], i, v.kinds[i])
  <2>1. ev.kind \notin Starts \cup {"done", "error"} => i \in 1..Len(v.kinds)
    BY <1>0 DEF InPlace, EventKinds
  <2> QED BY <2>1, BlockAt
<1>2. MessagesKnows(e, ev)
  <2>1. CASE ev.kind \in {"text_delta", "text_end"}
    <3>1. i \in 1..Len(v.kinds) /\ v.kinds[i] = "text"
      BY <1>1, <2>1 DEF InPlace, Orderly, Starts
    <3>2. Has(e, i, "text")
      BY <3>1, BlockAt
    <3> QED BY <2>1, <3>2 DEF MessagesKnows
  <2>2. CASE ev.kind \in {"thinking_delta", "thinking_end", "thinking_signature"}
    <3>1. i \in 1..Len(v.kinds) /\ v.kinds[i] = "thinking"
      BY <1>1, <2>2 DEF InPlace, Orderly, Starts
    <3>2. Has(e, i, "thinking")
      BY <3>1, BlockAt
    <3> QED BY <2>2, <3>2 DEF MessagesKnows
  <2>3. CASE ev.kind \in {"toolcall_delta", "toolcall_end"}
    <3>1. i \in 1..Len(v.kinds) /\ v.kinds[i] = "tool"
      BY <1>1, <2>3 DEF InPlace, Orderly, Starts
    <3>2. Has(e, i, "tool")
      BY <3>1, BlockAt
    <3> QED BY <2>3, <3>2 DEF MessagesKnows
  <2>4. CASE ev.kind \in Starts \cup {"done", "error"}
    BY <2>4 DEF MessagesKnows, Starts
  <2> QED BY <2>1, <2>2, <2>3, <2>4 DEF InPlace, EventKinds
<1>3. MessagesEncode(e, ev) = MessagesHandle(e, ev)
  BY <1>0, <1>2 DEF MessagesEncode
<1> QED BY <1>1, <1>3

LEMMA MessagesFollows ==
  ASSUME NEW v, Orderly(v), NEW ev, InPlace(v, ev), ValidEvent(ev),
         NEW e, MsgMatch(v, e)
  PROVE  MsgMatch(After(v, ev), MessagesEncode(e, ev))
<1> DEFINE i == ev.index
           w == After(v, ev)
<1>0. /\ e.finished = FALSE /\ Orderly(w) /\ Len(v.kinds) \in Nat
      /\ v.text \in 0..Len(v.kinds) /\ v.think \in 0..Len(v.kinds)
  BY OrderlyFacts, AfterIsOrderly DEF MsgMatch, InPlace
<1>1. ev.kind \notin Starts \cup {"done", "error"} =>
        i \in 1..Len(v.kinds) /\ At(e, i) = i /\ BlockOf(e.blocks[i], i, v.kinds[i])
  BY MessagesHandles
<1>3. MessagesEncode(e, ev) = MessagesHandle(e, ev)
  BY MessagesHandles
<1>4. ASSUME ev.kind \in EventKinds \ (Starts \cup {"done", "error"})
      PROVE  \A f : MsgMatch(v, f) => MsgMatch(w, f)
  <2>1. w.kinds = v.kinds /\ w.over = v.over
    BY <1>4, AfterIs
  <2> HIDE DEF w
  <2> QED BY <2>1, MsgMatchIsOf
<1>5. CASE ev.kind \in Starts
  <2>1. i = Len(v.kinds) + 1
    BY <1>5 DEF InPlace
  <2> DEFINE f(kind, redacted) == MoreBlock(e, BlockState(i, kind, redacted))
  <2>2. \A kind \in Kinds : \A redacted : MsgMatch(Started(v, kind), f(kind, redacted))
    BY <2>1, NewBlockMatches
  <2> HIDE DEF f
  <2>3. \A kind \in Kinds : \A redacted, frame :
          MsgMatch(Started(v, kind), Write(f(kind, redacted), frame))
    BY <2>2, WriteMatches
  <2>4. \A kind, payload :
          StartBlock(e, i, kind, payload) = Write(f(kind, FALSE), Frame("start", i, kind, payload))
    BY DEF StartBlock, MoreBlock, f
  <2>5. StartThinking(e, ev) = IF ev.block.redacted THEN f("thinking", TRUE)
                               ELSE StartBlock(e, i, "thinking", <<>>)
    BY DEF StartThinking, MoreBlock, f
  <2>6. CASE ev.kind = "text_start"
    <3>1. MessagesHandle(e, ev) = StartBlock(e, i, "text", <<>>) /\ w = Started(v, "text")
      BY <2>6 DEF MessagesHandle, After
    <3> QED BY <1>3, <2>3, <2>4, <3>1 DEF Kinds
  <2>7. CASE ev.kind = "thinking_start"
    <3>1. MessagesHandle(e, ev) = StartThinking(e, ev) /\ w = Started(v, "thinking")
      BY <2>7 DEF MessagesHandle, After
    <3> QED BY <1>3, <2>2, <2>3, <2>4, <2>5, <3>1 DEF Kinds
  <2>8. CASE ev.kind = "toolcall_start"
    <3>1. /\ MessagesHandle(e, ev) = StartBlock(e, i, "tool", <<ev.id, ev.block.name>>)
          /\ w = Started(v, "tool")
      BY <2>8 DEF MessagesHandle, After
    <3> QED BY <1>3, <2>3, <2>4, <3>1 DEF Kinds
  <2> QED BY <1>5, <2>6, <2>7, <2>8 DEF Starts
<1>6. CASE ev.kind \in {"text_delta", "toolcall_delta"}
  <2>1. MessagesHandle(e, ev) = Write(e, Frame("delta", i, IF ev.kind = "text_delta" THEN "text" ELSE "tool", ev.delta))
    BY <1>6 DEF MessagesHandle
  <2> QED BY <1>3, <1>4, <1>6, <2>1, WriteMatches DEF EventKinds, Starts
<1>7. CASE ev.kind \in {"text_end", "toolcall_end"}
  <2>1. MessagesHandle(e, ev) = EndBlock(e, i)
    BY <1>7 DEF MessagesHandle
  <2>2. MsgMatch(v, EndBlock(e, i))
    BY <1>1, <1>7, EndBlockMatches DEF Starts
  <2> QED BY <1>3, <1>4, <1>7, <2>1, <2>2 DEF EventKinds, Starts
<1>8. CASE ev.kind = "thinking_delta"
  <2>1. MessagesHandle(e, ev) = ThinkingDelta(e, ev)
    BY <1>8 DEF MessagesHandle
  <2>2. MsgMatch(v, ThinkingDelta(e, ev))
    BY WriteMatches DEF ThinkingDelta
  <2> QED BY <1>3, <1>4, <1>8, <2>1, <2>2 DEF EventKinds, Starts
<1>9. CASE ev.kind = "thinking_end"
  <2>1. MessagesHandle(e, ev) = MessagesEndThinking(e, ev)
    BY <1>9 DEF MessagesHandle
  <2>2. MsgMatch(v, MessagesEndThinking(e, ev))
    BY <1>1, <1>9, EndThinkingMatches DEF Starts
  <2> QED BY <1>3, <1>4, <1>9, <2>1, <2>2 DEF EventKinds, Starts
<1>10. CASE ev.kind = "thinking_signature"
  <2> DEFINE x == [e.blocks[i] EXCEPT !.sig = @ \o ev.delta]
  <2>0. i \in 1..Len(v.kinds) /\ At(e, i) = i /\ BlockOf(e.blocks[i], i, v.kinds[i])
    BY <1>1, <1>10 DEF Starts
  <2>1. MessagesHandle(e, ev) = WithBlock(e, i, x)
    BY <1>10, <2>0 DEF MessagesHandle, WithBlock
  <2>2. BlockOf(x, i, v.kinds[i])
    BY <2>0 DEF BlockOf, BlockFields
  <2> HIDE DEF x
  <2>3. MsgMatch(v, WithBlock(e, i, x))
    BY <2>0, <2>2, BlockChanges
  <2> QED BY <1>3, <1>4, <1>10, <2>1, <2>3 DEF EventKinds, Starts
<1>11. CASE ev.kind \in {"done", "error"}
  <2>1. MessagesHandle(e, ev) = MessagesFinish(e, ev.kind)
    BY <1>11 DEF MessagesHandle
  <2>2. w.kinds = v.kinds /\ w.over = TRUE
    BY <1>11, AfterIs DEF EventKinds, Starts
  <2> HIDE DEF w
  <2>3. MsgMatch(w, MessagesFinish(e, ev.kind))
    BY <1>0, <2>2, MessagesFinishMatches
  <2> QED BY <1>3, <2>1, <2>3 DEF w
<1> QED BY <1>5, <1>6, <1>7, <1>8, <1>9, <1>10, <1>11 DEF InPlace, EventKinds

-----------------------------------------------------------------------------
(* The Responses encoder follows the contract: an item is closed when its  *)
(* block is, or it waits for its signature.                                *)

RespFields == {"items", "finished", "refused", "wire"}
ItemFields == {"index", "kind", "value", "sealed", "text", "pending", "closed", "output"}

ItemKinds(kind) ==
  CASE kind = "text" -> {"message"} [] kind = "thinking" -> {"reasoning"} [] OTHER -> ToolKinds

Itemized(e, m) ==
  /\ RespFields \subseteq DOMAIN e
  /\ IsSeq(e.items) /\ Len(e.items) = m
  /\ \A n \in 1..m : ItemFields \subseteq DOMAIN e.items[n] /\ e.items[n].index = n

(* The item of block n in a view.                                          *)
Standing(v, n, item) ==
  /\ item.kind \in ItemKinds(v.kinds[n])
  /\ v.kinds[n] = "text" => /\ n = v.text => item.closed = FALSE
                            /\ n # v.text => item.closed = TRUE
  /\ v.kinds[n] = "thinking" => item.closed = TRUE \/ item.pending = TRUE \/ n = v.think
  /\ v.kinds[n] = "thinking" /\ n = v.think => item.closed = FALSE
  /\ v.kinds[n] = "tool" => /\ n \in v.shut => item.closed = TRUE
                            /\ n \notin v.shut => item.closed = FALSE

RespMatch(v, e) ==
  /\ RespFields \subseteq DOMAIN e /\ e.refused = FALSE /\ e.finished = v.over
  /\ ~v.over => /\ Itemized(e, Len(v.kinds))
                /\ \A n \in 1..Len(v.kinds) : Standing(v, n, e.items[n])

(* f is e with another item in place i.                                    *)
ItemChanged(f, e, m, i) ==
  /\ Itemized(f, m) /\ f.refused = e.refused /\ f.finished = e.finished
  /\ \A n \in 1..m : n # i => f.items[n] = e.items[n]
  /\ f.items[i].kind = e.items[i].kind

WithItem(e, i, x) == [e EXCEPT !.items = [e.items EXCEPT ![i] = x]]

LEMMA ItemChanges ==
  ASSUME NEW e, NEW m \in Nat, Itemized(e, m), NEW i \in 1..m, NEW x,
         ItemFields \subseteq DOMAIN x, x.index = i, x.kind = e.items[i].kind
  PROVE  /\ ItemChanged(WithItem(e, i, x), e, m, i) /\ WithItem(e, i, x).items[i] = x
<1> DEFINE bs == [e.items EXCEPT ![i] = x]
           f == [e EXCEPT !.items = bs]
<1>1. IsSeq(e.items) /\ Len(e.items) = m
  BY DEF Itemized
<1>2. /\ IsSeq(bs) /\ Len(bs) = m /\ bs[i] = x
      /\ \A n \in 1..m : n # i => bs[n] = e.items[n]
  <2>1. i \in 1..Len(e.items)
    BY <1>1
  <2>2. /\ IsSeq(bs) /\ Len(bs) = Len(e.items) /\ bs[i] = x
        /\ \A n \in 1..Len(e.items) : n # i => bs[n] = e.items[n]
    <3>1. Replaced(bs, e.items, i, x)
      <4> DEFINE s == e.items
      <4> HIDE DEF s
      <4>1. IsSeq(s) /\ i \in 1..Len(s)
        BY <1>1, <2>1 DEF s
      <4>2. Replaced([s EXCEPT ![i] = x], s, i, x)
        BY <4>1, SeqExcept
      <4> QED BY <4>2 DEF s
    <3> HIDE DEF bs
    <3> QED BY <3>1, Zenon DEF Replaced
  <2> QED BY <1>1, <2>2
<1> HIDE DEF bs
<1>3. /\ DOMAIN f = DOMAIN e /\ f.items = bs /\ f.refused = e.refused
      /\ f.finished = e.finished
  BY DEF Itemized, RespFields
<1> HIDE DEF f
<1>4. \A n \in 1..m : ItemFields \subseteq DOMAIN bs[n] /\ bs[n].index = n
  <2> TAKE n \in 1..m
  <2>1. CASE n = i
    BY <1>2, <2>1
  <2>2. CASE n # i
    <3>1. bs[n] = e.items[n]
      BY <1>2, <2>2
    <3>2. ItemFields \subseteq DOMAIN e.items[n] /\ e.items[n].index = n
      BY DEF Itemized
    <3> QED BY <3>1, <3>2, Zenon
  <2> QED BY <2>1, <2>2
<1>5. Itemized(f, m)
  BY <1>2, <1>3, <1>4 DEF Itemized
<1>6. ItemChanged(f, e, m, i) /\ f.items[i] = x
  BY <1>2, <1>3, <1>5 DEF ItemChanged
<1> QED BY <1>6 DEF f, bs, WithItem

LEMMA EmitKeeps ==
  ASSUME NEW e, NEW m, Itemized(e, m), NEW name, NEW index, NEW payload
  PROVE  /\ Itemized(Emit(e, name, index, payload), m)
         /\ Emit(e, name, index, payload).items = e.items
         /\ Emit(e, name, index, payload).refused = e.refused
         /\ Emit(e, name, index, payload).finished = e.finished
<1> DEFINE f == Emit(e, name, index, payload)
<1>1. /\ DOMAIN f = DOMAIN e /\ f.items = e.items /\ f.refused = e.refused
      /\ f.finished = e.finished
  BY DEF Emit, Itemized, RespFields
<1> HIDE DEF f
<1>2. Itemized(f, m)
  BY <1>1 DEF Itemized
<1> QED BY <1>1, <1>2 DEF f

LEMMA ItemIsAt ==
  ASSUME NEW e, NEW m \in Nat, Itemized(e, m), NEW i \in 1..m
  PROVE  ItemAt(e, i) = i
<1>1. DOMAIN e.items = 1..m /\ \A n \in 1..m : e.items[n].index = n
  BY SeqFacts DEF Itemized
<1> QED BY <1>1 DEF ItemAt

LEMMA CloseItemIs ==
  ASSUME NEW e, NEW m \in Nat, Itemized(e, m), NEW i \in 1..m, NEW output
  PROVE  /\ ItemChanged(CloseItem(e, i, output), e, m, i)
         /\ CloseItem(e, i, output).items[i].closed = TRUE
<1> DEFINE x == [e.items[i] EXCEPT !.closed = TRUE, !.output = output]
           f == WithItem(e, i, x)
<1>1. ItemFields \subseteq DOMAIN e.items[i] /\ e.items[i].index = i
  BY DEF Itemized
<1>2. /\ ItemFields \subseteq DOMAIN x /\ x.index = i /\ x.kind = e.items[i].kind
      /\ x.closed = TRUE
  BY <1>1 DEF ItemFields
<1>3. CloseItem(e, i, output) = Emit(f, "closed", i, output)
  <2>1. ItemAt(e, i) = i
    BY ItemIsAt
  <2>2. "items" \in DOMAIN e /\ i \in DOMAIN e.items
    BY SeqFacts DEF Itemized, RespFields
  <2>3. f = [e EXCEPT !.items[i].closed = TRUE, !.items[i].output = output]
    BY <2>2 DEF WithItem
  <2> HIDE DEF f, x
  <2> QED BY <2>1, <2>3 DEF CloseItem
<1> HIDE DEF x
<1>4. ItemChanged(f, e, m, i) /\ f.items[i] = x
  BY <1>2, ItemChanges
<1> HIDE DEF f
<1> DEFINE g == Emit(f, "closed", i, output)
<1>5. /\ Itemized(g, m) /\ g.items = f.items /\ g.refused = f.refused
      /\ g.finished = f.finished
  BY <1>4, EmitKeeps DEF ItemChanged
<1> HIDE DEF g
<1>6. ItemChanged(g, e, m, i) /\ g.items[i].closed = TRUE
  BY <1>2, <1>4, <1>5 DEF ItemChanged
<1> QED BY <1>3, <1>6 DEF g

(* One change after the other.                                             *)
LEMMA ChangedAgain ==
  ASSUME NEW e, NEW f, NEW g, NEW m, NEW i,
         ItemChanged(f, e, m, i), ItemChanged(g, f, m, i)
  PROVE  ItemChanged(g, e, m, i)
BY DEF ItemChanged

LEMMA ReasoningDoneIs ==
  ASSUME NEW e, NEW m \in Nat, Itemized(e, m), NEW i \in 1..m
  PROVE  /\ ItemChanged(ReasoningDone(e, i), e, m, i)
         /\ ReasoningDone(e, i).items[i].closed = TRUE
<1> DEFINE x == [e.items[i] EXCEPT !.pending = FALSE]
           f == WithItem(e, i, x)
           out == [kind |-> "reasoning", name |-> <<>>, body |-> e.items[i].text,
                   sig |-> e.items[i].sealed]
<1>1. ItemFields \subseteq DOMAIN e.items[i] /\ e.items[i].index = i
  BY DEF Itemized
<1>2. ItemFields \subseteq DOMAIN x /\ x.index = i /\ x.kind = e.items[i].kind
  BY <1>1 DEF ItemFields
<1>3. ReasoningDone(e, i) = CloseItem(f, i, out)
  <2>1. ItemAt(e, i) = i
    BY ItemIsAt
  <2> QED BY <2>1 DEF ReasoningDone, WithItem
<1> HIDE DEF x
<1>4. ItemChanged(f, e, m, i)
  BY <1>2, ItemChanges
<1> HIDE DEF f, out
<1>5. ItemChanged(CloseItem(f, i, out), f, m, i) /\ CloseItem(f, i, out).items[i].closed = TRUE
  BY <1>4, CloseItemIs DEF ItemChanged
<1> QED BY <1>3, <1>4, <1>5, ChangedAgain

(* After the flush every item that waited is closed.                       *)
FlushedTo(f, e, m, k) ==
  /\ Itemized(f, m) /\ f.refused = e.refused /\ f.finished = e.finished
  /\ \A n \in 1..m : e.items[n].closed = TRUE \/ (n <= k /\ e.items[n].pending = TRUE)
                       => f.items[n].closed = TRUE

LEMMA FlushCloses ==
  ASSUME NEW e, NEW m \in Nat, Itemized(e, m)
  PROVE  FlushedTo(FlushPendingReasoning(e), e, m, m)
<1> DEFINE f == ReasoningFlushed(e)
           T == {k \in 0..m : FlushedTo(f[k], e, m, k)}
<1>1. Len(e.items) = m /\ \A n \in 1..m : e.items[n].index = n
  BY DEF Itemized
<1>2. /\ f[0] = e
      /\ \A k \in 1..m : f[k] = (IF e.items[k].pending THEN ReasoningDone(f[k - 1], k)
                                 ELSE f[k - 1])
  <2>1. IsFlushingItems(f, e, m)
    BY <1>1, FlushingItemsSteps
  <2> HIDE DEF f
  <2> QED BY <1>1, <2>1 DEF IsFlushingItems
<1> HIDE DEF f
<1>3. 0 \in T
  BY <1>2 DEF FlushedTo
<1>4. ASSUME NEW k \in 1..m, k - 1 \in T PROVE k \in T
  <2>0. k \in 0..m /\ k \in Nat
    OBVIOUS
  <2>1. FlushedTo(f[k - 1], e, m, k - 1)
    BY <1>4
  <2>2. \A n \in 1..m : n <= k => n = k \/ n <= k - 1
    BY <2>0
  <2>3. CASE e.items[k].pending = TRUE
    <3>1. f[k] = ReasoningDone(f[k - 1], k)
      BY <1>2, <2>3
    <3>2. Itemized(f[k - 1], m)
      BY <2>1 DEF FlushedTo
    <3>3. ItemChanged(f[k], f[k - 1], m, k) /\ f[k].items[k].closed = TRUE
      BY <3>1, <3>2, ReasoningDoneIs
    <3>4. FlushedTo(f[k], e, m, k)
      <4>1. ASSUME NEW n \in 1..m,
                   e.items[n].closed = TRUE \/ (n <= k /\ e.items[n].pending = TRUE)
            PROVE  f[k].items[n].closed = TRUE
        <5>1. CASE n = k
          BY <3>3, <5>1
        <5>2. CASE n # k
          <6>1. f[k - 1].items[n].closed = TRUE
            BY <2>1, <2>2, <4>1, <5>2 DEF FlushedTo
          <6>2. f[k].items[n] = f[k - 1].items[n]
            BY <3>3, <5>2 DEF ItemChanged
          <6> QED BY <6>1, <6>2
        <5> QED BY <5>1, <5>2
      <4>2. /\ Itemized(f[k], m) /\ f[k].refused = e.refused /\ f[k].finished = e.finished
        BY <2>1, <3>3 DEF ItemChanged, FlushedTo
      <4> QED BY <4>1, <4>2 DEF FlushedTo
    <3> QED BY <2>0, <3>4
  <2>4. CASE e.items[k].pending # TRUE
    <3>1. f[k] = f[k - 1]
      BY <1>2, <2>4
    <3>2. FlushedTo(f[k - 1], e, m, k)
      BY <2>1, <2>2, <2>4 DEF FlushedTo
    <3> QED BY <2>0, <3>1, <3>2
  <2> QED BY <2>3, <2>4
<1>5. \A k \in 0..m : k \in T
  <2> HIDE DEF T
  <2> QED BY <1>3, <1>4, StepByStep
<1>6. m \in T
  BY <1>5
<1> QED BY <1>1, <1>6 DEF FlushPendingReasoning, f

(* An item that is as closed and as pending as before stands as before.    *)
LEMMA StandsAsBefore ==
  ASSUME NEW v, Orderly(v), NEW w, Orderly(w), NEW e, RespMatch(v, e), ~v.over,
         w.kinds = v.kinds, w.text = v.text, w.think = v.think, w.shut = v.shut, w.over = v.over,
         NEW i \in 1..Len(v.kinds), NEW f, ItemChanged(f, e, Len(v.kinds), i),
         f.items[i].closed = e.items[i].closed, f.items[i].pending = e.items[i].pending
  PROVE  RespMatch(w, f)
<1>1. \A n \in 1..Len(v.kinds) : Standing(v, n, e.items[n])
  BY DEF RespMatch
<1>2. ASSUME NEW n \in 1..Len(v.kinds) PROVE Standing(w, n, f.items[n])
  <2>1. CASE n = i
    BY <1>1, <2>1 DEF Standing, ItemChanged
  <2>2. CASE n # i
    BY <1>1, <2>2 DEF Standing, ItemChanged
  <2> QED BY <2>1, <2>2
<1> QED BY <1>2 DEF RespMatch, ItemChanged, Itemized

LEMMA NewItemMatches ==
  ASSUME NEW v, Orderly(v), NEW e, RespMatch(v, e), ~v.over, NEW kind \in Kinds,
         kind = "text" => v.text = 0, kind = "thinking" => v.think = 0,
         NEW x, ItemFields \subseteq DOMAIN x, x.index = Len(v.kinds) + 1,
         x.kind \in ItemKinds(kind), x.closed = FALSE,
         NEW f, DOMAIN f = DOMAIN e, f.items = Append(e.items, x),
         f.refused = e.refused, f.finished = e.finished
  PROVE  RespMatch(Started(v, kind), f)
<1> DEFINE n == Len(v.kinds)
           w == Started(v, kind)
<1>1. IsSeq(e.items) /\ Len(e.items) = n /\ n \in Nat
  BY OrderlyFacts DEF RespMatch, Itemized
<1>2. /\ IsSeq(f.items) /\ Len(f.items) = n + 1 /\ f.items[n + 1] = x
      /\ \A b \in 1..n : f.items[b] = e.items[b]
  BY <1>1, SeqAppend
<1>3. /\ Len(w.kinds) = n + 1 /\ w.kinds[n + 1] = kind /\ w.over = v.over /\ w.shut = v.shut
      /\ \A b \in 1..n : w.kinds[b] = v.kinds[b]
      /\ w.text = IF kind = "text" THEN n + 1 ELSE v.text
      /\ w.think = IF kind = "thinking" THEN n + 1 ELSE v.think
  BY StartedIs
<1> HIDE DEF w
<1>4. ASSUME NEW b \in 1..(n + 1)
      PROVE  /\ ItemFields \subseteq DOMAIN f.items[b] /\ f.items[b].index = b
             /\ Standing(w, b, f.items[b])
  <2>1. CASE b = n + 1
    <3>1. b \notin v.shut /\ f.items[b] = x /\ w.kinds[b] = kind
      BY <1>1, <1>2, <1>3, <2>1, OrderlyFacts
    <3>2. kind = "text" => b = w.text
      BY <1>3, <2>1
    <3>3. kind = "thinking" => b = w.think
      BY <1>3, <2>1
    <3>4. Standing(w, b, x)
      BY <1>3, <3>1, <3>2, <3>3 DEF Standing
    <3> QED BY <2>1, <3>1, <3>4
  <2>2. CASE b # n + 1
    <3>1. b \in 1..n
      BY <1>1, <2>2
    <3>2. f.items[b] = e.items[b] /\ w.kinds[b] = v.kinds[b]
      BY <1>2, <1>3, <3>1
    <3>3. /\ Standing(v, b, e.items[b])
          /\ ItemFields \subseteq DOMAIN e.items[b] /\ e.items[b].index = b
      BY <3>1 DEF RespMatch, Itemized
    <3>4. (b = w.text) = (b = v.text) \/ w.kinds[b] # "text"
      <4>1. kind = "text" => b # v.text /\ b # w.text
        BY <1>1, <1>3, <3>1
      <4> QED BY <1>3, <4>1
    <3>5. (b = w.think) = (b = v.think) \/ w.kinds[b] # "thinking"
      <4>1. kind = "thinking" => b # v.think /\ b # w.think
        BY <1>1, <1>3, <3>1
      <4> QED BY <1>3, <4>1
    <3>6. Standing(w, b, e.items[b])
      BY <1>3, <3>2, <3>3, <3>4, <3>5 DEF Standing
    <3> QED BY <3>2, <3>3, <3>6
  <2> QED BY <2>1, <2>2
<1>5. RespFields \subseteq DOMAIN f /\ f.refused = FALSE /\ f.finished = w.over
  BY <1>3 DEF RespMatch
<1>6. RespMatch(w, f)
  BY <1>2, <1>3, <1>4, <1>5 DEF RespMatch, Itemized
<1> QED BY <1>6 DEF w

LEMMA OpenItemMatches ==
  ASSUME NEW v, Orderly(v), NEW e, RespMatch(v, e), ~v.over, NEW kind \in Kinds,
         kind = "text" => v.text = 0, kind = "thinking" => v.think = 0,
         NEW ev, ev.index = Len(v.kinds) + 1, NEW name \in ItemKinds(kind), NEW payload
  PROVE  RespMatch(Started(v, kind), OpenItem(e, ev, name, payload))
<1> DEFINE x == NewItem(ev, name)
           f == OpenItem(e, ev, name, payload)
<1>1. /\ ItemFields \subseteq DOMAIN x /\ x.index = Len(v.kinds) + 1
      /\ x.kind \in ItemKinds(kind) /\ x.closed = FALSE
  BY DEF NewItem, ItemFields
<1> HIDE DEF x
<1>2. /\ DOMAIN f = DOMAIN e /\ f.items = Append(e.items, x)
      /\ f.refused = e.refused /\ f.finished = e.finished
  BY DEF OpenItem, Emit, RespMatch, RespFields, x
<1> HIDE DEF f
<1>3. RespMatch(Started(v, kind), f)
  BY <1>1, <1>2, NewItemMatches
<1> QED BY <1>3 DEF f

(* The open item of the block that an event is about.                      *)
LEMMA ResponsesKnow ==
  ASSUME NEW v, Orderly(v), NEW ev, InPlace(v, ev), NEW e, RespMatch(v, e)
  PROVE  /\ Itemized(e, Len(v.kinds))
         /\ ResponsesKnows(e, ev)
         /\ ev.kind \notin Starts \cup {"done", "error"} =>
              ev.index \in 1..Len(v.kinds) /\ ItemAt(e, ev.index) = ev.index
<1> DEFINE i == ev.index
           m == Len(v.kinds)
<1>1. m \in Nat /\ v.text \in 0..m /\ v.think \in 0..m
  BY OrderlyFacts
<1>2. Itemized(e, m) /\ \A n \in 1..m : Standing(v, n, e.items[n])
  BY DEF RespMatch, InPlace
<1>3. /\ DOMAIN e.items = 1..m /\ \A n \in 1..m : e.items[n].index = n
  BY <1>2, SeqFacts DEF Itemized
<1>4. ev.kind \notin Starts \cup {"done", "error"} => i \in 1..m
  BY <1>1 DEF InPlace, EventKinds
<1>5. i \in 1..m => ItemAt(e, i) = i
  BY <1>1, <1>2, ItemIsAt
<1>6. CASE ev.kind \in Starts
  <2>1. \A n \in DOMAIN e.items : e.items[n].index # i
    BY <1>1, <1>3, <1>6 DEF InPlace
  <2> QED BY <1>2, <1>6, <2>1 DEF ResponsesKnows, Starts
<1>7. CASE ev.kind \in {"text_delta", "text_end"}
  <2>1. i \in 1..m /\ i = v.text /\ v.kinds[i] = "text"
    BY <1>4, <1>7 DEF InPlace, Orderly, Starts
  <2>2. e.items[i].kind = "message" /\ e.items[i].closed = FALSE
    BY <1>2, <2>1 DEF Standing, ItemKinds
  <2>3. HasItem(e, i, {"message"})
    BY <1>3, <2>1, <2>2 DEF HasItem
  <2> QED BY <1>2, <1>5, <1>7, <2>1, <2>3 DEF ResponsesKnows
<1>8. CASE ev.kind \in {"thinking_delta", "thinking_end"}
  <2>1. i \in 1..m /\ i = v.think /\ v.kinds[i] = "thinking"
    BY <1>4, <1>8 DEF InPlace, Orderly, Starts
  <2>2. e.items[i].kind = "reasoning" /\ e.items[i].closed = FALSE
    BY <1>2, <2>1 DEF Standing, ItemKinds
  <2>3. HasItem(e, i, {"reasoning"})
    BY <1>3, <2>1, <2>2 DEF HasItem
  <2> QED BY <1>2, <1>5, <1>8, <2>1, <2>3 DEF ResponsesKnows
<1>9. CASE ev.kind = "thinking_signature"
  <2>1. i \in 1..m /\ v.kinds[i] = "thinking"
    BY <1>9 DEF InPlace
  <2>2. e.items[i].kind = "reasoning"
    BY <1>2, <2>1 DEF Standing, ItemKinds
  <2>3. \E n \in DOMAIN e.items : e.items[n].index = i /\ e.items[n].kind = "reasoning"
    BY <1>3, <2>1, <2>2
  <2> QED BY <1>2, <1>5, <1>9, <2>1, <2>3 DEF ResponsesKnows
<1>10. CASE ev.kind \in {"toolcall_delta", "toolcall_end"}
  <2>1. i \in 1..m /\ v.kinds[i] = "tool" /\ i \notin v.shut
    BY <1>10 DEF InPlace
  <2>2. e.items[i].kind \in ToolKinds /\ e.items[i].closed = FALSE
    BY <1>2, <2>1 DEF Standing, ItemKinds
  <2>3. HasItem(e, i, ToolKinds)
    BY <1>3, <2>1, <2>2 DEF HasItem
  <2> QED BY <1>2, <1>5, <1>10, <2>1, <2>3 DEF ResponsesKnows
<1>11. CASE ev.kind \in {"done", "error"}
  BY <1>2, <1>11 DEF ResponsesKnows
<1> QED BY <1>6, <1>7, <1>8, <1>9, <1>10, <1>11 DEF InPlace, EventKinds

(* A change of an item that leaves it open, or closed, as it was.          *)
LEMMA ItemGrows ==
  ASSUME NEW v, Orderly(v), NEW w, Orderly(w), NEW e, RespMatch(v, e), ~v.over,
         w.kinds = v.kinds, w.text = v.text, w.think = v.think, w.shut = v.shut, w.over = v.over,
         NEW i \in 1..Len(v.kinds), NEW x, ItemFields \subseteq DOMAIN x, x.index = i,
         x.kind = e.items[i].kind, x.closed = e.items[i].closed, x.pending = e.items[i].pending
  PROVE  RespMatch(w, WithItem(e, i, x)) /\ Itemized(WithItem(e, i, x), Len(v.kinds))
<1>1. Itemized(e, Len(v.kinds)) /\ Len(v.kinds) \in Nat
  BY OrderlyFacts DEF RespMatch
<1>2. ItemChanged(WithItem(e, i, x), e, Len(v.kinds), i) /\ WithItem(e, i, x).items[i] = x
  BY <1>1, ItemChanges
<1> DEFINE f == WithItem(e, i, x)
<1>3. f.items[i].closed = e.items[i].closed /\ f.items[i].pending = e.items[i].pending
  BY <1>2, Zenon
<1> HIDE DEF f
<1>4. RespMatch(w, f)
  BY <1>2, <1>3, StandsAsBefore DEF f
<1> QED BY <1>2, <1>4 DEF f, ItemChanged

LEMMA EmitMatches ==
  ASSUME NEW v, NEW e, RespMatch(v, e), ~v.over, NEW name, NEW index, NEW payload
  PROVE  RespMatch(v, Emit(e, name, index, payload))
<1> DEFINE f == Emit(e, name, index, payload)
<1>1. Itemized(e, Len(v.kinds))
  BY DEF RespMatch
<1>2. /\ Itemized(f, Len(v.kinds)) /\ f.items = e.items /\ f.refused = e.refused
      /\ f.finished = e.finished
  BY <1>1, EmitKeeps
<1> HIDE DEF f
<1>3. RespMatch(v, f)
  BY <1>2 DEF RespMatch, Itemized
<1> QED BY <1>3 DEF f

LEMMA ItemEnds ==
  ASSUME NEW v, Orderly(v), NEW w, Orderly(w), NEW e, RespMatch(v, e), ~v.over,
         w.kinds = v.kinds, w.over = v.over,
         NEW i \in 1..Len(v.kinds), NEW f, ItemChanged(f, e, Len(v.kinds), i),
         Standing(w, i, f.items[i]),
         \A n \in 1..Len(v.kinds) : n # i => (n = w.text) = (n = v.text),
         \A n \in 1..Len(v.kinds) : n # i => (n = w.think) = (n = v.think),
         \A n \in 1..Len(v.kinds) : n # i => (n \in w.shut) = (n \in v.shut)
  PROVE  RespMatch(w, f)
<1>1. \A n \in 1..Len(v.kinds) : Standing(v, n, e.items[n])
  BY DEF RespMatch
<1>2. ASSUME NEW n \in 1..Len(v.kinds) PROVE Standing(w, n, f.items[n])
  <2>1. CASE n = i
    BY <2>1
  <2>2. CASE n # i
    <3>1. f.items[n] = e.items[n]
      BY <2>2 DEF ItemChanged
    <3> QED BY <1>1, <2>2, <3>1 DEF Standing
  <2> QED BY <2>1, <2>2
<1> QED BY <1>2 DEF RespMatch, ItemChanged, Itemized

LEMMA EndReasoningMatches ==
  ASSUME NEW v, Orderly(v), NEW w, Orderly(w), NEW e, RespMatch(v, e), ~v.over,
         NEW ev, ev.index = v.think, v.think # 0, ItemAt(e, ev.index) = ev.index,
         w.kinds = v.kinds, w.text = v.text, w.think = 0, w.shut = v.shut, w.over = v.over
  PROVE  RespMatch(w, EndReasoning(e, ev))
<1> DEFINE i == ev.index
           m == Len(v.kinds)
           text == IF ev.block.body = <<>> THEN e.items[i].value ELSE ev.block.body
           sealed == IF ev.block.sig = <<>> THEN e.items[i].sealed ELSE ev.block.sig
           x == [e.items[i] EXCEPT !.text = text, !.sealed = sealed]
           read == [e EXCEPT !.items[i].text = text, !.items[i].sealed = sealed]
           y == [x EXCEPT !.pending = TRUE]
<1>1. m \in Nat /\ i \in 1..m /\ v.kinds[i] = "thinking"
  BY OrderlyFacts DEF Orderly
<1>2. Itemized(e, m) /\ e.items[i].kind \in {"reasoning"} /\ ItemFields \subseteq DOMAIN e.items[i]
      /\ e.items[i].index = i
  BY <1>1 DEF RespMatch, Itemized, Standing, ItemKinds
<1> HIDE DEF text, sealed
<1>3. ItemFields \subseteq DOMAIN x /\ x.index = i /\ x.kind = e.items[i].kind
  BY <1>2 DEF ItemFields
<1>4. read = WithItem(e, i, x)
  <2>1. "items" \in DOMAIN e /\ i \in DOMAIN e.items
    BY <1>1, <1>2, SeqFacts DEF Itemized, RespFields
  <2> QED BY <2>1 DEF WithItem
<1>5. ItemFields \subseteq DOMAIN y /\ y.index = i /\ y.kind = e.items[i].kind /\ y.pending = TRUE
  BY <1>2 DEF ItemFields
<1> HIDE DEF x, read
<1>6. ItemChanged(read, e, m, i) /\ read.items[i] = x
  BY <1>1, <1>2, <1>3, <1>4, ItemChanges
<1>7. EndReasoning(e, ev) = IF sealed = <<>> THEN WithItem(read, i, y) ELSE ReasoningDone(read, i)
  <2>1. "items" \in DOMAIN read /\ i \in DOMAIN read.items
    BY <1>1, <1>6, SeqFacts DEF ItemChanged, Itemized, RespFields
  <2>2. [read EXCEPT !.items[i].pending = TRUE] = WithItem(read, i, y)
    BY <1>6, <2>1 DEF WithItem
  <2>3. EndReasoning(e, ev) = IF sealed = <<>> THEN [read EXCEPT !.items[i].pending = TRUE]
                              ELSE ReasoningDone(read, i)
    BY DEF EndReasoning, read, text, sealed
  <2> QED BY <2>2, <2>3
<1> HIDE DEF y
<1>8. \A n \in 1..m : n # i => (n = w.think) = (n = v.think)
  BY <1>1
<1>9. CASE sealed = <<>>
  <2> DEFINE f == WithItem(read, i, y)
  <2>1. ItemChanged(f, read, m, i) /\ f.items[i] = y
    BY <1>1, <1>5, <1>6, <1>3, ItemChanges DEF ItemChanged
  <2> HIDE DEF f
  <2>2. ItemChanged(f, e, m, i)
    BY <1>6, <2>1, ChangedAgain
  <2>3. Standing(w, i, f.items[i])
    BY <1>1, <1>2, <1>5, <2>1 DEF Standing, ItemKinds
  <2>4. RespMatch(w, f)
    BY <1>1, <1>8, <2>2, <2>3, ItemEnds
  <2> QED BY <1>7, <1>9, <2>4 DEF f
<1>10. CASE sealed # <<>>
  <2> DEFINE f == ReasoningDone(read, i)
  <2>1. ItemChanged(f, read, m, i) /\ f.items[i].closed = TRUE
    BY <1>1, <1>6, ReasoningDoneIs DEF ItemChanged
  <2> HIDE DEF f
  <2>2. ItemChanged(f, e, m, i)
    BY <1>6, <2>1, ChangedAgain
  <2>3. Standing(w, i, f.items[i])
    BY <1>1, <1>2, <2>1, <2>2 DEF Standing, ItemKinds, ItemChanged
  <2>4. RespMatch(w, f)
    BY <1>1, <1>8, <2>2, <2>3, ItemEnds
  <2> QED BY <1>7, <1>10, <2>4 DEF f
<1> QED BY <1>9, <1>10

(* The end of a text or of a call closes its item.                         *)
LEMMA CloseMatches ==
  ASSUME NEW v, Orderly(v), NEW w, Orderly(w), NEW e, RespMatch(v, e), ~v.over,
         NEW i \in 1..Len(v.kinds), v.kinds[i] \in {"text", "tool"},
         w.kinds = v.kinds, w.think = v.think, w.over = v.over,
         \/ v.kinds[i] = "text" /\ i = v.text /\ w.text = 0 /\ w.shut = v.shut
         \/ v.kinds[i] = "tool" /\ w.text = v.text /\ w.shut = v.shut \cup {i},
         NEW output
  PROVE  RespMatch(w, CloseItem(e, i, output))
<1> DEFINE f == CloseItem(e, i, output)
           m == Len(v.kinds)
<1>1. Itemized(e, m) /\ m \in Nat /\ Standing(v, i, e.items[i])
  BY OrderlyFacts DEF RespMatch
<1>2. ItemChanged(f, e, m, i) /\ f.items[i].closed = TRUE
  BY <1>1, CloseItemIs
<1> HIDE DEF f
<1>3. Standing(w, i, f.items[i])
  BY <1>1, <1>2 DEF Standing, ItemChanged, ItemKinds
<1>4. RespMatch(w, f)
  BY SMTT(30), <1>1, <1>2, <1>3, ItemEnds
<1> QED BY <1>4 DEF f

LEMMA ResponsesFinishMatches ==
  ASSUME NEW v, Orderly(v), NEW ev, InPlace(v, ev), ev.kind \in {"done", "error"},
         NEW w, w.over = TRUE, NEW e, RespMatch(v, e)
  PROVE  RespMatch(w, ResponsesHandle(e, ev))
<1> DEFINE m == Len(v.kinds)
<1>1. Itemized(e, m) /\ m \in Nat /\ e.refused = FALSE /\ v.over = FALSE
  BY OrderlyFacts DEF RespMatch, InPlace
<1>2. ASSUME NEW f, Itemized(f, m), f.refused = FALSE, f.finished = TRUE, NEW name, NEW payload
      PROVE  RespMatch(w, Emit(f, name, 1, payload))
  <2> DEFINE g == Emit(f, name, 1, payload)
  <2>1. Itemized(g, m) /\ g.refused = FALSE /\ g.finished = TRUE
    BY <1>2, EmitKeeps
  <2> HIDE DEF g
  <2>2. RespMatch(w, g)
    BY <2>1 DEF RespMatch, Itemized
  <2> QED BY <2>2 DEF g
<1>3. CASE ev.kind = "error"
  <2> DEFINE f == [e EXCEPT !.finished = TRUE]
  <2>1. DOMAIN f = DOMAIN e /\ f.items = e.items /\ f.refused = FALSE /\ f.finished = TRUE
    BY <1>1 DEF Itemized, RespFields
  <2> HIDE DEF f
  <2>2. Itemized(f, m)
    BY <1>1, <2>1 DEF Itemized
  <2>3. FlushedTo(FlushPendingReasoning(f), f, m, m)
    BY <1>1, <2>2, FlushCloses
  <2>4. RespMatch(w, Emit(FlushPendingReasoning(f), "failed", 1, <<>>))
    BY <1>2, <2>1, <2>3 DEF FlushedTo
  <2>5. ResponsesHandle(e, ev) = Emit(FlushPendingReasoning(f), "failed", 1, <<>>)
    BY <1>3 DEF ResponsesHandle, ResponsesFailed, f
  <2> QED BY <2>4, <2>5
<1>4. CASE ev.kind = "done"
  <2> DEFINE f == FlushPendingReasoning(e)
             g == [f EXCEPT !.finished = TRUE]
  <2>1. FlushedTo(f, e, m, m)
    BY <1>1, FlushCloses
  <2> HIDE DEF f
  <2>2. \A n \in 1..m : f.items[n].closed = TRUE
    <3> TAKE n \in 1..m
    <3>1. /\ v.text = 0 /\ v.think = 0 /\ v.kinds[n] \in Kinds
          /\ v.kinds[n] = "tool" => n \in v.shut
      BY <1>4, OrderlyFacts DEF InPlace
    <3>2. Standing(v, n, e.items[n])
      BY DEF RespMatch, InPlace
    <3>3. e.items[n].closed = TRUE \/ e.items[n].pending = TRUE
      BY <3>1, <3>2 DEF Standing, Kinds
    <3> QED BY <2>1, <3>3 DEF FlushedTo
  <2>3. DOMAIN f.items = 1..m
    BY <2>1, SeqFacts DEF FlushedTo, Itemized
  <2>4. ResponsesHandle(e, ev) = Emit(g, "completed", 1, Output(f))
    BY <1>4, <2>2, <2>3 DEF ResponsesHandle, ResponsesDone, f
  <2>5. /\ DOMAIN g = DOMAIN f /\ g.items = f.items /\ g.refused = FALSE /\ g.finished = TRUE
    BY <1>1, <2>1 DEF FlushedTo, Itemized, RespFields
  <2> HIDE DEF g
  <2>6. Itemized(g, m)
    BY <2>1, <2>5 DEF FlushedTo, Itemized
  <2> QED BY <1>2, <2>4, <2>5, <2>6
<1> QED BY <1>3, <1>4

LEMMA ResponsesFollows ==
  ASSUME NEW v, Orderly(v), NEW ev, InPlace(v, ev), ValidEvent(ev),
         NEW e, RespMatch(v, e)
  PROVE  RespMatch(After(v, ev), ResponsesEncode(e, ev))
<1> DEFINE i == ev.index
           w == After(v, ev)
           f == ResponsesHandle(e, ev)
<1>1. /\ e.finished = FALSE /\ v.over = FALSE /\ ResponsesKnows(e, ev) /\ Orderly(w)
      /\ Itemized(e, Len(v.kinds))
  <2>1. ResponsesKnows(e, ev)
    BY ResponsesKnow
  <2>2. Orderly(w)
    BY AfterIsOrderly
  <2>3. e.finished = FALSE /\ v.over = FALSE /\ Itemized(e, Len(v.kinds))
    BY OrderlyFacts DEF RespMatch, InPlace
  <2> QED BY <2>1, <2>2, <2>3
<1>2. ResponsesEncode(e, ev) = f
  BY <1>1 DEF ResponsesEncode
<1>3. ev.kind \notin Starts \cup {"done", "error"} =>
        /\ i \in 1..Len(v.kinds) /\ ItemAt(e, i) = i
        /\ ItemFields \subseteq DOMAIN e.items[i] /\ e.items[i].index = i
  BY <1>1, ResponsesKnow DEF Itemized
<1>4. CASE ev.kind = "text_start"
  <2>1. RespMatch(Started(v, "text"), OpenItem(e, ev, "message", <<>>))
    BY <1>1, <1>4, OpenItemMatches DEF InPlace, Starts, ItemKinds, Kinds
  <2>2. w = Started(v, "text") /\ f = OpenItem(e, ev, "message", <<>>)
    BY <1>4 DEF After, ResponsesHandle
  <2> QED BY <1>2, <2>1, <2>2
<1>5. CASE ev.kind = "toolcall_start"
  <2> DEFINE name == IF ev.block.custom THEN "custom_tool_call" ELSE "function_call"
  <2>1. name \in ItemKinds("tool")
    BY DEF ItemKinds, ToolKinds
  <2> HIDE DEF name
  <2>2. RespMatch(Started(v, "tool"), OpenItem(e, ev, name, <<ev.id, ev.block.name>>))
    BY <1>1, <1>5, <2>1, OpenItemMatches DEF InPlace, Starts, Kinds
  <2>3. w = Started(v, "tool") /\ f = OpenItem(e, ev, name, <<ev.id, ev.block.name>>)
    BY <1>5 DEF After, ResponsesHandle, StartToolCall, name
  <2> QED BY <1>2, <2>2, <2>3
<1>6. CASE ev.kind = "thinking_start"
  <2> DEFINE opened == OpenItem(e, ev, "reasoning", <<>>)
             n == Len(opened.items)
             x == [opened.items[n] EXCEPT !.sealed = ev.block.sig]
  <2>1. w = Started(v, "thinking") /\ f = WithItem(opened, n, x)
    BY <1>6 DEF After, ResponsesHandle, StartReasoning, WithItem
  <2>2. RespMatch(w, opened)
    BY <1>1, <1>6, <2>1, OpenItemMatches DEF InPlace, Starts, ItemKinds, Kinds
  <2>3. Itemized(opened, Len(w.kinds)) /\ w.over = FALSE /\ Len(w.kinds) = Len(v.kinds) + 1
    BY <1>1, <2>1, <2>2, StartedIs DEF RespMatch, Kinds
  <2> HIDE DEF opened, w
  <2>4. n \in 1..Len(w.kinds) /\ Len(v.kinds) \in Nat
    BY <2>3, OrderlyFacts DEF Itemized
  <2>5. ItemFields \subseteq DOMAIN opened.items[n] /\ opened.items[n].index = n
    BY <2>3, <2>4 DEF Itemized
  <2>6. /\ ItemFields \subseteq DOMAIN x /\ x.index = n /\ x.kind = opened.items[n].kind
        /\ x.closed = opened.items[n].closed /\ x.pending = opened.items[n].pending
    BY <2>5 DEF ItemFields
  <2> HIDE DEF x, n
  <2>7. RespMatch(w, WithItem(opened, n, x))
    BY <1>1, <2>2, <2>3, <2>4, <2>6, ItemGrows
  <2> QED BY <1>2, <2>1, <2>7 DEF w
<1>7. CASE ev.kind \in {"text_delta", "thinking_delta", "thinking_signature", "toolcall_delta"}
  <2>1. /\ w.kinds = v.kinds /\ w.text = v.text /\ w.think = v.think /\ w.shut = v.shut
        /\ w.over = v.over
    BY <1>7, AfterIs DEF EventKinds, Starts
  <2>2. i \in 1..Len(v.kinds) /\ ItemAt(e, i) = i
        /\ ItemFields \subseteq DOMAIN e.items[i] /\ e.items[i].index = i
    BY <1>3, <1>7 DEF Starts
  <2>3. "items" \in DOMAIN e /\ i \in DOMAIN e.items
    BY <1>1, <2>2, SeqFacts DEF Itemized, RespFields
  <2> HIDE DEF w
  <2>4. CASE ev.kind \in {"text_delta", "thinking_delta"}
    <3> DEFINE x == [e.items[i] EXCEPT !.value = @ \o ev.delta]
    <3>1. f = Emit(WithItem(e, i, x), "delta", i, ev.delta)
      BY <2>2, <2>4 DEF ResponsesHandle, ResponsesTextDelta, WithItem
    <3>2. /\ ItemFields \subseteq DOMAIN x /\ x.index = i /\ x.kind = e.items[i].kind
          /\ x.closed = e.items[i].closed /\ x.pending = e.items[i].pending
      BY <2>2 DEF ItemFields
    <3> HIDE DEF x, f
    <3>3. RespMatch(w, WithItem(e, i, x))
      BY <1>1, <2>1, <2>2, <3>2, ItemGrows
    <3>4. RespMatch(w, f)
      BY <1>1, <2>1, <3>1, <3>3, EmitMatches
    <3> QED BY <1>2, <3>4 DEF w, f
  <2>5. CASE ev.kind = "thinking_signature"
    <3> DEFINE x == [e.items[i] EXCEPT !.sealed = @ \o ev.delta]
               grown == WithItem(e, i, x)
               y == [x EXCEPT !.output.sig = x.sealed]
    <3>1. grown = [e EXCEPT !.items[i].sealed = @ \o ev.delta]
      BY DEF WithItem
    <3>2. /\ ItemFields \subseteq DOMAIN x /\ x.index = i /\ x.kind = e.items[i].kind
          /\ x.closed = e.items[i].closed /\ x.pending = e.items[i].pending
      BY <2>2 DEF ItemFields
    <3> HIDE DEF x
    <3>3. RespMatch(w, grown) /\ Itemized(grown, Len(w.kinds))
      BY <1>1, <2>1, <2>2, <3>2, ItemGrows
    <3>4. grown.items[i] = x
      <4>1. Len(v.kinds) \in Nat
        BY OrderlyFacts
      <4> QED BY <1>1, <2>2, <3>2, <4>1, ItemChanges
    <3>5. /\ ItemFields \subseteq DOMAIN y /\ y.index = i /\ y.kind = x.kind
          /\ y.closed = x.closed /\ y.pending = x.pending
      BY <3>2 DEF ItemFields
    <3>6. f = IF e.items[i].closed THEN WithItem(grown, i, y) ELSE grown
      <4>1. f = IF e.items[i].closed THEN [grown EXCEPT !.items[i].output.sig = grown.items[i].sealed]
                ELSE grown
        BY <2>2, <2>5, <3>1 DEF ResponsesHandle, ReasoningSignature
      <4> HIDE DEF grown
      <4>2. [grown EXCEPT !.items[i].output.sig = grown.items[i].sealed] = WithItem(grown, i, y)
        BY <3>4 DEF WithItem
      <4> QED BY <4>1, <4>2
    <3> HIDE DEF y, grown, f
    <3>7. RespMatch(w, WithItem(grown, i, y))
      BY <1>1, <2>1, <2>2, <3>2, <3>3, <3>4, <3>5, ItemGrows
    <3> QED BY <1>2, <3>3, <3>6, <3>7 DEF w, f
  <2>6. CASE ev.kind = "toolcall_delta"
    <3>1. f = Emit(e, "delta", i, ev.delta)
      BY <2>6 DEF ResponsesHandle
    <3>2. RespMatch(w, e)
      <4>1. \A n \in 1..Len(v.kinds) : Standing(v, n, e.items[n]) => Standing(w, n, e.items[n])
        BY <2>1 DEF Standing
      <4> QED BY <2>1, <4>1 DEF RespMatch
    <3> HIDE DEF f
    <3>3. RespMatch(w, f)
      BY <1>1, <2>1, <3>1, <3>2, EmitMatches
    <3> QED BY <1>2, <3>3 DEF w, f
  <2> QED BY <1>7, <2>4, <2>5, <2>6
<1>8. CASE ev.kind = "thinking_end"
  <2>1. /\ w.kinds = v.kinds /\ w.text = v.text /\ w.think = 0 /\ w.shut = v.shut
        /\ w.over = v.over
    BY <1>8, AfterIs DEF EventKinds, Starts
  <2>2. v.think # 0 /\ ev.index = v.think
    BY <1>8 DEF InPlace
  <2>3. f = EndReasoning(e, ev)
    BY <1>8 DEF ResponsesHandle
  <2> HIDE DEF w, f
  <2>4. RespMatch(w, EndReasoning(e, ev))
    BY <1>1, <1>3, <1>8, <2>1, <2>2, EndReasoningMatches DEF Starts
  <2> QED BY <1>2, <2>3, <2>4 DEF w, f
<1>9. CASE ev.kind \in {"text_end", "toolcall_end"}
  <2> DEFINE outText == [kind |-> "message", name |-> <<>>, sig |-> <<>>,
                         body |-> IF ev.block.body = <<>> THEN e.items[i].value ELSE ev.block.body]
             outTool == [kind |-> e.items[i].kind, sig |-> <<>>,
                         name |-> <<ev.block.id, ev.block.name>>, body |-> ev.block.args]
             output == IF ev.kind = "text_end" THEN outText ELSE outTool
  <2>1. /\ w.kinds = v.kinds /\ w.think = v.think /\ w.over = v.over
        /\ w.text = IF ev.kind = "text_end" THEN 0 ELSE v.text
        /\ w.shut = IF ev.kind = "toolcall_end" THEN v.shut \cup {i} ELSE v.shut
    BY <1>9, AfterIs DEF EventKinds, Starts
  <2>2. i \in 1..Len(v.kinds) /\ ItemAt(e, i) = i
    BY <1>3, <1>9 DEF Starts
  <2>3. \/ ev.kind = "text_end" /\ v.kinds[i] = "text" /\ i = v.text
        \/ ev.kind = "toolcall_end" /\ v.kinds[i] = "tool"
    BY <1>9, <2>2 DEF InPlace, Orderly
  <2>4. f = CloseItem(e, i, output)
    BY <1>9, <2>2 DEF ResponsesHandle, ResponsesEndText, EndToolCall
  <2> HIDE DEF w, f, output
  <2>5. RespMatch(w, CloseItem(e, i, output))
    BY <1>1, <2>1, <2>2, <2>3, CloseMatches
  <2> QED BY <1>2, <2>4, <2>5 DEF w, f
<1>10. CASE ev.kind \in {"done", "error"}
  <2>1. w.over = TRUE
    BY <1>10, AfterIs DEF EventKinds, Starts
  <2> HIDE DEF w
  <2>2. RespMatch(w, f)
    BY <1>10, <2>1, ResponsesFinishMatches
  <2> QED BY <1>2, <2>2 DEF w
<1> QED BY <1>4, <1>5, <1>6, <1>7, <1>8, <1>9, <1>10 DEF InPlace, EventKinds, Starts

-----------------------------------------------------------------------------
(* The Chat encoder follows the contract: it knows the blocks that are     *)
(* open, and every call.                                                   *)

ChatFields == {"texts", "thoughts", "calls", "finished", "refused", "wire"}

CallKnown(e, i) == \E k \in 1..Len(e.calls) : e.calls[k].index = i

ChatMatch(v, e) ==
  /\ ChatFields \subseteq DOMAIN e
  /\ e.refused = FALSE /\ e.finished = v.over
  /\ IsSeq(e.calls)
  /\ ~v.over =>
       /\ e.texts = {v.text} \ {0} /\ e.thoughts = {v.think} \ {0}
       /\ \A i \in 1..Len(v.kinds) : v.kinds[i] = "tool" => CallKnown(e, i)

LEMMA ChunkMatches ==
  ASSUME NEW v, NEW e, ChatMatch(v, e), NEW name, NEW index, NEW payload
  PROVE  ChatMatch(v, Chunk(e, name, index, payload))
<1> DEFINE f == Chunk(e, name, index, payload)
<1>1. /\ DOMAIN f = DOMAIN e /\ f.refused = e.refused /\ f.finished = e.finished
      /\ f.texts = e.texts /\ f.thoughts = e.thoughts /\ f.calls = e.calls
  BY DEF Chunk, Emit, ChatMatch, ChatFields
<1> HIDE DEF f
<1>2. ChatMatch(v, f)
  BY <1>1 DEF ChatMatch, CallKnown
<1> QED BY <1>2 DEF f

LEMMA ChatKnow ==
  ASSUME NEW v, Orderly(v), NEW ev, InPlace(v, ev), NEW e, ChatMatch(v, e)
  PROVE  ChatKnows(e, ev)
<1>1. CASE ev.kind \in {"text_delta", "text_end"}
  BY <1>1, OrderlyFacts DEF ChatKnows, ChatMatch, InPlace
<1>2. CASE ev.kind \in {"thinking_delta", "thinking_end"}
  BY <1>2, OrderlyFacts DEF ChatKnows, ChatMatch, InPlace
<1>3. CASE ev.kind \in {"toolcall_delta", "toolcall_end"}
  <2>1. ev.index \in 1..Len(v.kinds) /\ v.kinds[ev.index] = "tool" /\ ~v.over
    BY <1>3 DEF InPlace
  <2>2. CallKnown(e, ev.index)
    BY <2>1 DEF ChatMatch
  <2>3. DOMAIN e.calls = 1..Len(e.calls) /\ Len(e.calls) \in Nat
    BY SeqFacts DEF ChatMatch
  <2>4. \E k \in DOMAIN e.calls : e.calls[k].index = ev.index
    BY <2>2, <2>3 DEF CallKnown
  <2>5. CASE ev.kind = "toolcall_end"
    BY <2>4, <2>5 DEF ChatKnows
  <2>6. CASE ev.kind = "toolcall_delta"
    <3> DEFINE byId == {k \in DOMAIN e.calls : ev.id # <<>> /\ e.calls[k].id = ev.id}
               byIndex == {k \in DOMAIN e.calls : e.calls[k].index = ev.index}
    <3>1. /\ byId \subseteq Nat /\ byIndex \subseteq Nat /\ 0 \notin byId /\ 0 \notin byIndex
          /\ byIndex # {} /\ \A k \in byIndex : k <= Len(e.calls)
      BY <2>3, <2>4
    <3>2. ChatTool(e, ev) = IF byId # {} THEN Min(byId)
                            ELSE IF byIndex # {} THEN Max(byIndex) ELSE 0
      BY DEF ChatTool
    <3> HIDE DEF byId, byIndex
    <3>3. byId # {} => Min(byId) \in byId
      BY <3>1, MinOfNaturals
    <3>4. Max(byIndex) \in byIndex
      BY <2>3, <3>1, MaxOfNaturals
    <3>5. ChatTool(e, ev) # 0
      BY <3>1, <3>2, <3>3, <3>4
    <3> QED BY <2>6, <3>5 DEF ChatKnows
  <2> QED BY <1>3, <2>5, <2>6
<1> QED BY <1>1, <1>2, <1>3 DEF ChatKnows

LEMMA StartChatCallMatches ==
  ASSUME NEW v, Orderly(v), NEW ev, ev.index = Len(v.kinds) + 1, NEW e, ChatMatch(v, e), ~v.over
  PROVE  ChatMatch(Started(v, "tool"), StartChatCall(e, ev))
<1> DEFINE w == Started(v, "tool")
           x == [id |-> ev.id, index |-> ev.index]
           calls == Append(e.calls, x)
           f == [e EXCEPT !.calls = calls]
           n == Len(e.calls)
<1>1. n \in Nat /\ Len(v.kinds) \in Nat
  BY SeqFacts, OrderlyFacts DEF ChatMatch
<1>2. x.index = Len(v.kinds) + 1
  OBVIOUS
<1> HIDE DEF x
<1>3. /\ IsSeq(calls) /\ Len(calls) = n + 1 /\ calls[n + 1] = x
      /\ \A k \in 1..n : calls[k] = e.calls[k]
  BY SeqAppend DEF ChatMatch
<1> HIDE DEF calls
<1>4. /\ DOMAIN f = DOMAIN e /\ f.refused = e.refused /\ f.finished = e.finished
      /\ f.texts = e.texts /\ f.thoughts = e.thoughts /\ f.calls = calls
  BY DEF ChatMatch, ChatFields
<1>5. /\ Len(w.kinds) = Len(v.kinds) + 1 /\ w.text = v.text /\ w.think = v.think
      /\ w.over = v.over /\ \A i \in 1..Len(v.kinds) : w.kinds[i] = v.kinds[i]
  BY StartedIs DEF Kinds
<1> HIDE DEF f, w
<1>6. \A i \in 1..Len(w.kinds) : w.kinds[i] = "tool" => CallKnown(f, i)
  <2> TAKE i \in 1..Len(w.kinds)
  <2> HAVE w.kinds[i] = "tool"
  <2>1. CASE i = Len(v.kinds) + 1
    <3>1. n + 1 \in 1..Len(f.calls) /\ f.calls[n + 1].index = i
      BY <1>1, <1>2, <1>3, <1>4, <2>1
    <3> QED BY <3>1 DEF CallKnown
  <2>2. CASE i # Len(v.kinds) + 1
    <3>1. i \in 1..Len(v.kinds) /\ v.kinds[i] = "tool"
      BY <1>1, <1>5, <2>2
    <3>2. PICK k \in 1..n : e.calls[k].index = i
      BY <3>1 DEF ChatMatch, CallKnown
    <3>3. k \in 1..Len(f.calls) /\ f.calls[k].index = i
      BY <1>1, <1>3, <1>4, <3>2
    <3> QED BY <3>3 DEF CallKnown
  <2> QED BY <2>1, <2>2
<1>7. ChatMatch(w, f)
  BY <1>3, <1>4, <1>5, <1>6 DEF ChatMatch
<1>8. ChatMatch(w, Chunk(f, "call", Len(e.calls) + 1, <<ev.id, ev.block.name>>))
  BY <1>7, ChunkMatches
<1>9. StartChatCall(e, ev) = Chunk(f, "call", Len(e.calls) + 1, <<ev.id, ev.block.name>>)
  BY DEF StartChatCall, f, calls, x
<1> QED BY <1>8, <1>9 DEF w

(* The sets of open blocks with others in their place.                     *)
LEMMA OpenSetsMatch ==
  ASSUME NEW v, Orderly(v), NEW w, NEW e, ChatMatch(v, e), ~v.over, w.over = v.over,
         NEW f, DOMAIN f = DOMAIN e, f.refused = e.refused, f.finished = e.finished,
         f.calls = e.calls, f.texts = {w.text} \ {0}, f.thoughts = {w.think} \ {0},
         \A i \in 1..Len(w.kinds) :
           w.kinds[i] = "tool" => i \in 1..Len(v.kinds) /\ v.kinds[i] = "tool"
  PROVE  ChatMatch(w, f)
<1>1. \A i \in 1..Len(w.kinds) : w.kinds[i] = "tool" => CallKnown(f, i)
  BY DEF ChatMatch, CallKnown
<1> QED BY <1>1 DEF ChatMatch

LEMMA ChatFollows ==
  ASSUME NEW v, Orderly(v), NEW ev, InPlace(v, ev), ValidEvent(ev),
         NEW e, ChatMatch(v, e)
  PROVE  ChatMatch(After(v, ev), ChatEncode(e, ev))
<1> DEFINE i == ev.index
           w == After(v, ev)
           f == ChatHandle(e, ev)
<1>1. /\ v.over = FALSE /\ e.finished = FALSE /\ Len(v.kinds) \in Nat
      /\ v.text \in 0..Len(v.kinds) /\ v.think \in 0..Len(v.kinds)
      /\ e.texts = {v.text} \ {0} /\ e.thoughts = {v.think} \ {0}
      /\ ChatFields \subseteq DOMAIN e
  BY OrderlyFacts DEF ChatMatch, InPlace
<1>2. ChatEncode(e, ev) = f
  BY <1>1, ChatKnow DEF ChatEncode
<1>3. CASE ev.kind \in {"text_start", "thinking_start"}
  <2> DEFINE kind == IF ev.kind = "text_start" THEN "text" ELSE "thinking"
  <2>1. w = Started(v, kind) /\ kind \in Kinds /\ kind # "tool"
    BY <1>3 DEF After, Kinds
  <2>2. /\ Len(w.kinds) = Len(v.kinds) + 1 /\ w.kinds[Len(v.kinds) + 1] = kind
        /\ w.text = IF kind = "text" THEN Len(v.kinds) + 1 ELSE v.text
        /\ w.think = IF kind = "thinking" THEN Len(v.kinds) + 1 ELSE v.think
        /\ w.over = v.over /\ \A n \in 1..Len(v.kinds) : w.kinds[n] = v.kinds[n]
    BY <2>1, StartedIs
  <2>3. /\ DOMAIN f = DOMAIN e /\ f.refused = e.refused /\ f.finished = e.finished
        /\ f.calls = e.calls
        /\ f.texts = IF ev.kind = "text_start" THEN e.texts \cup {i} ELSE e.texts
        /\ f.thoughts = IF ev.kind = "text_start" THEN e.thoughts ELSE e.thoughts \cup {i}
    BY <1>1, <1>3 DEF ChatHandle, ChatFields
  <2>4. /\ i = Len(v.kinds) + 1
        /\ ev.kind = "text_start" => v.text = 0
        /\ ev.kind = "thinking_start" => v.think = 0
    BY <1>3 DEF InPlace, Starts
  <2>k. /\ ev.kind = "text_start" => kind = "text"
        /\ ev.kind = "thinking_start" => kind = "thinking"
    OBVIOUS
  <2> HIDE DEF f, w, kind
  <2>5. f.texts = {w.text} \ {0} /\ f.thoughts = {w.think} \ {0}
    <3>0. i # 0 /\ {0} \ {0} = {} /\ {i} \ {0} = {i} /\ {} \cup {i} = {i}
      BY <1>1, <2>4
    <3>1. CASE ev.kind = "text_start"
      <4>1. v.text = 0 /\ w.text = i /\ w.think = v.think
        BY <2>2, <2>4, <2>k, <3>1
      <4>2. f.texts = e.texts \cup {i} /\ f.thoughts = e.thoughts
        BY <2>3, <3>1
      <4> QED BY <1>1, <3>0, <4>1, <4>2
    <3>2. CASE ev.kind = "thinking_start"
      <4>1. v.think = 0 /\ w.think = i /\ w.text = v.text
        BY <2>2, <2>4, <2>k, <3>2
      <4>2. f.thoughts = e.thoughts \cup {i} /\ f.texts = e.texts
        BY <2>3, <3>2
      <4> QED BY <1>1, <3>0, <4>1, <4>2
    <3> QED BY <1>3, <3>1, <3>2
  <2>6. ChatMatch(w, f)
    <3>1. \A n \in 1..Len(w.kinds) :
            w.kinds[n] = "tool" => n \in 1..Len(v.kinds) /\ v.kinds[n] = "tool"
      BY <1>1, <2>1, <2>2
    <3>2. w.over = v.over /\ ~v.over
      BY <1>1, <2>2
    <3> QED BY <2>3, <2>5, <3>1, <3>2, OpenSetsMatch
  <2> QED BY <1>2, <2>6 DEF w
<1>4. CASE ev.kind = "toolcall_start"
  <2>1. w = Started(v, "tool") /\ f = StartChatCall(e, ev)
    BY <1>4 DEF After, ChatHandle
  <2>2. ChatMatch(Started(v, "tool"), StartChatCall(e, ev))
    BY <1>1, <1>4, StartChatCallMatches DEF InPlace, Starts
  <2> QED BY <1>2, <2>1, <2>2
<1>5. CASE ev.kind \in {"text_end", "thinking_end", "thinking_signature", "toolcall_end"}
  <2>1. /\ w.kinds = v.kinds /\ w.over = v.over
        /\ w.text = IF ev.kind = "text_end" THEN 0 ELSE v.text
        /\ w.think = IF ev.kind = "thinking_end" THEN 0 ELSE v.think
    BY <1>5, AfterIs DEF EventKinds, Starts
  <2>2. /\ DOMAIN f = DOMAIN e /\ f.refused = e.refused /\ f.finished = e.finished
        /\ f.calls = e.calls
        /\ f.texts = IF ev.kind = "text_end" THEN e.texts \ {i} ELSE e.texts
        /\ f.thoughts = IF ev.kind = "thinking_end" THEN e.thoughts \ {i} ELSE e.thoughts
    BY <1>1, <1>5 DEF ChatHandle, ChatFields
  <2>3. /\ ev.kind = "text_end" => i = v.text
        /\ ev.kind = "thinking_end" => i = v.think
    BY DEF InPlace
  <2> HIDE DEF f, w
  <2>4. f.texts = {w.text} \ {0} /\ f.thoughts = {w.think} \ {0}
    BY <1>1, <2>1, <2>2, <2>3
  <2>5. ChatMatch(w, f)
    BY SMTT(30), <1>1, <2>1, <2>2, <2>4, OpenSetsMatch
  <2> QED BY <1>2, <2>5 DEF w
<1>6. CASE ev.kind \in {"text_delta", "thinking_delta", "toolcall_delta"}
  <2>1. /\ w.kinds = v.kinds /\ w.over = v.over /\ w.text = v.text /\ w.think = v.think
    BY <1>6, AfterIs DEF EventKinds, Starts
  <2> HIDE DEF w
  <2>2. ChatMatch(w, e)
    BY <2>1 DEF ChatMatch
  <2>3. \/ f = Chunk(e, "content", 1, ev.delta)
        \/ f = Chunk(e, "reasoning", 1, ev.delta)
        \/ f = Chunk(e, "arguments", ChatTool(e, ev), ev.delta)
    BY <1>6 DEF ChatHandle
  <2> HIDE DEF f
  <2>4. ChatMatch(w, f)
    BY <2>2, <2>3, ChunkMatches
  <2> QED BY <1>2, <2>4 DEF w
<1>7. CASE ev.kind \in {"done", "error"}
  <2> DEFINE g == [e EXCEPT !.finished = TRUE]
  <2>1. w.over = TRUE
    BY <1>7, AfterIs DEF EventKinds, Starts
  <2>2. /\ DOMAIN g = DOMAIN e /\ g.refused = e.refused /\ g.finished = TRUE
        /\ g.calls = e.calls
    BY <1>1 DEF ChatFields
  <2>3. f = Chunk(g, ev.kind, 1, <<>>)
    BY <1>7 DEF ChatHandle, ChatFinish
  <2> HIDE DEF f, w, g
  <2>4. ChatMatch(w, g)
    BY <2>1, <2>2 DEF ChatMatch
  <2>5. ChatMatch(w, f)
    BY <2>3, <2>4, ChunkMatches
  <2> QED BY <1>2, <2>5 DEF w
<1> QED BY <1>3, <1>4, <1>5, <1>6, <1>7 DEF InPlace, EventKinds, Starts


-----------------------------------------------------------------------------
(* The client of the Messages stream reads what the encoder writes: the    *)
(* text it has of each block is the text told, and until the answer is     *)
(* over it refuses no frame.                                               *)

ClientFields == {"state", "blocks", "closed"}
ShownFields == {"index", "kind", "name", "body", "sig"}

ClientOK(c) ==
  /\ ClientFields \subseteq DOMAIN c
  /\ IsSeq(c.blocks) /\ IsSeq(c.closed)
  /\ \A b \in 1..Len(c.blocks) : ShownFields \subseteq DOMAIN c.blocks[b]

HasShown(c, i) == \E b \in 1..Len(c.blocks) : c.blocks[b].index = i

(* Every text block told is there, with the text told of it.               *)
TextIntact(v, c) ==
  \A i \in 1..Len(v.kinds) : v.kinds[i] = "text" =>
    /\ HasShown(c, i)
    /\ \A b \in 1..Len(c.blocks) : c.blocks[b].index = i => c.blocks[b].body = v.told[i]

(* What reading a frame does to a client: a block more, another one in     *)
(* place of a block, or an index more among the closed.                    *)
Grows(k, c, x) ==
  /\ ClientOK(k) /\ k.state = c.state /\ k.closed = c.closed
  /\ Len(k.blocks) = Len(c.blocks) + 1 /\ k.blocks[Len(c.blocks) + 1] = x
  /\ \A b \in 1..Len(c.blocks) : k.blocks[b] = c.blocks[b]

Redraws(k, c, b, x) ==
  /\ ClientOK(k) /\ k.state = c.state /\ k.closed = c.closed
  /\ Replaced(k.blocks, c.blocks, b, x)

Closes(k, c, i) ==
  /\ ClientOK(k) /\ k.state = c.state /\ k.blocks = c.blocks
  /\ Len(k.closed) = Len(c.closed) + 1 /\ k.closed[Len(c.closed) + 1] = i
  /\ \A n \in 1..Len(c.closed) : k.closed[n] = c.closed[n]

(* The client with another block in place b.                               *)
Redrawn(c, b, x) == [c EXCEPT !.blocks = [c.blocks EXCEPT ![b] = x]]

LEMMA ClientFacts ==
  ASSUME NEW c, ClientOK(c)
  PROVE  /\ Len(c.blocks) \in Nat /\ DOMAIN c.blocks = 1..Len(c.blocks)
         /\ Len(c.closed) \in Nat
         /\ \A i : ClientHas(c, i) <=> HasShown(c, i)
         /\ \A i : HasShown(c, i) => /\ ClientAt(c, i) \in 1..Len(c.blocks)
                                     /\ c.blocks[ClientAt(c, i)].index = i
<1>1. /\ Len(c.blocks) \in Nat /\ DOMAIN c.blocks = 1..Len(c.blocks)
      /\ Len(c.closed) \in Nat
  BY SeqFacts DEF ClientOK
<1>2. \A i : ClientHas(c, i) <=> HasShown(c, i)
  BY <1>1 DEF ClientHas, HasShown
<1>3. ASSUME NEW i, HasShown(c, i)
      PROVE  ClientAt(c, i) \in 1..Len(c.blocks) /\ c.blocks[ClientAt(c, i)].index = i
  <2>1. \E b \in DOMAIN c.blocks : c.blocks[b].index = i
    BY <1>1, <1>3 DEF HasShown
  <2>2. ClientAt(c, i) \in DOMAIN c.blocks /\ c.blocks[ClientAt(c, i)].index = i
    BY <2>1, Zenon DEF ClientAt
  <2> QED BY <1>1, <2>2
<1> QED BY <1>1, <1>2, <1>3

LEMMA RedrawnIs ==
  ASSUME NEW c, ClientOK(c), NEW b \in 1..Len(c.blocks), NEW x, ShownFields \subseteq DOMAIN x
  PROVE  Redraws(Redrawn(c, b, x), c, b, x)
<1> DEFINE bs == [c.blocks EXCEPT ![b] = x]
           k == [c EXCEPT !.blocks = bs]
<1>1. IsSeq(c.blocks) /\ IsSeq(c.closed) /\ ClientFields \subseteq DOMAIN c
  BY DEF ClientOK
<1>2. Replaced(bs, c.blocks, b, x)
  BY <1>1, SeqExcept
<1> HIDE DEF bs
<1>3. /\ DOMAIN k = DOMAIN c /\ k.blocks = bs /\ k.state = c.state /\ k.closed = c.closed
  BY <1>1 DEF ClientFields
<1> HIDE DEF k
<1>4. ClientOK(k)
  <2>1. \A a \in 1..Len(bs) : ShownFields \subseteq DOMAIN bs[a]
    <3> TAKE a \in 1..Len(bs)
    <3>1. CASE a = b
      BY <1>2, <3>1 DEF Replaced
    <3>2. CASE a # b
      BY <1>2, <3>2 DEF Replaced, ClientOK
    <3> QED BY <3>1, <3>2
  <2> QED BY <1>1, <1>2, <1>3, <2>1 DEF ClientOK, Replaced
<1>5. Redraws(k, c, b, x)
  BY <1>2, <1>3, <1>4 DEF Redraws
<1> QED BY <1>5 DEF k, bs, Redrawn

LEMMA FrameIs ==
  ASSUME NEW name, NEW i, NEW kind, NEW payload
  PROVE  /\ Frame(name, i, kind, payload).name = name /\ Frame(name, i, kind, payload).index = i
         /\ Frame(name, i, kind, payload).kind = kind
         /\ Frame(name, i, kind, payload).payload = payload
BY DEF Frame

(* A frame that is refused changes the state only.                         *)
LEMMA BrokenIs ==
  ASSUME NEW c, ClientOK(c)
  PROVE  /\ ClientOK(Broken(c)) /\ Broken(c).blocks = c.blocks /\ Broken(c).closed = c.closed
         /\ \A state : /\ ClientOK([c EXCEPT !.state = state])
                       /\ [c EXCEPT !.state = state].blocks = c.blocks
                       /\ [c EXCEPT !.state = state].closed = c.closed
                       /\ [c EXCEPT !.state = state].state = state
<1>1. \A state : LET k == [c EXCEPT !.state = state]
                 IN  /\ DOMAIN k = DOMAIN c /\ k.blocks = c.blocks /\ k.closed = c.closed
                     /\ k.state = state
  BY DEF ClientOK, ClientFields
<1>2. \A state : LET k == [c EXCEPT !.state = state]
                 IN  ClientOK(k) /\ k.blocks = c.blocks /\ k.closed = c.closed /\ k.state = state
  BY <1>1 DEF ClientOK
<1> QED BY <1>2 DEF Broken

NewShown(f) ==
  [index |-> f.index, kind |-> f.kind, name |-> IF f.kind = "tool" THEN f.payload ELSE <<>>,
   body |-> <<>>, sig |-> IF f.kind = "redacted" THEN f.payload ELSE <<>>]

LEMMA NewShownIs ==
  ASSUME NEW f
  PROVE  /\ NewShown(f).index = f.index /\ NewShown(f).kind = f.kind /\ NewShown(f).body = <<>>
         /\ ShownFields \subseteq DOMAIN NewShown(f)
<1> DEFINE a == IF f.kind = "tool" THEN f.payload ELSE <<>>
           b == IF f.kind = "redacted" THEN f.payload ELSE <<>>
           nothing == <<>>
           x == NewShown(f)
<1>1. x = [index |-> f.index, kind |-> f.kind, name |-> a, body |-> nothing, sig |-> b]
  BY DEF NewShown
<1> HIDE DEF a, b, nothing, x
<1>2. x.index = f.index /\ x.kind = f.kind /\ x.body = nothing /\ ShownFields \subseteq DOMAIN x
  BY <1>1 DEF ShownFields
<1> QED BY <1>2 DEF x, nothing

LEMMA StartGrows ==
  ASSUME NEW c, ClientOK(c), NEW f, f.name = "start"
  PROVE  \/ /\ Grows(MessagesRead(c, f), c, NewShown(f))
            /\ c.state = "reading" /\ ~HasShown(c, f.index)
         \/ /\ MessagesRead(c, f) = Broken(c)
            /\ ~(c.state = "reading" /\ ~HasShown(c, f.index))
<1> DEFINE x == NewShown(f)
           bs == Append(c.blocks, x)
           k == [c EXCEPT !.blocks = bs]
<1>1. MessagesRead(c, f) = IF c.state # "reading" \/ HasShown(c, f.index) THEN Broken(c) ELSE k
  BY ClientFacts DEF MessagesRead, ReadStart, NewShown
<1>2. ShownFields \subseteq DOMAIN x
  BY NewShownIs
<1>3. IsSeq(c.blocks) /\ IsSeq(c.closed) /\ ClientFields \subseteq DOMAIN c /\ Len(c.blocks) \in Nat
  BY ClientFacts DEF ClientOK
<1> HIDE DEF x
<1>4. /\ IsSeq(bs) /\ Len(bs) = Len(c.blocks) + 1 /\ bs[Len(c.blocks) + 1] = x
      /\ \A b \in 1..Len(c.blocks) : bs[b] = c.blocks[b]
  BY <1>3, SeqAppend
<1> HIDE DEF bs
<1>5. DOMAIN k = DOMAIN c /\ k.blocks = bs /\ k.state = c.state /\ k.closed = c.closed
  BY <1>3 DEF ClientFields
<1> HIDE DEF k
<1>6. ClientOK(k)
  <2>1. \A b \in 1..Len(bs) : ShownFields \subseteq DOMAIN bs[b]
    <3> TAKE b \in 1..Len(bs)
    <3>1. b \in 1..Len(c.blocks) \/ b = Len(c.blocks) + 1
      BY <1>3, <1>4
    <3> QED BY <1>2, <1>4, <3>1 DEF ClientOK
  <2> QED BY <1>3, <1>4, <1>5, <2>1 DEF ClientOK
<1>7. Grows(k, c, x)
  BY <1>4, <1>5, <1>6 DEF Grows
<1> QED BY <1>1, <1>7 DEF x

(* A frame of a block that is open.                                        *)
Reachable(c, i) == HasShown(c, i) /\ ~Contains(c.closed, i)

LEMMA OpenIs ==
  ASSUME NEW c, ClientOK(c), NEW i
  PROVE  IsOpen(c, i) <=> Reachable(c, i)
BY ClientFacts DEF IsOpen, Reachable

Lengthens(k, c, b, f) ==
  \E x : /\ Redraws(k, c, b, x) /\ x.index = f.index /\ x.kind = f.kind
         /\ x.body = c.blocks[b].body \o f.payload

LEMMA DeltaRedraws ==
  ASSUME NEW c, ClientOK(c), NEW f, f.name = "delta", Reachable(c, f.index),
         NEW b, b = ClientAt(c, f.index), c.blocks[b].kind = f.kind
  PROVE  Lengthens(MessagesRead(c, f), c, b, f)
<1> DEFINE more == c.blocks[b].body \o f.payload
           x == [c.blocks[b] EXCEPT !.body = more]
<1>1. b \in 1..Len(c.blocks) /\ c.blocks[b].index = f.index
  BY ClientFacts DEF Reachable
<1>2. MessagesRead(c, f) = Redrawn(c, b, x)
  <2>1. MessagesRead(c, f) = [c EXCEPT !.blocks[b].body = @ \o f.payload]
    BY OpenIs DEF MessagesRead
  <2> QED BY <2>1 DEF Redrawn
<1>3. ShownFields \subseteq DOMAIN c.blocks[b]
  BY <1>1 DEF ClientOK
<1> HIDE DEF more
<1>4. /\ ShownFields \subseteq DOMAIN x /\ x.index = f.index /\ x.kind = f.kind /\ x.body = more
  BY <1>1, <1>3 DEF ShownFields
<1> HIDE DEF x
<1>5. Redraws(Redrawn(c, b, x), c, b, x)
  BY <1>1, <1>4, RedrawnIs
<1> QED BY <1>1, <1>2, <1>4, <1>5 DEF more, Lengthens

LEMMA SigRedraws ==
  ASSUME NEW c, ClientOK(c), NEW f, f.name = "sig", NEW b, b = ClientAt(c, f.index)
  PROVE  \/ /\ Reachable(c, f.index) /\ b \in 1..Len(c.blocks) /\ c.blocks[b].index = f.index
            /\ \E x : /\ Redraws(MessagesRead(c, f), c, b, x)
                      /\ x.index = f.index /\ x.kind = c.blocks[b].kind
                      /\ x.body = c.blocks[b].body
         \/ ~Reachable(c, f.index) /\ MessagesRead(c, f) = Broken(c)
<1> DEFINE x == [c.blocks[b] EXCEPT !.sig = f.payload]
<1>1. CASE ~Reachable(c, f.index)
  BY <1>1, OpenIs DEF MessagesRead
<1>2. CASE Reachable(c, f.index)
  <2>1. b \in 1..Len(c.blocks) /\ c.blocks[b].index = f.index
    BY <1>2, ClientFacts DEF Reachable
  <2>2. MessagesRead(c, f) = Redrawn(c, b, x)
    <3>1. MessagesRead(c, f) = [c EXCEPT !.blocks[b].sig = f.payload]
      BY <1>2, OpenIs DEF MessagesRead
    <3> QED BY <3>1 DEF Redrawn
  <2>3. ShownFields \subseteq DOMAIN c.blocks[b]
    BY <2>1 DEF ClientOK
  <2>4. /\ ShownFields \subseteq DOMAIN x /\ x.index = f.index /\ x.kind = c.blocks[b].kind
        /\ x.body = c.blocks[b].body
    BY <2>1, <2>3 DEF ShownFields
  <2> HIDE DEF x
  <2>5. Redraws(Redrawn(c, b, x), c, b, x)
    BY <2>1, <2>4, RedrawnIs
  <2> QED BY <1>2, <2>1, <2>2, <2>4, <2>5
<1> QED BY <1>1, <1>2

LEMMA ClosedMore ==
  ASSUME NEW c, ClientOK(c), NEW i
  PROVE  Closes([c EXCEPT !.closed = Append(@, i)], c, i)
<1> DEFINE cs == Append(c.closed, i)
           k == [c EXCEPT !.closed = cs]
<1>1. IsSeq(c.blocks) /\ IsSeq(c.closed) /\ ClientFields \subseteq DOMAIN c
  BY DEF ClientOK
<1>2. /\ IsSeq(cs) /\ Len(cs) = Len(c.closed) + 1 /\ cs[Len(c.closed) + 1] = i
      /\ \A n \in 1..Len(c.closed) : cs[n] = c.closed[n]
  BY <1>1, SeqAppend
<1> HIDE DEF cs
<1>3. DOMAIN k = DOMAIN c /\ k.closed = cs /\ k.state = c.state /\ k.blocks = c.blocks
  BY <1>1 DEF ClientFields
<1> HIDE DEF k
<1>4. ClientOK(k)
  BY <1>1, <1>2, <1>3 DEF ClientOK
<1>5. Closes(k, c, i)
  BY <1>2, <1>3, <1>4 DEF Closes
<1> QED BY <1>5 DEF k, cs

LEMMA StopCloses ==
  ASSUME NEW c, ClientOK(c), NEW f, f.name = "stop", NEW b, b = ClientAt(c, f.index)
  PROVE  /\ ~Reachable(c, f.index) => MessagesRead(c, f) = Broken(c)
         /\ Reachable(c, f.index) /\ f.kind # "redacted" => Closes(MessagesRead(c, f), c, f.index)
         /\ Reachable(c, f.index) /\ f.kind = "redacted" =>
              /\ b \in 1..Len(c.blocks) /\ c.blocks[b].index = f.index
              /\ \E k, x : /\ Closes(k, c, f.index) /\ x.index = f.index
                           /\ Redraws(MessagesRead(c, f), k, b, x)
<1> DEFINE shut == [c EXCEPT !.closed = Append(@, f.index)]
           k == MessagesRead(c, f)
<1>1. k = ReadStop(c, f)
  BY DEF MessagesRead
<1>2. Closes(shut, c, f.index)
  BY ClosedMore
<1>3. CASE ~Reachable(c, f.index)
  <2>1. ~IsOpen(c, f.index)
    BY <1>3, OpenIs
  <2>2. k = Broken(c)
    BY <1>1, <2>1 DEF ReadStop
  <2> QED BY <1>3, <2>2
<1>4. CASE Reachable(c, f.index) /\ f.kind # "redacted"
  <2>1. IsOpen(c, f.index)
    BY <1>4, OpenIs
  <2>2. k = shut
    BY <1>1, <1>4, <2>1 DEF ReadStop
  <2> QED BY <1>2, <1>4, <2>2
<1>5. CASE Reachable(c, f.index) /\ f.kind = "redacted"
  <2> DEFINE nothing == <<>>
             x == [c.blocks[b] EXCEPT !.kind = "redacted", !.body = nothing, !.sig = f.payload]
  <2>1. IsOpen(c, f.index)
    BY <1>5, OpenIs
  <2>2. k = [shut EXCEPT !.blocks[b].kind = "redacted", !.blocks[b].body = nothing,
                         !.blocks[b].sig = f.payload]
    BY <1>1, <1>5, <2>1 DEF ReadStop
  <2>3. b \in 1..Len(c.blocks) /\ c.blocks[b].index = f.index
    BY <1>5, ClientFacts DEF Reachable
  <2>4. shut.blocks = c.blocks /\ ClientOK(shut) /\ DOMAIN c.blocks = 1..Len(c.blocks)
    BY <1>2, ClientFacts DEF Closes
  <2> HIDE DEF nothing, shut, k
  <2>5. k = Redrawn(shut, b, x)
    <3>1. "blocks" \in DOMAIN shut
      BY <2>4 DEF ClientOK, ClientFields
    <3> QED BY <2>2, <2>3, <2>4, <3>1 DEF Redrawn
  <2>6. ShownFields \subseteq DOMAIN c.blocks[b]
    BY <2>3 DEF ClientOK
  <2>7. ShownFields \subseteq DOMAIN x /\ x.index = f.index
    BY <2>3, <2>6 DEF ShownFields
  <2> HIDE DEF x
  <2>8. Redraws(Redrawn(shut, b, x), shut, b, x)
    BY <2>3, <2>4, <2>7, RedrawnIs
  <2>9. /\ Closes(shut, c, f.index) /\ x.index = f.index
        /\ Redraws(k, shut, b, x)
    BY <1>2, <2>5, <2>7, <2>8
  <2> HIDE DEF k
  <2>10. \E s, y : Closes(s, c, f.index) /\ y.index = f.index /\ Redraws(k, s, b, y)
    BY <2>9
  <2> QED BY <1>5, <2>3, <2>10 DEF k
<1> QED BY <1>3, <1>4, <1>5

(* The client after the frames in `wire`.                                  *)
Reads(c, e) == WireRead("messages", c, e.wire)[Len(e.wire)]

LEMMA ReadsNothing ==
  ASSUME NEW c, NEW e, NEW nothing, nothing = <<>>, e.wire = nothing
  PROVE  Reads(c, e) = c /\ IsSeq(e.wire)
<1>1. Len(e.wire) = 0 /\ Len(e.wire) \in Nat /\ IsSeq(e.wire)
  BY EmptyIsSeq
<1>2. IsReading(WireRead("messages", c, e.wire), "messages", c, e.wire, Len(e.wire))
  BY <1>1, ReadingSteps
<1> QED BY <1>1, <1>2 DEF IsReading, Reads

LEMMA ReadsMore ==
  ASSUME NEW c, NEW e, IsSeq(e.wire), "wire" \in DOMAIN e, NEW frame
  PROVE  /\ Reads(c, Write(e, frame)) = MessagesRead(Reads(c, e), frame)
         /\ IsSeq(Write(e, frame).wire) /\ DOMAIN Write(e, frame) = DOMAIN e
         /\ Write(e, frame).blocks = e.blocks
<1> DEFINE m == Len(e.wire)
           longer == Append(e.wire, frame)
           p == "messages"
           g == WireRead(p, c, e.wire)
           h == WireRead(p, c, longer)
<1>0. /\ DOMAIN Write(e, frame) = DOMAIN e /\ Write(e, frame).blocks = e.blocks
      /\ Write(e, frame).wire = longer
  BY DEF Write
<1>1. /\ m \in Nat /\ IsSeq(longer) /\ Len(longer) = m + 1 /\ longer[m + 1] = frame
      /\ \A k \in 1..m : longer[k] = e.wire[k]
  BY SeqAppend, SeqFacts
<1> HIDE DEF longer
<1>2. IsReading(g, p, c, e.wire, m) /\ IsReading(h, p, c, longer, m + 1)
  <2>1. Len(longer) \in Nat
    BY <1>1
  <2>2. IsReading(h, p, c, longer, Len(longer))
    BY <2>1, ReadingSteps
  <2>3. IsReading(g, p, c, e.wire, m)
    BY <1>1, ReadingSteps
  <2> HIDE DEF g, h
  <2> QED BY <1>1, <2>2, <2>3
<1> HIDE DEF g, h
<1> DEFINE T == {k \in 0..m : g[k] = h[k]}
<1>3. 0 \in T
  BY <1>1, <1>2 DEF IsReading
<1>4. \A k \in 1..m : k - 1 \in T => k \in T
  <2> TAKE k \in 1..m
  <2>1. k \in 1..(m + 1) /\ k \in 0..m
    BY <1>1
  <2>2. g[k] = Read(p, g[k - 1], e.wire[k]) /\ h[k] = Read(p, h[k - 1], longer[k])
    BY <1>2, <2>1 DEF IsReading
  <2>3. longer[k] = e.wire[k]
    BY <1>1
  <2> QED BY <2>1, <2>2, <2>3
<1> HIDE DEF T
<1>5. m \in T
  <2>1. \A k \in 0..m : k \in T
    BY <1>1, <1>3, <1>4, StepByStep
  <2> QED BY <1>1, <2>1
<1>6. h[m + 1] = Read(p, g[m], frame)
  <2>1. m + 1 \in 1..(m + 1) /\ (m + 1) - 1 = m
    BY <1>1
  <2>2. h[m + 1] = Read(p, h[(m + 1) - 1], longer[m + 1])
    BY <1>2, <2>1 DEF IsReading
  <2>3. g[m] = h[m]
    BY <1>5 DEF T
  <2> QED BY <1>1, <2>1, <2>2, <2>3
<1>7. Read(p, g[m], frame) = MessagesRead(g[m], frame)
  BY DEF Read
<1> QED BY <1>0, <1>1, <1>6, <1>7 DEF Reads, g, h, longer

(* Where a client stands while the answer goes on, with the encoder's      *)
(* blocks `bs`: every block is there but a redacted one that waits for its *)
(* data, and what is open in the view is open for the client.              *)
OpenIn(v, i) == i = v.text \/ i = v.think \/ (v.kinds[i] = "tool" /\ i \notin v.shut)
Unopened(v, bs, i) == v.kinds[i] = "thinking" /\ bs[i].unopened
ShownAs(c, i, kind) ==
  \E b \in 1..Len(c.blocks) : c.blocks[b].index = i /\ c.blocks[b].kind = kind

BlockInStep(v, bs, c, i) ==
  /\ v.kinds[i] = "thinking" /\ bs[i].unopened => bs[i].redacted
  /\ i = v.think /\ bs[i].redacted => bs[i].unopened
  /\ i = v.think /\ Unopened(v, bs, i) => ~HasShown(c, i)
  /\ ~Unopened(v, bs, i) => HasShown(c, i)
  /\ ~Unopened(v, bs, i) /\ OpenIn(v, i) => ShownAs(c, i, v.kinds[i])
  /\ OpenIn(v, i) => ~Contains(c.closed, i)

InStep(v, bs, c) ==
  /\ c.state = "reading"
  /\ \A b \in 1..Len(c.blocks) : c.blocks[b].index \in 1..Len(v.kinds)
  /\ \A a, b \in 1..Len(c.blocks) : c.blocks[a].index = c.blocks[b].index => a = b
  /\ \A n \in 1..Len(c.closed) : c.closed[n] \in 1..Len(v.kinds)
  /\ \A i \in 1..Len(v.kinds) : BlockInStep(v, bs, c, i)

ClientMatch(v, bs, c) ==
  ClientOK(c) /\ TextIntact(v, c) /\ (v.over = FALSE => InStep(v, bs, c))

(* A block that starts and is told.                                        *)
LEMMA ToldStart ==
  ASSUME NEW v, Orderly(v), v.over = FALSE, NEW bs, NEW c, ClientMatch(v, bs, c),
         NEW kind \in Kinds, NEW as, as.unopened = FALSE \/ kind # "thinking", as.redacted = FALSE,
         NEW bs2, bs2[Len(v.kinds) + 1] = as, \A b \in 1..Len(v.kinds) : bs2[b] = bs[b],
         NEW f, f.name = "start", f.index = Len(v.kinds) + 1, f.kind = kind
  PROVE  ClientMatch(Started(v, kind), bs2, MessagesRead(c, f))
<1> DEFINE n == Len(v.kinds)
           w == Started(v, kind)
           k == MessagesRead(c, f)
           x == NewShown(f)
<1>1. /\ n \in Nat /\ v.text \in 0..n /\ v.think \in 0..n /\ v.shut \subseteq 1..n
  BY OrderlyFacts
<1>2. /\ Len(w.kinds) = n + 1 /\ w.kinds[n + 1] = kind /\ w.told[n + 1] = <<>>
      /\ w.text = IF kind = "text" THEN n + 1 ELSE v.text
      /\ w.think = IF kind = "thinking" THEN n + 1 ELSE v.think
      /\ w.shut = v.shut /\ w.over = v.over
      /\ \A i \in 1..n : w.kinds[i] = v.kinds[i] /\ w.told[i] = v.told[i]
  BY StartedIs
<1>3. ClientOK(c) /\ TextIntact(v, c) /\ InStep(v, bs, c) /\ Len(c.blocks) \in Nat
  BY ClientFacts DEF ClientMatch
<1>4. ~HasShown(c, n + 1) /\ ~Contains(c.closed, n + 1)
  BY <1>1, <1>3 DEF InStep, HasShown, Contains
<1>5. Grows(k, c, x)
  BY <1>3, <1>4, StartGrows DEF InStep
<1>6. x.index = n + 1 /\ x.kind = kind /\ x.body = <<>>
  BY NewShownIs
<1> HIDE DEF w, k, x
<1>7. /\ ClientOK(k) /\ k.state = c.state /\ k.closed = c.closed
      /\ Len(k.blocks) = Len(c.blocks) + 1 /\ k.blocks[Len(c.blocks) + 1] = x
      /\ \A b \in 1..Len(c.blocks) : k.blocks[b] = c.blocks[b]
  BY <1>5 DEF Grows
<1>8. \A b \in 1..Len(k.blocks) : b \in 1..Len(c.blocks) \/ b = Len(c.blocks) + 1
  BY <1>3, <1>7
<1>9. /\ 1..Len(c.blocks) \subseteq 1..Len(k.blocks) /\ Len(c.blocks) + 1 \in 1..Len(k.blocks)
      /\ \A i \in 1..(n + 1) : i \in 1..n \/ i = n + 1
      /\ n + 1 \notin 1..n /\ 1..n \subseteq 1..(n + 1) /\ n + 1 \in 1..(n + 1)
  BY <1>1, <1>3, <1>7
<1>10. TextIntact(w, k)
  <2> SUFFICES ASSUME NEW i \in 1..(n + 1), w.kinds[i] = "text"
               PROVE  /\ HasShown(k, i)
                      /\ \A b \in 1..Len(k.blocks) :
                           k.blocks[b].index = i => k.blocks[b].body = w.told[i]
    BY <1>2 DEF TextIntact
  <2>1. CASE i \in 1..n
    <3>1. /\ HasShown(c, i)
          /\ \A b \in 1..Len(c.blocks) : c.blocks[b].index = i => c.blocks[b].body = v.told[i]
      BY <1>2, <1>3, <2>1 DEF TextIntact
    <3>2. HasShown(k, i)
      BY <1>7, <1>9, <3>1 DEF HasShown
    <3>3. i # n + 1
      BY <1>9, <2>1
    <3> QED BY <1>2, <1>6, <1>7, <1>8, <2>1, <3>1, <3>2, <3>3, Zenon
  <2>2. CASE i = n + 1
    <3>1. HasShown(k, i)
      BY <1>6, <1>7, <1>9, <2>2 DEF HasShown
    <3>2. \A b \in 1..Len(c.blocks) : c.blocks[b].index # i
      BY <1>4, <2>2 DEF HasShown
    <3> QED BY <1>2, <1>6, <1>7, <1>8, <2>2, <3>1, <3>2, Zenon
  <2> QED BY <1>9, <2>1, <2>2
<1>11. InStep(w, bs2, k)
  <2>1. k.state = "reading"
    BY <1>3, <1>7 DEF InStep
  <2>2. \A b \in 1..Len(k.blocks) : k.blocks[b].index \in 1..Len(w.kinds)
    BY <1>2, <1>3, <1>6, <1>7, <1>8, <1>9 DEF InStep
  <2>3. \A a, b \in 1..Len(k.blocks) : k.blocks[a].index = k.blocks[b].index => a = b
    <3>1. \A b \in 1..Len(c.blocks) : k.blocks[b].index # n + 1
      BY <1>4, <1>7 DEF HasShown
    <3>2. \A a, b \in 1..Len(c.blocks) : k.blocks[a].index = k.blocks[b].index => a = b
      BY <1>3, <1>7 DEF InStep
    <3>3. k.blocks[Len(c.blocks) + 1].index = n + 1
      BY <1>6, <1>7
    <3> TAKE a, b \in 1..Len(k.blocks)
    <3>4. /\ a \in 1..Len(c.blocks) \/ a = Len(c.blocks) + 1
          /\ b \in 1..Len(c.blocks) \/ b = Len(c.blocks) + 1
      BY <1>8
    <3> QED BY <3>1, <3>2, <3>3, <3>4
  <2>4. \A m \in 1..Len(k.closed) : k.closed[m] \in 1..Len(w.kinds)
    BY <1>2, <1>3, <1>7, <1>9 DEF InStep
  <2>5. ASSUME NEW i \in 1..n PROVE BlockInStep(w, bs2, k, i)
    <3>1. BlockInStep(v, bs, c, i) /\ bs2[i] = bs[i] /\ w.kinds[i] = v.kinds[i] /\ i # n + 1
      BY <1>2, <1>3, <1>9 DEF InStep
    <3>2. i = w.text => i = v.text
      BY <1>2, <3>1
    <3>3. i = w.think => i = v.think
      BY <1>2, <3>1
    <3>4. OpenIn(w, i) => OpenIn(v, i)
      BY <1>2, <3>1, <3>2, <3>3 DEF OpenIn
    <3>5. Unopened(w, bs2, i) <=> Unopened(v, bs, i)
      BY <3>1 DEF Unopened
    <3>6. HasShown(k, i) <=> HasShown(c, i)
      BY <1>6, <1>7, <1>8, <1>9, <3>1 DEF HasShown
    <3>7. \A a : ShownAs(c, i, a) => ShownAs(k, i, a)
      BY <1>7, <1>9 DEF ShownAs
    <3> QED BY <1>7, <3>1, <3>3, <3>4, <3>5, <3>6, <3>7, Zenon DEF BlockInStep
  <2>6. BlockInStep(w, bs2, k, n + 1)
    <3>1. HasShown(k, n + 1) /\ ShownAs(k, n + 1, kind)
      BY <1>6, <1>7, <1>9 DEF HasShown, ShownAs
    <3>2. ~Unopened(w, bs2, n + 1)
      BY <1>2 DEF Unopened
    <3>3. ~(as.redacted) /\ bs2[n + 1] = as
      OBVIOUS
    <3>4. w.kinds[n + 1] = kind /\ k.closed = c.closed
      BY <1>2, <1>7
    <3>5. ~(w.kinds[n + 1] = "thinking" /\ bs2[n + 1].unopened)
      BY <3>2 DEF Unopened
    <3> QED BY <1>4, <3>1, <3>2, <3>3, <3>4, <3>5, Zenon DEF BlockInStep
  <2>7. \A i \in 1..Len(w.kinds) : BlockInStep(w, bs2, k, i)
    BY <1>2, <1>9, <2>5, <2>6
  <2> QED BY <2>1, <2>2, <2>3, <2>4, <2>7 DEF InStep
<1>12. ClientMatch(w, bs2, k)
  BY <1>7, <1>10, <1>11 DEF ClientMatch
<1> QED BY <1>12 DEF w, k

(* A redacted block that starts, and waits for its data.                   *)
LEMMA HiddenStart ==
  ASSUME NEW v, Orderly(v), v.over = FALSE, NEW bs, NEW c, ClientMatch(v, bs, c),
         NEW as, as.unopened = TRUE, as.redacted = TRUE,
         NEW bs2, bs2[Len(v.kinds) + 1] = as, \A b \in 1..Len(v.kinds) : bs2[b] = bs[b]
  PROVE  ClientMatch(Started(v, "thinking"), bs2, c)
<1> DEFINE n == Len(v.kinds)
           w == Started(v, "thinking")
<1>1. /\ n \in Nat /\ v.text \in 0..n /\ v.think \in 0..n /\ v.shut \subseteq 1..n
  BY OrderlyFacts
<1>2. /\ Len(w.kinds) = n + 1 /\ w.kinds[n + 1] = "thinking"
      /\ w.text = v.text /\ w.think = n + 1 /\ w.shut = v.shut /\ w.over = v.over
      /\ \A i \in 1..n : w.kinds[i] = v.kinds[i] /\ w.told[i] = v.told[i]
  BY StartedIs DEF Kinds
<1>3. ClientOK(c) /\ TextIntact(v, c) /\ InStep(v, bs, c) /\ Len(c.blocks) \in Nat
  BY ClientFacts DEF ClientMatch
<1>4. ~HasShown(c, n + 1) /\ ~Contains(c.closed, n + 1)
  BY <1>1, <1>3 DEF InStep, HasShown, Contains
<1> HIDE DEF w
<1>5. /\ \A i \in 1..(n + 1) : i \in 1..n \/ i = n + 1
      /\ n + 1 \notin 1..n /\ 1..n \subseteq 1..(n + 1)
  BY <1>1
<1>6. TextIntact(w, c)
  <2> SUFFICES ASSUME NEW i \in 1..(n + 1), w.kinds[i] = "text"
               PROVE  /\ HasShown(c, i)
                      /\ \A b \in 1..Len(c.blocks) :
                           c.blocks[b].index = i => c.blocks[b].body = w.told[i]
    BY <1>2 DEF TextIntact
  <2>1. i \in 1..n
    BY <1>2, <1>5
  <2> QED BY <1>2, <1>3, <2>1 DEF TextIntact
<1>7. InStep(w, bs2, c)
  <2>1. ASSUME NEW i \in 1..n PROVE BlockInStep(w, bs2, c, i)
    <3>1. BlockInStep(v, bs, c, i) /\ bs2[i] = bs[i] /\ w.kinds[i] = v.kinds[i] /\ i # n + 1
      BY <1>2, <1>3, <1>5 DEF InStep
    <3>2. OpenIn(w, i) => OpenIn(v, i)
      BY <1>2, <3>1 DEF OpenIn
    <3>3. Unopened(w, bs2, i) <=> Unopened(v, bs, i)
      BY <3>1 DEF Unopened
    <3> QED BY <1>2, <3>1, <3>2, <3>3, Zenon DEF BlockInStep
  <2>2. BlockInStep(w, bs2, c, n + 1)
    <3>1. Unopened(w, bs2, n + 1) /\ bs2[n + 1].unopened /\ bs2[n + 1].redacted
      BY <1>2, Zenon DEF Unopened
    <3> QED BY <1>4, <3>1, Zenon DEF BlockInStep
  <2>3. \A i \in 1..Len(w.kinds) : BlockInStep(w, bs2, c, i)
    BY <1>2, <1>5, <2>1, <2>2
  <2>4. /\ \A b \in 1..Len(c.blocks) : c.blocks[b].index \in 1..Len(w.kinds)
        /\ \A m \in 1..Len(c.closed) : c.closed[m] \in 1..Len(w.kinds)
    BY <1>2, <1>3, <1>5 DEF InStep
  <2> QED BY <1>3, <2>3, <2>4 DEF InStep
<1>8. ClientMatch(w, bs2, c)
  BY <1>3, <1>6, <1>7 DEF ClientMatch
<1> QED BY <1>8 DEF w

(* A view in which less is open, and blocks of the encoder that changed    *)
(* nothing a client was told.                                              *)
Narrower(w, v, bs2, bs) ==
  /\ w.kinds = v.kinds /\ w.told = v.told /\ w.over = v.over
  /\ \A i \in 1..Len(v.kinds) :
       /\ OpenIn(w, i) => OpenIn(v, i)
       /\ i = w.think => i = v.think /\ bs2[i].redacted = bs[i].redacted
       /\ v.kinds[i] = "thinking" =>
            /\ bs2[i].unopened = bs[i].unopened
            /\ bs[i].redacted => bs2[i].redacted

LEMMA LessOpen ==
  ASSUME NEW v, NEW bs, NEW c, ClientMatch(v, bs, c), v.over = FALSE,
         v.think # 0 => v.kinds[v.think] = "thinking",
         NEW w, NEW bs2, Narrower(w, v, bs2, bs)
  PROVE  ClientMatch(w, bs2, c)
<1>1. ClientOK(c) /\ TextIntact(v, c) /\ InStep(v, bs, c)
  BY DEF ClientMatch
<1>2. w.kinds = v.kinds /\ w.told = v.told /\ w.over = v.over
  BY DEF Narrower
<1>3. ASSUME NEW i \in 1..Len(v.kinds) PROVE BlockInStep(w, bs2, c, i)
  <2>1. BlockInStep(v, bs, c, i)
    BY <1>1 DEF InStep
  <2>2. /\ OpenIn(w, i) => OpenIn(v, i)
        /\ i = w.think => i = v.think /\ bs2[i].redacted = bs[i].redacted
        /\ v.kinds[i] = "thinking" =>
            /\ bs2[i].unopened = bs[i].unopened
            /\ bs[i].redacted => bs2[i].redacted
    BY DEF Narrower
  <2>3. Unopened(w, bs2, i) <=> Unopened(v, bs, i)
    BY <1>2, <2>2, Zenon DEF Unopened
  <2>4. i = v.think => v.kinds[i] = "thinking"
    OBVIOUS
  <2>5. i = w.think /\ bs2[i].redacted => bs2[i].unopened
    BY <2>1, <2>2, <2>4, Zenon DEF BlockInStep
  <2>6. w.kinds[i] = "thinking" /\ bs2[i].unopened => bs2[i].redacted
    BY <1>2, <2>1, <2>2, Zenon DEF BlockInStep
  <2> QED BY <1>2, <2>1, <2>2, <2>3, <2>5, <2>6, Zenon DEF BlockInStep
<1>4. InStep(w, bs2, c)
  BY <1>1, <1>2, <1>3 DEF InStep
<1>5. TextIntact(w, c)
  BY <1>1, <1>2 DEF TextIntact
<1> QED BY <1>1, <1>4, <1>5 DEF ClientMatch

(* A block that is not open any more is closed for the client.             *)
LEMMA ClosingMatches ==
  ASSUME NEW v, NEW bs, NEW c, ClientMatch(v, bs, c), v.over = FALSE,
         NEW i \in 1..Len(v.kinds), ~OpenIn(v, i), NEW k, Closes(k, c, i)
  PROVE  ClientMatch(v, bs, k)
<1>1. ClientOK(c) /\ TextIntact(v, c) /\ InStep(v, bs, c) /\ Len(c.closed) \in Nat
  BY ClientFacts DEF ClientMatch
<1>2. /\ ClientOK(k) /\ k.state = c.state /\ k.blocks = c.blocks
      /\ Len(k.closed) = Len(c.closed) + 1 /\ k.closed[Len(c.closed) + 1] = i
      /\ \A n \in 1..Len(c.closed) : k.closed[n] = c.closed[n]
  BY DEF Closes
<1>3. \A n \in 1..Len(k.closed) : n \in 1..Len(c.closed) \/ n = Len(c.closed) + 1
  BY <1>1, <1>2
<1>4. ASSUME NEW j \in 1..Len(v.kinds) PROVE BlockInStep(v, bs, k, j)
  <2>1. BlockInStep(v, bs, c, j)
    BY <1>1 DEF InStep
  <2>2. /\ HasShown(k, j) <=> HasShown(c, j)
        /\ \A kind : ShownAs(k, j, kind) <=> ShownAs(c, j, kind)
    BY <1>2 DEF HasShown, ShownAs
  <2>3. OpenIn(v, j) => j # i
    OBVIOUS
  <2>4. Contains(k.closed, j) => Contains(c.closed, j) \/ j = i
    BY <1>2, <1>3, Zenon DEF Contains
  <2> QED BY <2>1, <2>2, <2>3, <2>4, Zenon DEF BlockInStep
<1>5. \A n \in 1..Len(k.closed) : k.closed[n] \in 1..Len(v.kinds)
  BY <1>1, <1>2, <1>3, Zenon DEF InStep
<1>6. InStep(v, bs, k)
  BY <1>1, <1>2, <1>4, <1>5 DEF InStep
<1>7. TextIntact(v, k)
  BY SMTT(30), <1>1, <1>2 DEF TextIntact, HasShown
<1> QED BY <1>2, <1>6, <1>7 DEF ClientMatch

(* Another block in place of one of the client's.                          *)
LEMMA RedrawingMatches ==
  ASSUME NEW v, NEW bs, NEW c, ClientMatch(v, bs, c), v.over = FALSE,
         NEW w, w.kinds = v.kinds, w.text = v.text, w.think = v.think, w.shut = v.shut,
         w.over = v.over,
         NEW i \in 1..Len(v.kinds), NEW b \in 1..Len(c.blocks), c.blocks[b].index = i,
         NEW k, NEW x, Redraws(k, c, b, x), x.index = i,
         OpenIn(v, i) => x.kind = c.blocks[b].kind,
         v.kinds[i] = "text" => x.body = w.told[i],
         \A j \in 1..Len(v.kinds) : j # i => w.told[j] = v.told[j]
  PROVE  ClientMatch(w, bs, k)
<1>1. ClientOK(c) /\ TextIntact(v, c) /\ InStep(v, bs, c) /\ Len(c.blocks) \in Nat
  BY ClientFacts DEF ClientMatch
<1>2. /\ ClientOK(k) /\ k.state = c.state /\ k.closed = c.closed
      /\ Len(k.blocks) = Len(c.blocks) /\ k.blocks[b] = x
      /\ \A a \in 1..Len(c.blocks) : a # b => k.blocks[a] = c.blocks[a]
  BY DEF Redraws, Replaced
<1>3. \A a \in 1..Len(c.blocks) : k.blocks[a].index = c.blocks[a].index
  BY <1>2
<1>4. \A a \in 1..Len(c.blocks) : a # b => c.blocks[a].index # i
  BY <1>1 DEF InStep
<1>5. \A j : HasShown(k, j) <=> HasShown(c, j)
  BY <1>2, <1>3 DEF HasShown
<1>6. ASSUME NEW j \in 1..Len(v.kinds) PROVE BlockInStep(w, bs, k, j)
  <2>1. BlockInStep(v, bs, c, j)
    BY <1>1 DEF InStep
  <2>2. OpenIn(w, j) <=> OpenIn(v, j)
    BY DEF OpenIn
  <2>3. Unopened(w, bs, j) <=> Unopened(v, bs, j)
    BY DEF Unopened
  <2>4. ASSUME OpenIn(v, j), ShownAs(c, j, v.kinds[j]) PROVE ShownAs(k, j, v.kinds[j])
    <3>1. PICK a \in 1..Len(c.blocks) : c.blocks[a].index = j /\ c.blocks[a].kind = v.kinds[j]
      BY <2>4 DEF ShownAs
    <3>2. k.blocks[a].index = j /\ k.blocks[a].kind = v.kinds[j]
      BY <1>2, <1>3, <2>4, <3>1
    <3> QED BY <1>2, <3>2 DEF ShownAs
  <2> QED BY <1>2, <1>5, <2>1, <2>2, <2>3, <2>4, Zenon DEF BlockInStep
<1>7. InStep(w, bs, k)
  BY <1>1, <1>2, <1>3, <1>6 DEF InStep
<1>8. TextIntact(w, k)
  <2> SUFFICES ASSUME NEW j \in 1..Len(v.kinds), v.kinds[j] = "text"
               PROVE  /\ HasShown(k, j)
                      /\ \A a \in 1..Len(k.blocks) :
                           k.blocks[a].index = j => k.blocks[a].body = w.told[j]
    BY DEF TextIntact
  <2>1. /\ HasShown(c, j)
        /\ \A a \in 1..Len(c.blocks) : c.blocks[a].index = j => c.blocks[a].body = v.told[j]
    BY <1>1 DEF TextIntact
  <2>2. ASSUME NEW a \in 1..Len(k.blocks), k.blocks[a].index = j PROVE k.blocks[a].body = w.told[j]
    <3>1. a \in 1..Len(c.blocks) /\ c.blocks[a].index = j
      BY <1>2, <1>3, <2>2
    <3>2. CASE a = b
      BY <1>2, <3>1, <3>2
    <3>3. CASE a # b
      BY <1>2, <1>4, <2>1, <3>1, <3>3
    <3> QED BY <3>2, <3>3
  <2> QED BY <1>5, <2>1, <2>2
<1> QED BY <1>2, <1>7, <1>8 DEF ClientMatch

(* The start of a redacted block, told at its end.                         *)
LEMMA LateStart ==
  ASSUME NEW v, NEW bs, NEW c, ClientMatch(v, bs, c), v.over = FALSE,
         NEW i \in 1..Len(v.kinds), v.kinds[i] = "thinking", ~OpenIn(v, i), ~HasShown(c, i),
         NEW k, NEW x, Grows(k, c, x), x.index = i
  PROVE  ClientMatch(v, bs, k)
<1>1. ClientOK(c) /\ TextIntact(v, c) /\ InStep(v, bs, c) /\ Len(c.blocks) \in Nat
  BY ClientFacts DEF ClientMatch
<1>2. /\ ClientOK(k) /\ k.state = c.state /\ k.closed = c.closed
      /\ Len(k.blocks) = Len(c.blocks) + 1 /\ k.blocks[Len(c.blocks) + 1] = x
      /\ \A b \in 1..Len(c.blocks) : k.blocks[b] = c.blocks[b]
  BY DEF Grows
<1>3. /\ \A b \in 1..Len(k.blocks) : b \in 1..Len(c.blocks) \/ b = Len(c.blocks) + 1
      /\ 1..Len(c.blocks) \subseteq 1..Len(k.blocks) /\ Len(c.blocks) + 1 \in 1..Len(k.blocks)
  BY <1>1, <1>2
<1>4. \A b \in 1..Len(c.blocks) : c.blocks[b].index # i
  BY DEF HasShown
<1>5. \A j : HasShown(k, j) <=> HasShown(c, j) \/ j = i
  BY <1>2, <1>3 DEF HasShown
<1>6. ASSUME NEW j \in 1..Len(v.kinds) PROVE BlockInStep(v, bs, k, j)
  <2>1. BlockInStep(v, bs, c, j)
    BY <1>1 DEF InStep
  <2>2. OpenIn(v, j) => j # i
    OBVIOUS
  <2>3. j = v.think => OpenIn(v, j)
    BY DEF OpenIn
  <2>4. \A kind : ShownAs(c, j, kind) => ShownAs(k, j, kind)
    BY <1>2, <1>3 DEF ShownAs
  <2> QED BY <1>2, <1>5, <2>1, <2>2, <2>3, <2>4, Zenon DEF BlockInStep
<1>7. \A b \in 1..Len(k.blocks) : k.blocks[b].index \in 1..Len(v.kinds)
  BY <1>1, <1>2, <1>3, Zenon DEF InStep
<1>8. \A a, b \in 1..Len(k.blocks) : k.blocks[a].index = k.blocks[b].index => a = b
  <2>1. \A b \in 1..Len(c.blocks) : k.blocks[b].index # i
    BY <1>2, <1>4
  <2>2. \A a, b \in 1..Len(c.blocks) : k.blocks[a].index = k.blocks[b].index => a = b
    BY <1>1, <1>2 DEF InStep
  <2>3. k.blocks[Len(c.blocks) + 1].index = i
    BY <1>2
  <2> TAKE a, b \in 1..Len(k.blocks)
  <2>4. /\ a \in 1..Len(c.blocks) \/ a = Len(c.blocks) + 1
        /\ b \in 1..Len(c.blocks) \/ b = Len(c.blocks) + 1
    BY <1>3
  <2> QED BY <2>1, <2>2, <2>3, <2>4
<1>9. InStep(v, bs, k)
  BY <1>1, <1>2, <1>6, <1>7, <1>8 DEF InStep
<1>10. TextIntact(v, k)
  <2> SUFFICES ASSUME NEW j \in 1..Len(v.kinds), v.kinds[j] = "text"
               PROVE  /\ HasShown(k, j)
                      /\ \A a \in 1..Len(k.blocks) :
                           k.blocks[a].index = j => k.blocks[a].body = v.told[j]
    BY DEF TextIntact
  <2>1. /\ HasShown(c, j) /\ j # i
        /\ \A a \in 1..Len(c.blocks) : c.blocks[a].index = j => c.blocks[a].body = v.told[j]
    BY <1>1 DEF TextIntact
  <2> QED BY <1>2, <1>3, <1>5, <2>1, Zenon
<1> QED BY <1>2, <1>9, <1>10 DEF ClientMatch

(* What is open in the view is reachable for the client.                   *)
Faced(v, c, i) ==
  /\ Reachable(c, i) /\ ClientAt(c, i) \in 1..Len(c.blocks)
  /\ c.blocks[ClientAt(c, i)].index = i /\ c.blocks[ClientAt(c, i)].kind = v.kinds[i]
  /\ v.kinds[i] = "text" => c.blocks[ClientAt(c, i)].body = v.told[i]

LEMMA OpenIsReachable ==
  ASSUME NEW v, NEW bs, NEW c, ClientMatch(v, bs, c), v.over = FALSE,
         NEW i \in 1..Len(v.kinds), OpenIn(v, i), ~Unopened(v, bs, i)
  PROVE  Faced(v, c, i)
<1>1. ClientOK(c) /\ TextIntact(v, c) /\ InStep(v, bs, c) /\ BlockInStep(v, bs, c, i)
  BY DEF ClientMatch, InStep
<1>2. HasShown(c, i) /\ ~Contains(c.closed, i) /\ ShownAs(c, i, v.kinds[i])
  BY <1>1 DEF BlockInStep
<1>3. ClientAt(c, i) \in 1..Len(c.blocks) /\ c.blocks[ClientAt(c, i)].index = i
  BY <1>1, <1>2, ClientFacts
<1>4. PICK b \in 1..Len(c.blocks) : c.blocks[b].index = i /\ c.blocks[b].kind = v.kinds[i]
  BY <1>2 DEF ShownAs
<1>5. b = ClientAt(c, i)
  BY <1>1, <1>3, <1>4 DEF InStep
<1>6. v.kinds[i] = "text" => c.blocks[ClientAt(c, i)].body = v.told[i]
  BY <1>1, <1>3 DEF TextIntact
<1> QED BY <1>2, <1>3, <1>4, <1>5, <1>6 DEF Reachable, Faced

(* A delta of an open block. Of text, it is told in the view.              *)
LEMMA DeltaMatches ==
  ASSUME NEW v, NEW bs, NEW c, ClientMatch(v, bs, c), v.over = FALSE,
         NEW w, w.kinds = v.kinds, w.text = v.text, w.think = v.think, w.shut = v.shut,
         w.over = v.over,
         NEW i \in 1..Len(v.kinds), OpenIn(v, i), ~Unopened(v, bs, i),
         NEW f, f.name = "delta", f.index = i, f.kind = v.kinds[i],
         v.kinds[i] = "text" => w.told[i] = v.told[i] \o f.payload,
         \A j \in 1..Len(v.kinds) : j # i => w.told[j] = v.told[j]
  PROVE  ClientMatch(w, bs, MessagesRead(c, f))
<1> DEFINE k == MessagesRead(c, f)
<1>1. Faced(v, c, i)
  BY OpenIsReachable, Zenon
<1>2. PICK b : b = ClientAt(c, i)
  OBVIOUS
<1>a. /\ Reachable(c, i) /\ b \in 1..Len(c.blocks)
      /\ c.blocks[b].index = i /\ c.blocks[b].kind = v.kinds[i]
      /\ v.kinds[i] = "text" => c.blocks[b].body = v.told[i]
  BY <1>1, <1>2 DEF Faced
<1>b. /\ ClientOK(c) /\ f.name = "delta" /\ Reachable(c, f.index)
      /\ b = ClientAt(c, f.index) /\ c.blocks[b].kind = f.kind
  BY <1>2, <1>a DEF ClientMatch
<1>3. Lengthens(MessagesRead(c, f), c, b, f)
  BY <1>b, DeltaRedraws
<1>4. PICK x : /\ Redraws(MessagesRead(c, f), c, b, x)
               /\ x.index = f.index /\ x.kind = f.kind /\ x.body = c.blocks[b].body \o f.payload
  BY <1>3 DEF Lengthens
<1> HIDE DEF k
<1>5. /\ x.index = i /\ (OpenIn(v, i) => x.kind = c.blocks[b].kind)
      /\ v.kinds[i] = "text" => x.body = w.told[i]
  BY <1>a, <1>4
<1>c. Redraws(k, c, b, x)
  BY <1>4 DEF k
<1>6. ClientMatch(w, bs, k)
  BY <1>a, <1>c, <1>5, RedrawingMatches
<1> QED BY <1>6 DEF k

(* The end of a block, or what defers it: a client that has not closed it  *)
(* yet closes it now.                                                      *)
LEMMA PlainStop ==
  ASSUME NEW v, NEW bs, NEW c, ClientMatch(v, bs, c), v.over = FALSE,
         NEW i \in 1..Len(v.kinds), ~OpenIn(v, i), Reachable(c, i),
         NEW f, f.name = "stop", f.index = i, f.kind = "plain"
  PROVE  ClientMatch(v, bs, MessagesRead(c, f))
<1>1. ClientOK(c) /\ f.kind # "redacted"
  BY DEF ClientMatch
<1>2. Closes(MessagesRead(c, f), c, i)
  BY <1>1, StopCloses
<1> QED BY <1>2, ClosingMatches

LEMMA EndBlockRead ==
  ASSUME NEW v, Orderly(v), NEW e, MsgMatch(v, e), IsSeq(e.wire), NEW c,
         ClientMatch(v, e.blocks, Reads(c, e)), v.over = FALSE,
         NEW i \in 1..Len(v.kinds), OpenIn(v, i), v.kinds[i] # "thinking",
         NEW w, Narrower(w, v, e.blocks, e.blocks), ~OpenIn(w, i)
  PROVE  ClientMatch(w, EndBlock(e, i).blocks, Reads(c, EndBlock(e, i)))
<1> DEFINE f == EndBlock(e, i)
           k == Reads(c, e)
           bs == e.blocks
<1>1. At(e, i) = i /\ IsSeq(e.blocks) /\ Len(e.blocks) = Len(v.kinds) /\ MsgFields \subseteq DOMAIN e
  BY BlockAt DEF MsgMatch
<1>2. v.think # 0 => v.kinds[v.think] = "thinking"
  BY DEF Orderly
<1>3. w.kinds = v.kinds /\ w.over = FALSE
  BY DEF Narrower
<1>4. CASE EarlierPending(e, i)
  <2> DEFINE x == [e.blocks[i] EXCEPT !.deferred = TRUE]
             bs2 == [e.blocks EXCEPT ![i] = x]
  <2>1. f = WithBlock(e, i, x)
    BY <1>1, <1>4 DEF EndBlock, WithBlock
  <2>2. f.blocks = bs2 /\ f.wire = e.wire
    BY <1>1, <2>1 DEF WithBlock, MsgFields
  <2>3. \A j \in 1..Len(v.kinds) : j # i => bs2[j] = bs[j]
    <3> HIDE DEF x
    <3> QED BY <1>1, SeqExcept DEF Replaced
  <2> HIDE DEF bs2, f, x
  <2>4. Reads(c, f) = k
    BY <2>2 DEF Reads
  <2>5. w.think # i
    BY DEF OpenIn
  <2>6. Narrower(w, v, bs2, bs)
    <3> SUFFICES ASSUME NEW j \in 1..Len(v.kinds)
                 PROVE  /\ OpenIn(w, j) => OpenIn(v, j)
                        /\ j = w.think => j = v.think /\ bs2[j].redacted = bs[j].redacted
                        /\ v.kinds[j] = "thinking" =>
                             /\ bs2[j].unopened = bs[j].unopened
                             /\ bs[j].redacted => bs2[j].redacted
      BY DEF Narrower
    <3>1. /\ OpenIn(w, j) => OpenIn(v, j)
          /\ j = w.think => j = v.think
      BY DEF Narrower
    <3>2. CASE j = i
      BY <2>5, <3>1, <3>2
    <3>3. CASE j # i
      BY <2>3, <3>1, <3>3
    <3> QED BY <3>2, <3>3
  <2> HIDE DEF bs, k
  <2>7. ClientMatch(w, bs2, k)
    <3>1. ClientMatch(v, bs, k)
      BY DEF bs, k
    <3> QED BY <1>2, <2>6, <3>1, LessOpen
  <2> QED BY <2>2, <2>4, <2>7 DEF f
<1>5. CASE ~EarlierPending(e, i)
  <2> DEFINE nothing == <<>>
             frame == Frame("stop", i, "plain", nothing)
  <2>1. f = Write(e, frame)
    BY <1>5 DEF EndBlock
  <2>2. frame.name = "stop" /\ frame.index = i /\ frame.kind = "plain"
    <3> HIDE DEF nothing
    <3> QED BY FrameIs
  <2> HIDE DEF f, frame, bs
  <2>3. Reads(c, f) = MessagesRead(k, frame) /\ f.blocks = e.blocks
    <3>1. "wire" \in DOMAIN e
      BY <1>1 DEF MsgFields
    <3> QED BY <2>1, <3>1, ReadsMore
  <2> HIDE DEF k
  <2>4. ClientMatch(v, e.blocks, k) /\ ~Unopened(v, e.blocks, i)
    BY DEF k, Unopened
  <2>5. Reachable(k, i)
    BY <2>4, OpenIsReachable DEF Faced
  <2>6. ClientMatch(w, e.blocks, k)
    BY <1>2, <2>4, LessOpen
  <2>7. ClientMatch(w, e.blocks, MessagesRead(k, frame))
    BY <1>3, <2>2, <2>5, <2>6, PlainStop
  <2> QED BY <2>3, <2>7 DEF f
<1> QED BY <1>4, <1>5


(* Once the answer is over, no frame touches the text the client has, in   *)
(* whatever state it is.                                                   *)
Intact(v, c) == ClientOK(c) /\ TextIntact(v, c)

Quiet(v, f) ==
  \/ f.name \in {"done", "error"}
  \/ f.name = "stop" /\ f.kind = "plain"
  \/ f.name \in {"start", "sig", "stop"} /\ f.index \in 1..Len(v.kinds) /\ v.kinds[f.index] # "text"

LEMMA IntactRedrawn ==
  ASSUME NEW v, NEW c, Intact(v, c), NEW b \in 1..Len(c.blocks), NEW x, NEW k,
         Redraws(k, c, b, x), x.index = c.blocks[b].index,
         x.index \in 1..Len(v.kinds) => v.kinds[x.index] # "text" \/ x.body = c.blocks[b].body
  PROVE  Intact(v, k)
<1>1. /\ ClientOK(k) /\ Len(k.blocks) = Len(c.blocks) /\ k.blocks[b] = x
      /\ \A a \in 1..Len(c.blocks) : a # b => k.blocks[a] = c.blocks[a]
  BY DEF Redraws, Replaced
<1>2. TextIntact(v, k)
  <2> SUFFICES ASSUME NEW i \in 1..Len(v.kinds), v.kinds[i] = "text"
               PROVE  /\ HasShown(k, i)
                      /\ \A a \in 1..Len(k.blocks) :
                           k.blocks[a].index = i => k.blocks[a].body = v.told[i]
    BY DEF TextIntact
  <2>1. /\ HasShown(c, i)
        /\ \A a \in 1..Len(c.blocks) : c.blocks[a].index = i => c.blocks[a].body = v.told[i]
    BY DEF Intact, TextIntact
  <2>2. HasShown(k, i)
    BY <1>1, <2>1 DEF HasShown
  <2>3. ASSUME NEW a \in 1..Len(k.blocks), k.blocks[a].index = i PROVE k.blocks[a].body = v.told[i]
    <3>1. CASE a = b
      BY <1>1, <2>1, <2>3, <3>1
    <3>2. CASE a # b
      BY <1>1, <2>1, <2>3, <3>2
    <3> QED BY <3>1, <3>2
  <2> QED BY <2>2, <2>3
<1> QED BY <1>1, <1>2 DEF Intact

LEMMA IntactGrown ==
  ASSUME NEW v, NEW c, Intact(v, c), NEW x, NEW k, Grows(k, c, x),
         x.index \in 1..Len(v.kinds) => v.kinds[x.index] # "text"
  PROVE  Intact(v, k)
<1>1. /\ ClientOK(k) /\ Len(k.blocks) = Len(c.blocks) + 1 /\ k.blocks[Len(c.blocks) + 1] = x
      /\ \A a \in 1..Len(c.blocks) : k.blocks[a] = c.blocks[a]
  BY DEF Grows
<1>2. Len(c.blocks) \in Nat
  BY ClientFacts DEF Intact
<1>3. /\ \A a \in 1..Len(k.blocks) : a \in 1..Len(c.blocks) \/ a = Len(c.blocks) + 1
      /\ 1..Len(c.blocks) \subseteq 1..Len(k.blocks)
  BY <1>1, <1>2
<1>4. TextIntact(v, k)
  <2> SUFFICES ASSUME NEW i \in 1..Len(v.kinds), v.kinds[i] = "text"
               PROVE  /\ HasShown(k, i)
                      /\ \A a \in 1..Len(k.blocks) :
                           k.blocks[a].index = i => k.blocks[a].body = v.told[i]
    BY DEF TextIntact
  <2>1. /\ HasShown(c, i) /\ x.index # i
        /\ \A a \in 1..Len(c.blocks) : c.blocks[a].index = i => c.blocks[a].body = v.told[i]
    BY DEF Intact, TextIntact
  <2>2. HasShown(k, i)
    BY <1>1, <1>3, <2>1 DEF HasShown
  <2> QED BY <1>1, <1>3, <2>1, <2>2, Zenon
<1> QED BY <1>1, <1>4 DEF Intact

LEMMA IntactSame ==
  ASSUME NEW v, NEW c, Intact(v, c), NEW k, ClientOK(k), k.blocks = c.blocks
  PROVE  Intact(v, k)
BY DEF Intact, TextIntact, HasShown

LEMMA QuietFrame ==
  ASSUME NEW v, NEW c, Intact(v, c), NEW f, Quiet(v, f)
  PROVE  Intact(v, MessagesRead(c, f))
<1> DEFINE k == MessagesRead(c, f)
<1>1. ClientOK(c)
  BY DEF Intact
<1>2. Intact(v, Broken(c)) /\ \A state : Intact(v, [c EXCEPT !.state = state])
  BY <1>1, BrokenIs, IntactSame
<1>3. CASE f.name \in {"done", "error"}
  <2>1. k = Broken(c) \/ \E state : k = [c EXCEPT !.state = state]
    BY <1>3 DEF MessagesRead
  <2> HIDE DEF k
  <2> QED BY <1>2, <2>1 DEF k
<1>4. CASE f.name = "start" /\ f.index \in 1..Len(v.kinds) /\ v.kinds[f.index] # "text"
  <2>1. Grows(k, c, NewShown(f)) \/ k = Broken(c)
    BY <1>1, <1>4, StartGrows
  <2>2. NewShown(f).index = f.index
    BY NewShownIs
  <2> HIDE DEF k
  <2>3. ASSUME Grows(k, c, NewShown(f)) PROVE Intact(v, k)
    <3> DEFINE x == NewShown(f)
    <3>1. Grows(k, c, x) /\ x.index = f.index
      BY <2>2, <2>3
    <3> HIDE DEF x
    <3> QED BY <1>4, <3>1, IntactGrown
  <2> QED BY <1>2, <2>1, <2>3 DEF k
<1>5. CASE f.name = "sig" /\ f.index \in 1..Len(v.kinds) /\ v.kinds[f.index] # "text"
  <2>1. PICK b : b = ClientAt(c, f.index)
    OBVIOUS
  <2>2. \/ /\ Reachable(c, f.index) /\ b \in 1..Len(c.blocks) /\ c.blocks[b].index = f.index
           /\ \E x : /\ Redraws(MessagesRead(c, f), c, b, x)
                     /\ x.index = f.index /\ x.kind = c.blocks[b].kind
                     /\ x.body = c.blocks[b].body
        \/ ~Reachable(c, f.index) /\ MessagesRead(c, f) = Broken(c)
    BY <1>1, <1>5, <2>1, SigRedraws
  <2> HIDE DEF k
  <2>3. ASSUME b \in 1..Len(c.blocks), c.blocks[b].index = f.index,
               NEW x, Redraws(k, c, b, x), x.index = f.index
        PROVE  Intact(v, k)
    BY <1>5, <2>3, IntactRedrawn
  <2> QED BY <1>2, <2>2, <2>3 DEF k
<1>6. CASE f.name = "stop" /\ f.kind # "redacted"
  <2>1. k = Broken(c) \/ Closes(k, c, f.index)
    BY <1>1, <1>6, StopCloses
  <2> HIDE DEF k
  <2>2. ASSUME Closes(k, c, f.index) PROVE Intact(v, k)
    BY <2>2, IntactSame DEF Closes
  <2> QED BY <1>2, <2>1, <2>2 DEF k
<1>7. CASE /\ f.name = "stop" /\ f.kind = "redacted"
           /\ f.index \in 1..Len(v.kinds) /\ v.kinds[f.index] # "text"
  <2>1. PICK b : b = ClientAt(c, f.index)
    OBVIOUS
  <2>2. \/ k = Broken(c)
        \/ /\ b \in 1..Len(c.blocks) /\ c.blocks[b].index = f.index
           /\ \E s, x : Closes(s, c, f.index) /\ x.index = f.index /\ Redraws(k, s, b, x)
    BY <1>1, <1>7, <2>1, StopCloses
  <2> HIDE DEF k
  <2>3. ASSUME b \in 1..Len(c.blocks), c.blocks[b].index = f.index,
               NEW s, NEW x, Closes(s, c, f.index), x.index = f.index, Redraws(k, s, b, x)
        PROVE  Intact(v, k)
    <3>1. Intact(v, s) /\ s.blocks = c.blocks
      BY <2>3, IntactSame DEF Closes
    <3> QED BY <1>7, <2>3, <3>1, IntactRedrawn
  <2> QED BY <1>2, <2>2, <2>3 DEF k
<1> QED BY <1>3, <1>4, <1>5, <1>6, <1>7 DEF Quiet

(* What the encoder writes of a quiet kind leaves the text intact.         *)
Quietly(v, c, e) == MsgMatch(v, e) /\ IsSeq(e.wire) /\ Intact(v, Reads(c, e))

LEMMA QuietWrite ==
  ASSUME NEW v, NEW c, NEW e, Quietly(v, c, e), NEW frame, Quiet(v, frame)
  PROVE  Quietly(v, c, Write(e, frame)) /\ Write(e, frame).blocks = e.blocks
<1>1. MsgMatch(v, Write(e, frame))
  BY WriteMatches DEF Quietly
<1>2. IsSeq(e.wire) /\ "wire" \in DOMAIN e
  BY DEF Quietly, MsgMatch, MsgFields
<1>3. /\ Reads(c, Write(e, frame)) = MessagesRead(Reads(c, e), frame)
      /\ IsSeq(Write(e, frame).wire) /\ Write(e, frame).blocks = e.blocks
  BY <1>2, ReadsMore
<1>4. Intact(v, MessagesRead(Reads(c, e), frame))
  BY QuietFrame DEF Quietly
<1> QED BY <1>1, <1>3, <1>4 DEF Quietly

LEMMA QuietThinking ==
  ASSUME NEW v, NEW c, NEW e, Quietly(v, c, e), NEW i \in 1..Len(v.kinds), v.kinds[i] # "text"
  PROVE  Quietly(v, c, StopThinking(TellSignature(e, i), i))
<1>1. \A name \in {"start", "sig", "stop"} : \A kind, payload :
        Quiet(v, Frame(name, i, kind, payload))
  BY FrameIs DEF Quiet
<1>2. Quietly(v, c, TellSignature(e, i))
  BY <1>1, QuietWrite DEF TellSignature
<1> DEFINE f == TellSignature(e, i)
<1> HIDE DEF f
<1>3. ASSUME Quietly(v, c, f) PROVE Quietly(v, c, StopThinking(f, i))
  <2>1. \A g : Quietly(v, c, g) =>
          \A name \in {"start", "sig", "stop"} : \A kind, payload :
            Quietly(v, c, Write(g, Frame(name, i, kind, payload)))
    BY <1>1, QuietWrite
  <2> DEFINE shut(g, kind, payload) == Write(g, Frame("stop", i, kind, payload))
             begun(payload) == Write(f, Frame("start", i, "redacted", payload))
  <2>2. \A kind, payload : Quietly(v, c, shut(f, kind, payload))
    BY <1>3, <2>1
  <2>3. \A payload, last : Quietly(v, c, shut(begun(payload), "plain", last))
    <3>1. \A payload : Quietly(v, c, begun(payload))
      BY <1>3, <2>1
    <3> HIDE DEF begun
    <3> QED BY <2>1, <3>1
  <2>4. \/ StopThinking(f, i) = f
        \/ \E kind, payload : StopThinking(f, i) = shut(f, kind, payload)
        \/ \E payload, last : StopThinking(f, i) = shut(begun(payload), "plain", last)
    BY DEF StopThinking
  <2> HIDE DEF shut, begun
  <2> QED BY <1>3, <2>2, <2>3, <2>4
<1> QED BY <1>2, <1>3 DEF f

LEMMA QuietClosing ==
  ASSUME NEW v, Orderly(v), NEW c, NEW e, Quietly(v, c, e), NEW b \in 1..Len(v.kinds)
  PROVE  Quietly(v, c, ClosePending(e, b))
<1> DEFINE x == [e.blocks[b] EXCEPT !.pending = FALSE, !.deferred = FALSE]
           settled == [e EXCEPT !.blocks[b].pending = FALSE, !.blocks[b].deferred = FALSE]
<1>0. MsgMatch(v, e)
  BY DEF Quietly
<1>1. BlockOf(e.blocks[b], b, v.kinds[b])
  BY <1>0, BlockAt
<1>2. BlockOf(x, b, v.kinds[b])
  BY <1>1 DEF BlockOf, BlockFields
<1>3. settled = WithBlock(e, b, x)
  <2>1. IsSeq(e.blocks) /\ DOMAIN e.blocks = 1..Len(v.kinds)
    BY <1>0, SeqFacts DEF MsgMatch
  <2>2. "blocks" \in DOMAIN e
    BY <1>0 DEF MsgMatch, MsgFields
  <2> QED BY <2>1, <2>2 DEF WithBlock
<1> HIDE DEF x, settled
<1>4. MsgMatch(v, settled) /\ settled.wire = e.wire
  BY <1>0, <1>2, <1>3, BlockChanges
<1>5. Quietly(v, c, settled)
  BY <1>4 DEF Quietly, Reads
<1>6. e.blocks[b].index = b /\ e.blocks[b].kind = v.kinds[b]
  BY <1>1 DEF BlockOf
<1>7. CASE v.kinds[b] = "thinking"
  <2>1. Quietly(v, c, StopThinking(TellSignature(settled, b), b))
    BY <1>5, <1>7, QuietThinking
  <2>2. ClosePending(e, b) = e \/ ClosePending(e, b) = StopThinking(TellSignature(settled, b), b)
    BY <1>6, <1>7 DEF ClosePending, settled
  <2> QED BY <2>1, <2>2
<1>8. CASE v.kinds[b] # "thinking"
  <2> DEFINE nothing == <<>>
             frame == Frame("stop", b, "plain", nothing)
  <2>1. Quiet(v, frame)
    <3> HIDE DEF nothing
    <3> QED BY FrameIs DEF Quiet
  <2>2. ClosePending(e, b) = e \/ ClosePending(e, b) = Write(settled, frame)
    BY <1>6, <1>8 DEF ClosePending, settled
  <2> HIDE DEF frame
  <2>3. Quietly(v, c, Write(settled, frame))
    BY <1>5, <2>1, QuietWrite
  <2> QED BY <2>2, <2>3
<1> QED BY <1>7, <1>8

LEMMA QuietFlush ==
  ASSUME NEW v, Orderly(v), NEW c, NEW e, Quietly(v, c, e)
  PROVE  Quietly(v, c, FlushPendingThinking(e))
<1> DEFINE n == Len(e.blocks)
           f == Flushed(e)
           T == {k \in 0..n : Quietly(v, c, f[k])}
<1>1. n \in Nat /\ n = Len(v.kinds)
  BY OrderlyFacts DEF MsgMatch, Quietly
<1>2. f[0] = e /\ \A k \in 1..n : f[k] = ClosePending(f[k - 1], k)
  BY <1>1, FlushingSteps DEF IsFlushing
<1> HIDE DEF f
<1>3. 0 \in T
  BY <1>1, <1>2
<1>4. ASSUME NEW k \in 1..n, k - 1 \in T PROVE k \in T
  <2>1. k \in 0..n /\ k \in 1..Len(v.kinds) /\ f[k] = ClosePending(f[k - 1], k)
    BY <1>1, <1>2
  <2>2. Quietly(v, c, f[k - 1])
    BY <1>4
  <2>3. Quietly(v, c, ClosePending(f[k - 1], k))
    BY <2>1, <2>2, QuietClosing
  <2> QED BY <2>1, <2>3
<1>5. \A k \in 0..n : k \in T
  <2> HIDE DEF T
  <2> QED BY <1>1, <1>3, <1>4, StepByStep
<1>6. n \in T
  BY <1>1, <1>5
<1> QED BY <1>6 DEF FlushPendingThinking, f

LEMMA FinishRead ==
  ASSUME NEW v, Orderly(v), NEW w, Orderly(w), w.kinds = v.kinds, w.told = v.told, w.over = TRUE,
         NEW c, NEW e, MsgMatch(v, e), IsSeq(e.wire), Intact(v, Reads(c, e)),
         NEW name \in {"done", "error"}
  PROVE  ClientMatch(w, MessagesFinish(e, name).blocks, Reads(c, MessagesFinish(e, name)))
<1> DEFINE f == [e EXCEPT !.finished = TRUE]
           nothing == <<>>
           frame == Frame(name, 1, "plain", nothing)
           last == FlushPendingThinking(f)
<1>1. /\ DOMAIN f = DOMAIN e /\ f.blocks = e.blocks /\ f.refused = e.refused
      /\ f.finished = TRUE /\ f.wire = e.wire
  BY DEF MsgMatch, MsgFields
<1>2. Quiet(w, frame)
  <2> HIDE DEF nothing
  <2> QED BY FrameIs DEF Quiet
<1>a. MessagesFinish(e, name) = Write(last, frame)
  BY DEF MessagesFinish
<1> HIDE DEF f, frame
<1>3. Quietly(w, c, f)
  <2>1. MsgMatch(w, f)
    BY <1>1 DEF MsgMatch
  <2>2. Reads(c, f) = Reads(c, e) /\ IsSeq(f.wire)
    BY <1>1 DEF Reads
  <2>3. Intact(w, Reads(c, e))
    BY DEF Intact, TextIntact
  <2> QED BY <2>1, <2>2, <2>3 DEF Quietly
<1>4. Quietly(w, c, last)
  BY <1>3, QuietFlush
<1> HIDE DEF last
<1>5. Quietly(w, c, Write(last, frame))
  BY <1>2, <1>4, QuietWrite
<1> QED BY <1>a, <1>5 DEF Quietly, Intact, ClientMatch

-----------------------------------------------------------------------------
(* The end of thinking, told now or later.                                 *)

(* How a block of thinking that is over stands with the client.            *)
StandsWith(k, i, block) ==
  IF block.unopened
  THEN block.redacted /\ ~HasShown(k, i) /\ ~Contains(k.closed, i)
  ELSE Reachable(k, i)

Ready(v, c, e, i) ==
  /\ MsgMatch(v, e) /\ IsSeq(e.wire) /\ v.over = FALSE
  /\ i \in 1..Len(v.kinds) /\ v.kinds[i] = "thinking" /\ ~OpenIn(v, i)
  /\ ClientMatch(v, e.blocks, Reads(c, e)) /\ StandsWith(Reads(c, e), i, e.blocks[i])

(* One frame more, and the client that has read it.                        *)
LEMMA OneMore ==
  ASSUME NEW v, NEW c, NEW e, MsgMatch(v, e), IsSeq(e.wire), NEW frame
  PROVE  /\ MsgMatch(v, Write(e, frame)) /\ IsSeq(Write(e, frame).wire)
         /\ Write(e, frame).blocks = e.blocks
         /\ Reads(c, Write(e, frame)) = MessagesRead(Reads(c, e), frame)
<1>1. MsgMatch(v, Write(e, frame))
  BY WriteMatches
<1>2. "wire" \in DOMAIN e
  BY DEF MsgMatch, MsgFields
<1> QED BY <1>1, <1>2, ReadsMore

LEMMA SigRead ==
  ASSUME NEW v, NEW c, NEW e, NEW i, Ready(v, c, e, i), ~e.blocks[i].unopened, NEW payload,
         NEW frame, frame = Frame("sig", i, "thinking", payload)
  PROVE  Ready(v, c, Write(e, frame), i) /\ Write(e, frame).blocks = e.blocks
<1> DEFINE k == Reads(c, e)
           m == MessagesRead(k, frame)
<1>1. /\ MsgMatch(v, Write(e, frame)) /\ IsSeq(Write(e, frame).wire)
      /\ Write(e, frame).blocks = e.blocks /\ Reads(c, Write(e, frame)) = m
  BY OneMore DEF Ready
<1>2. frame.name = "sig" /\ frame.index = i
  BY FrameIs
<1>3. ClientMatch(v, e.blocks, k) /\ Reachable(k, i) /\ ClientOK(k)
  BY DEF Ready, StandsWith, ClientMatch
<1> HIDE DEF k, m
<1>4. PICK b : b = ClientAt(k, i)
  OBVIOUS
<1>5. /\ b \in 1..Len(k.blocks) /\ k.blocks[b].index = i
      /\ \E x : /\ Redraws(m, k, b, x) /\ x.index = i /\ x.kind = k.blocks[b].kind
                /\ x.body = k.blocks[b].body
  BY <1>2, <1>3, <1>4, SigRedraws DEF m
<1>6. PICK x : /\ Redraws(m, k, b, x) /\ x.index = i /\ x.kind = k.blocks[b].kind
               /\ x.body = k.blocks[b].body
  BY <1>5
<1>7. /\ v.over = FALSE /\ i \in 1..Len(v.kinds) /\ v.kinds[i] = "thinking" /\ ~OpenIn(v, i)
  BY DEF Ready
<1>8. ClientMatch(v, e.blocks, m)
  BY <1>3, <1>5, <1>6, <1>7, RedrawingMatches
<1>9. Reachable(m, i)
  BY <1>3, <1>5, <1>6 DEF Redraws, Replaced, Reachable, HasShown
<1> QED BY <1>1, <1>7, <1>8, <1>9 DEF Ready, StandsWith, m, k

(* The frames that end a block of thinking.                                *)
LEMMA PlainStopRead ==
  ASSUME NEW v, NEW c, NEW e, NEW i, Ready(v, c, e, i), ~e.blocks[i].unopened, NEW payload,
         NEW frame, frame = Frame("stop", i, "plain", payload)
  PROVE  ClientMatch(v, e.blocks, Reads(c, Write(e, frame))) /\ Write(e, frame).blocks = e.blocks
<1> DEFINE k == Reads(c, e)
<1>1. Write(e, frame).blocks = e.blocks /\ Reads(c, Write(e, frame)) = MessagesRead(k, frame)
  BY OneMore DEF Ready
<1>2. frame.name = "stop" /\ frame.index = i /\ frame.kind = "plain"
  BY FrameIs
<1>3. ClientMatch(v, e.blocks, k) /\ Reachable(k, i)
  BY DEF Ready, StandsWith
<1>4. /\ v.over = FALSE /\ i \in 1..Len(v.kinds) /\ ~OpenIn(v, i)
  BY DEF Ready
<1> HIDE DEF k
<1>5. ClientMatch(v, e.blocks, MessagesRead(k, frame))
  BY <1>2, <1>3, <1>4, PlainStop
<1> QED BY <1>1, <1>5

LEMMA RedactedStopRead ==
  ASSUME NEW v, NEW c, NEW e, NEW i, Ready(v, c, e, i), ~e.blocks[i].unopened, NEW payload,
         NEW frame, frame = Frame("stop", i, "redacted", payload)
  PROVE  ClientMatch(v, e.blocks, Reads(c, Write(e, frame))) /\ Write(e, frame).blocks = e.blocks
<1> DEFINE k == Reads(c, e)
           m == MessagesRead(k, frame)
<1>1. Write(e, frame).blocks = e.blocks /\ Reads(c, Write(e, frame)) = m
  BY OneMore DEF Ready
<1>2. frame.name = "stop" /\ frame.index = i /\ frame.kind = "redacted"
  BY FrameIs
<1>3. ClientMatch(v, e.blocks, k) /\ Reachable(k, i) /\ ClientOK(k)
  BY DEF Ready, StandsWith, ClientMatch
<1>4. /\ v.over = FALSE /\ i \in 1..Len(v.kinds) /\ ~OpenIn(v, i) /\ v.kinds[i] = "thinking"
  BY DEF Ready
<1> HIDE DEF k, m
<1>5. PICK b : b = ClientAt(k, i)
  OBVIOUS
<1>6. /\ b \in 1..Len(k.blocks) /\ k.blocks[b].index = i
      /\ \E s, x : Closes(s, k, i) /\ x.index = i /\ Redraws(m, s, b, x)
  BY <1>2, <1>3, <1>5, StopCloses DEF m
<1>7. PICK s, x : Closes(s, k, i) /\ x.index = i /\ Redraws(m, s, b, x)
  BY <1>6
<1>8. ClientMatch(v, e.blocks, s) /\ s.blocks = k.blocks
  BY <1>3, <1>4, <1>7, ClosingMatches DEF Closes
<1>9. ClientMatch(v, e.blocks, m)
  BY <1>4, <1>6, <1>7, <1>8, RedrawingMatches
<1> QED BY <1>1, <1>9

LEMMA LateStartRead ==
  ASSUME NEW v, NEW c, NEW e, NEW i, Ready(v, c, e, i), e.blocks[i].unopened, NEW payload, NEW nothing,
         NEW begin, begin = Frame("start", i, "redacted", payload),
         NEW frame, frame = Frame("stop", i, "plain", nothing)
  PROVE  /\ ClientMatch(v, e.blocks, Reads(c, Write(Write(e, begin), frame)))
         /\ Write(Write(e, begin), frame).blocks = e.blocks
<1> DEFINE k == Reads(c, e)
           m == MessagesRead(k, begin)
           f == Write(e, begin)
           x == NewShown(begin)
<1>1. MsgMatch(v, f) /\ IsSeq(f.wire) /\ f.blocks = e.blocks /\ Reads(c, f) = m
  BY OneMore DEF Ready
<1>2. begin.name = "start" /\ begin.index = i
  BY FrameIs
<1>3. frame.name = "stop" /\ frame.index = i /\ frame.kind = "plain"
  BY FrameIs
<1>4. ClientMatch(v, e.blocks, k) /\ ~HasShown(k, i) /\ ~Contains(k.closed, i) /\ ClientOK(k)
  BY DEF Ready, StandsWith, ClientMatch
<1>5. /\ v.over = FALSE /\ i \in 1..Len(v.kinds) /\ ~OpenIn(v, i) /\ v.kinds[i] = "thinking"
  BY DEF Ready
<1>6. k.state = "reading"
  BY <1>4, <1>5 DEF ClientMatch, InStep
<1> HIDE DEF k, f
<1>7. Grows(m, k, x) /\ x.index = i
  BY <1>2, <1>4, <1>6, StartGrows, NewShownIs
<1> HIDE DEF m, x
<1>8. ClientMatch(v, e.blocks, m)
  BY <1>4, <1>5, <1>7, LateStart
<1>9. Reachable(m, i)
  <2>1. /\ m.closed = k.closed /\ Len(m.blocks) = Len(k.blocks) + 1
        /\ m.blocks[Len(k.blocks) + 1] = x /\ Len(k.blocks) \in Nat
    BY <1>4, <1>7, ClientFacts DEF Grows
  <2>2. Len(k.blocks) + 1 \in 1..Len(m.blocks)
    BY <2>1
  <2> QED BY <1>4, <1>7, <2>1, <2>2 DEF Reachable, HasShown
<1>10. /\ Write(f, frame).blocks = f.blocks /\ Reads(c, Write(f, frame)) = MessagesRead(m, frame)
  BY <1>1, OneMore
<1>11. ClientMatch(v, e.blocks, MessagesRead(m, frame))
  BY <1>3, <1>5, <1>8, <1>9, PlainStop
<1> QED BY <1>1, <1>10, <1>11 DEF f

LEMMA StopThinkingRead ==
  ASSUME NEW v, Orderly(v), NEW c, NEW e, NEW i, Ready(v, c, e, i)
  PROVE  /\ ClientMatch(v, e.blocks, Reads(c, StopThinking(TellSignature(e, i), i)))
         /\ StopThinking(TellSignature(e, i), i).blocks = e.blocks
<1> DEFINE block == e.blocks[i]
           t == TellSignature(e, i)
           nothing == <<>>
<1>1. MsgMatch(v, e) /\ i \in 1..Len(v.kinds) /\ ClientMatch(v, e.blocks, Reads(c, e))
  BY DEF Ready
<1>2. At(e, i) = i
  BY <1>1, BlockAt
<1>3. CASE block.unopened
  <2>1. block.redacted
    BY <1>3, Zenon DEF Ready, StandsWith
  <2>2. t = e
    BY <1>2, <2>1, Zenon DEF TellSignature
  <2>3. CASE block.sig = nothing
    <3>1. StopThinking(e, i) = e
      BY <1>2, <1>3, <2>3 DEF StopThinking
    <3> QED BY <1>1, <2>2, <3>1
  <2>4. CASE block.sig # nothing
    <3> DEFINE begin == Frame("start", i, "redacted", block.sig)
               frame == Frame("stop", i, "plain", nothing)
    <3>1. StopThinking(e, i) = Write(Write(e, begin), frame)
      BY <1>2, <1>3, <2>1, <2>4, Zenon DEF StopThinking
    <3>2. begin = Frame("start", i, "redacted", block.sig) /\ frame = Frame("stop", i, "plain", nothing)
      OBVIOUS
    <3> HIDE DEF begin, frame, nothing
    <3>3. /\ ClientMatch(v, e.blocks, Reads(c, Write(Write(e, begin), frame)))
          /\ Write(Write(e, begin), frame).blocks = e.blocks
      BY <1>3, <3>2, LateStartRead
    <3> QED BY <2>2, <3>1, <3>3
  <2> QED BY <2>3, <2>4
<1>4. CASE ~block.unopened
  <2>1. Ready(v, c, t, i) /\ t.blocks = e.blocks
    <3>1. CASE t = e
      BY <3>1
    <3>2. CASE t # e
      <4> DEFINE frame == Frame("sig", i, "thinking", block.sig)
      <4>1. t = Write(e, frame)
        BY <1>2, <3>2 DEF TellSignature
      <4>2. frame = Frame("sig", i, "thinking", block.sig)
        OBVIOUS
      <4> HIDE DEF frame
      <4>3. Ready(v, c, Write(e, frame), i) /\ Write(e, frame).blocks = e.blocks
        BY <1>4, <4>2, SigRead
      <4> QED BY <4>1, <4>3
    <3> QED BY <3>1, <3>2
  <2> HIDE DEF t
  <2>2. At(t, i) = i
    <3>1. MsgMatch(v, t)
      BY <2>1 DEF Ready
    <3> QED BY <1>1, <3>1, BlockAt
  <2>3. t.blocks[i] = block /\ ~t.blocks[i].unopened
    BY <1>4, <2>1, Zenon
  <2> DEFINE plain == Frame("stop", i, "plain", nothing)
             hidden == Frame("stop", i, "redacted", block.sig)
  <2>4. StopThinking(t, i) = Write(t, plain) \/ StopThinking(t, i) = Write(t, hidden)
    BY <1>4, <2>2, <2>3 DEF StopThinking
  <2>5. plain = Frame("stop", i, "plain", nothing) /\ hidden = Frame("stop", i, "redacted", block.sig)
    OBVIOUS
  <2> HIDE DEF plain, hidden, nothing, block
  <2>6. ClientMatch(v, t.blocks, Reads(c, Write(t, plain))) /\ Write(t, plain).blocks = t.blocks
    BY <2>1, <2>3, <2>5, PlainStopRead
  <2>7. ClientMatch(v, t.blocks, Reads(c, Write(t, hidden))) /\ Write(t, hidden).blocks = t.blocks
    BY <2>1, <2>3, <2>5, RedactedStopRead
  <2> QED BY <2>1, <2>4, <2>6, <2>7 DEF t
<1> QED BY <1>3, <1>4

Rebuilt(v, f, e, i, x) ==
  /\ MsgMatch(v, f) /\ f.blocks[i] = x /\ f.wire = e.wire
  /\ \A b \in 1..Len(v.kinds) : b # i => f.blocks[b] = e.blocks[b]

LEMMA BlockRebuilt ==
  ASSUME NEW v, Orderly(v), NEW e, MsgMatch(v, e), NEW i \in 1..Len(v.kinds), NEW x,
         BlockOf(x, i, v.kinds[i])
  PROVE  Rebuilt(v, WithBlock(e, i, x), e, i, x)
BY BlockChanges DEF Rebuilt

(* The thinking that ends: pending, deferred or told.                      *)
LEMMA EndThinkingRead ==
  ASSUME NEW v, Orderly(v), NEW e, MsgMatch(v, e), IsSeq(e.wire), NEW c,
         ClientMatch(v, e.blocks, Reads(c, e)), v.over = FALSE,
         NEW ev, v.think # 0, ev.index = v.think,
         NEW w, Orderly(w), w.kinds = v.kinds, w.told = v.told, w.over = v.over, w.text = v.text,
         w.think = 0, w.shut = v.shut
  PROVE  ClientMatch(w, MessagesEndThinking(e, ev).blocks, Reads(c, MessagesEndThinking(e, ev)))
<1> DEFINE i == ev.index
           k == Reads(c, e)
           bs == e.blocks
           x == [e.blocks[i] EXCEPT !.sig = @ \o ev.block.sig,
                                    !.redacted = @ \/ ev.block.redacted]
           read == WithBlock(e, i, x)
<1>0. i \in 1..Len(v.kinds) /\ v.kinds[i] = "thinking" /\ OpenIn(v, i)
  <2>1. v.think \in 0..Len(v.kinds) /\ Len(v.kinds) \in Nat
    BY OrderlyFacts
  <2> QED BY <2>1 DEF Orderly, OpenIn
<1>1. At(e, i) = i /\ BlockOf(e.blocks[i], i, v.kinds[i])
  BY <1>0, BlockAt
<1>2. BlockOf(x, i, v.kinds[i])
  BY <1>1 DEF BlockOf, BlockFields
<1>2a. x.unopened = bs[i].unopened /\ (bs[i].redacted => x.redacted)
  <2>1. x.unopened = bs[i].unopened /\ x.redacted = (bs[i].redacted \/ ev.block.redacted)
    BY <1>1 DEF BlockOf, BlockFields
  <2> HIDE DEF x, bs
  <2> QED BY <2>1, Zenon
<1>3. read = [e EXCEPT !.blocks[i].sig = @ \o ev.block.sig,
                       !.blocks[i].redacted = @ \/ ev.block.redacted]
  <2>1. IsSeq(e.blocks) /\ DOMAIN e.blocks = 1..Len(v.kinds)
    BY SeqFacts DEF MsgMatch
  <2>2. "blocks" \in DOMAIN e
    BY DEF MsgMatch, MsgFields
  <2> QED BY <2>1, <2>2 DEF WithBlock
<1> HIDE DEF x, read
<1>4. /\ MsgMatch(v, read) /\ read.blocks[i] = x /\ read.wire = e.wire
      /\ \A b \in 1..Len(v.kinds) : b # i => read.blocks[b] = bs[b]
  BY <1>0, <1>2, BlockChanges DEF read
<1> DEFINE y == [x EXCEPT !.pending = TRUE]
           z == [x EXCEPT !.deferred = TRUE]
<1>5. /\ BlockOf(y, i, v.kinds[i]) /\ BlockOf(z, i, v.kinds[i])
      /\ y.unopened = x.unopened /\ y.redacted = x.redacted
      /\ z.unopened = x.unopened /\ z.redacted = x.redacted
  BY <1>2 DEF BlockOf, BlockFields
<1>6. /\ [read EXCEPT !.blocks[i].pending = TRUE] = WithBlock(read, i, y)
      /\ [read EXCEPT !.blocks[i].deferred = TRUE] = WithBlock(read, i, z)
  BY <1>4 DEF WithBlock
<1> HIDE DEF y, z
<1>7. ASSUME NEW as, BlockOf(as, i, v.kinds[i]), as.unopened = x.unopened, as.redacted = x.redacted
      PROVE  /\ ClientMatch(w, WithBlock(read, i, as).blocks, Reads(c, WithBlock(read, i, as)))
  <2> DEFINE f == WithBlock(read, i, as)
  <2>1. /\ MsgMatch(v, f) /\ f.blocks[i] = as /\ f.wire = read.wire
        /\ \A b \in 1..Len(v.kinds) : b # i => f.blocks[b] = read.blocks[b]
    <3>1. BlockOf(as, i, v.kinds[i]) /\ i \in 1..Len(v.kinds) /\ MsgMatch(v, read)
      BY <1>0, <1>4, <1>7
    <3> HIDE DEF i
    <3>2. Rebuilt(v, WithBlock(read, i, as), read, i, as)
      BY <3>1, BlockRebuilt
    <3> QED BY <3>2 DEF Rebuilt
  <2> HIDE DEF f
  <2>2. Reads(c, f) = k
    BY <1>4, <2>1 DEF Reads
  <2>3. Narrower(w, v, f.blocks, bs)
    <3> SUFFICES ASSUME NEW j \in 1..Len(v.kinds)
                 PROVE  /\ OpenIn(w, j) => OpenIn(v, j)
                        /\ j = w.think => j = v.think /\ f.blocks[j].redacted = bs[j].redacted
                        /\ v.kinds[j] = "thinking" =>
                             /\ f.blocks[j].unopened = bs[j].unopened
                             /\ bs[j].redacted => f.blocks[j].redacted
      BY DEF Narrower
    <3>1. j # 0 /\ Len(v.kinds) \in Nat
      BY OrderlyFacts
    <3>2. j # w.think /\ (OpenIn(w, j) => OpenIn(v, j))
      BY <3>1 DEF OpenIn
    <3>3. CASE j = i
      <4>1. f.blocks[j].unopened = bs[j].unopened
        BY <1>2a, <1>7, <2>1, <3>3
      <4>2. f.blocks[j].redacted = x.redacted
        BY <1>7, <2>1, <3>3
      <4>3. bs[j].redacted => f.blocks[j].redacted
        BY <1>2a, <3>3, <4>2, Zenon
      <4> QED BY <3>2, <4>1, <4>3, Zenon
    <3>4. CASE j # i
      <4>1. f.blocks[j] = bs[j]
        BY <1>4, <2>1, <3>4
      <4> QED BY <3>2, <4>1, Zenon
    <3> QED BY <3>3, <3>4
  <2>4. v.think # 0 => v.kinds[v.think] = "thinking"
    BY DEF Orderly
  <2>5. ClientMatch(v, bs, k)
    OBVIOUS
  <2> HIDE DEF bs, k
  <2>6. ClientMatch(w, f.blocks, k)
    BY <2>3, <2>4, <2>5, LessOpen
  <2> QED BY <2>2, <2>6 DEF f
<1>8. ClientMatch(w, WithBlock(read, i, y).blocks, Reads(c, WithBlock(read, i, y)))
  BY <1>5, <1>7
<1>9. ClientMatch(w, WithBlock(read, i, z).blocks, Reads(c, WithBlock(read, i, z)))
  BY <1>5, <1>7
<1>10. Ready(w, c, read, i)
  <2>1. WithBlock(read, i, x) = read
    <3>1. IsSeq(read.blocks) /\ Len(read.blocks) = Len(v.kinds) /\ MsgFields \subseteq DOMAIN read
      BY <1>4 DEF MsgMatch
    <3>2. /\ read.blocks = [j \in DOMAIN read.blocks |-> read.blocks[j]]
          /\ DOMAIN read.blocks = 1..Len(v.kinds)
      BY <3>1 DEF IsSeq
    <3>3. [read.blocks EXCEPT ![i] = x] = read.blocks
      BY <1>4, <3>2
    <3>4. read = [j \in DOMAIN read |-> read[j]]
      BY <3>1 DEF read, WithBlock
    <3> QED BY <3>1, <3>3, <3>4 DEF WithBlock, MsgFields
  <2>2. ClientMatch(w, read.blocks, Reads(c, read))
    BY <1>2, <1>7, <2>1
  <2>3. Reads(c, read) = k
    BY <1>4 DEF Reads
  <2>4. ~OpenIn(w, i)
    <3>1. i # 0 /\ Len(v.kinds) \in Nat
      BY <1>0, OrderlyFacts
    <3> QED BY <1>0, <3>1 DEF OpenIn, Orderly
  <2>5. StandsWith(k, i, x)
    <3>1. InStep(v, bs, k) /\ BlockInStep(v, bs, k, i)
      BY <1>0 DEF ClientMatch, InStep
    <3> HIDE DEF k, bs
    <3>2. ~Contains(k.closed, i) /\ (bs[i].unopened => ~HasShown(k, i))
          /\ (~bs[i].unopened => HasShown(k, i)) /\ (bs[i].unopened => bs[i].redacted)
      BY <1>0, <3>1, Zenon DEF BlockInStep, Unopened
    <3>3. CASE x.unopened
      BY <1>2a, <3>2, <3>3, Zenon DEF StandsWith
    <3>4. CASE ~x.unopened
      BY <1>2a, <3>2, <3>4, Zenon DEF StandsWith, Reachable
    <3> QED BY <3>3, <3>4
  <2>6. MsgMatch(w, read)
    BY <1>4, MsgMatchIsOf
  <2> HIDE DEF k
  <2> QED BY <1>0, <1>4, <2>2, <2>3, <2>4, <2>5, <2>6 DEF Ready
<1>11. /\ ClientMatch(w, read.blocks, Reads(c, StopThinking(TellSignature(read, i), i)))
       /\ StopThinking(TellSignature(read, i), i).blocks = read.blocks
  BY SMTT(30), <1>10, StopThinkingRead
<1>12. \/ MessagesEndThinking(e, ev) = [read EXCEPT !.blocks[i].pending = TRUE]
       \/ MessagesEndThinking(e, ev) = [read EXCEPT !.blocks[i].deferred = TRUE]
       \/ MessagesEndThinking(e, ev) = StopThinking(TellSignature(read, i), i)
  BY <1>1, <1>3 DEF MessagesEndThinking
<1> QED BY <1>6, <1>8, <1>9, <1>11, <1>12

-----------------------------------------------------------------------------
(* The client follows the contract with its encoder.                       *)
Following(v, c, e) ==
  /\ Orderly(v) /\ v.over = FALSE /\ MsgMatch(v, e) /\ e.wire = <<>>
  /\ ClientMatch(v, e.blocks, c)

ReadOn(w, c, f) == ClientMatch(w, f.blocks, Reads(c, f))

LEMMA FollowingReads ==
  ASSUME NEW v, NEW c, NEW e, Following(v, c, e)
  PROVE  IsSeq(e.wire) /\ Reads(c, e) = c
<1>1. PICK nothing : nothing = <<>>
  OBVIOUS
<1>2. e.wire = nothing
  BY <1>1 DEF Following
<1> QED BY <1>1, <1>2, ReadsNothing

(* The encoder's block of one that starts.                                 *)
Begun(v, kind, f, e, x) ==
  /\ MsgMatch(Started(v, kind), f) /\ f.wire = e.wire /\ f.blocks[Len(v.kinds) + 1] = x
  /\ \A b \in 1..Len(v.kinds) : f.blocks[b] = e.blocks[b]

LEMMA BlockBegins ==
  ASSUME NEW v, Orderly(v), NEW e, MsgMatch(v, e), NEW kind \in Kinds, NEW redacted,
         NEW x, x = BlockState(Len(v.kinds) + 1, kind, redacted)
  PROVE  Begun(v, kind, MoreBlock(e, x), e, x)
<1> DEFINE f == MoreBlock(e, x)
<1>1. /\ MsgMatch(Started(v, kind), f) /\ f.wire = e.wire
      /\ f.blocks[Len(v.kinds) + 1] = x
      /\ \A b \in 1..Len(v.kinds) : f.blocks[b] = e.blocks[b]
  BY NewBlockMatches
<1> HIDE DEF f
<1>2. Begun(v, kind, f, e, x)
  BY <1>1 DEF Begun
<1> QED BY <1>2 DEF f

LEMMA StartRead ==
  ASSUME NEW v, NEW c, NEW e, Following(v, c, e), NEW kind \in Kinds, NEW payload,
         NEW i, i = Len(v.kinds) + 1
  PROVE  ReadOn(Started(v, kind), c, StartBlock(e, i, kind, payload))
<1> DEFINE x == BlockState(i, kind, FALSE)
           frame == Frame("start", i, kind, payload)
           f == MoreBlock(e, x)
           w == Started(v, kind)
<1>0. Orderly(v) /\ v.over = FALSE /\ MsgMatch(v, e) /\ ClientMatch(v, e.blocks, c)
  BY DEF Following
<1>1. x.unopened = FALSE /\ x.redacted = FALSE
  BY DEF BlockState
<1>2. StartBlock(e, i, kind, payload) = Write(f, frame)
  BY DEF StartBlock, MoreBlock
<1>3. frame.name = "start" /\ frame.index = i /\ frame.kind = kind
  BY FrameIs
<1>a. x = BlockState(Len(v.kinds) + 1, kind, FALSE)
  OBVIOUS
<1> HIDE DEF x, frame
<1>b. Begun(v, kind, f, e, x)
  BY <1>0, <1>a, BlockBegins
<1> HIDE DEF f, w
<1>4. /\ MsgMatch(w, f) /\ f.wire = e.wire /\ f.blocks[i] = x
      /\ \A b \in 1..Len(v.kinds) : f.blocks[b] = e.blocks[b]
  BY <1>b DEF Begun, w
<1>5. IsSeq(f.wire) /\ Reads(c, f) = c
  BY <1>4, FollowingReads DEF Reads
<1>6. Write(f, frame).blocks = f.blocks /\ Reads(c, Write(f, frame)) = MessagesRead(c, frame)
  BY <1>4, <1>5, OneMore
<1> DEFINE bs2 == f.blocks
<1>7. bs2[Len(v.kinds) + 1] = x /\ \A b \in 1..Len(v.kinds) : bs2[b] = e.blocks[b]
  BY <1>4
<1> HIDE DEF bs2
<1>8. ClientMatch(Started(v, kind), bs2, MessagesRead(c, frame))
  BY <1>0, <1>1, <1>3, <1>7, ToldStart
<1> QED BY <1>2, <1>6, <1>8 DEF ReadOn, bs2

LEMMA HiddenRead ==
  ASSUME NEW v, NEW c, NEW e, Following(v, c, e),
         NEW x, x = BlockState(Len(v.kinds) + 1, "thinking", TRUE)
  PROVE  ReadOn(Started(v, "thinking"), c, MoreBlock(e, x))
<1> DEFINE f == MoreBlock(e, x)
           bs2 == f.blocks
<1>0. Orderly(v) /\ v.over = FALSE /\ MsgMatch(v, e) /\ ClientMatch(v, e.blocks, c)
  BY DEF Following
<1>1. x.unopened = TRUE /\ x.redacted = TRUE
  BY DEF BlockState
<1>b. Begun(v, "thinking", f, e, x)
  <2>1. "thinking" \in Kinds
    BY DEF Kinds
  <2> QED BY <1>0, <2>1, BlockBegins
<1> HIDE DEF f
<1>4. /\ f.wire = e.wire /\ f.blocks[Len(v.kinds) + 1] = x
      /\ \A b \in 1..Len(v.kinds) : f.blocks[b] = e.blocks[b]
  BY <1>b DEF Begun
<1>5. Reads(c, f) = c
  BY <1>4, FollowingReads DEF Reads
<1>7. bs2[Len(v.kinds) + 1] = x /\ \A b \in 1..Len(v.kinds) : bs2[b] = e.blocks[b]
  BY <1>4
<1> HIDE DEF bs2
<1>8. ClientMatch(Started(v, "thinking"), bs2, c)
  BY <1>0, <1>1, <1>7, HiddenStart
<1> QED BY <1>5, <1>8 DEF ReadOn, bs2, f

LEMMA DeltaRead ==
  ASSUME NEW v, NEW c, NEW e, Following(v, c, e),
         NEW w, w.kinds = v.kinds, w.text = v.text, w.think = v.think, w.shut = v.shut,
         w.over = v.over,
         NEW i \in 1..Len(v.kinds), OpenIn(v, i), ~Unopened(v, e.blocks, i), NEW payload,
         v.kinds[i] = "text" => w.told[i] = v.told[i] \o payload,
         \A j \in 1..Len(v.kinds) : j # i => w.told[j] = v.told[j]
  PROVE  ReadOn(w, c, Write(e, Frame("delta", i, v.kinds[i], payload)))
<1> DEFINE frame == Frame("delta", i, v.kinds[i], payload)
<1>0. v.over = FALSE /\ MsgMatch(v, e) /\ ClientMatch(v, e.blocks, c)
  BY DEF Following
<1>1. frame.name = "delta" /\ frame.index = i /\ frame.kind = v.kinds[i] /\ frame.payload = payload
  BY FrameIs
<1> HIDE DEF frame
<1>2. IsSeq(e.wire) /\ Reads(c, e) = c
  BY FollowingReads
<1>3. Write(e, frame).blocks = e.blocks /\ Reads(c, Write(e, frame)) = MessagesRead(c, frame)
  BY <1>0, <1>2, OneMore
<1>4. v.kinds[i] = "text" => w.told[i] = v.told[i] \o frame.payload
  BY <1>1
<1>5. ClientMatch(w, e.blocks, MessagesRead(c, frame))
  BY <1>0, <1>1, <1>4, DeltaMatches
<1> QED BY <1>3, <1>5 DEF ReadOn, frame

LEMMA EndRead ==
  ASSUME NEW v, NEW c, NEW e, Following(v, c, e),
         NEW i \in 1..Len(v.kinds), OpenIn(v, i), v.kinds[i] # "thinking",
         NEW w, w.kinds = v.kinds, w.told = v.told, w.over = v.over, w.think = v.think,
         w.text \in {v.text, 0}, v.shut \subseteq w.shut,
         w.text # i, v.kinds[i] = "tool" => i \in w.shut
  PROVE  ReadOn(w, c, EndBlock(e, i))
<1>0. Orderly(v) /\ v.over = FALSE /\ MsgMatch(v, e) /\ ClientMatch(v, e.blocks, c)
  BY DEF Following
<1>1. IsSeq(e.wire) /\ ClientMatch(v, e.blocks, Reads(c, e))
  BY <1>0, FollowingReads
<1>2. i # 0 /\ i # v.think
  <2>1. Len(v.kinds) \in Nat
    BY <1>0, OrderlyFacts
  <2> QED BY <1>0, <2>1 DEF Orderly
<1>3. ~OpenIn(w, i)
  BY <1>2 DEF OpenIn
<1>4. Narrower(w, v, e.blocks, e.blocks)
  <2>1. \A j \in 1..Len(v.kinds) : OpenIn(w, j) => OpenIn(v, j)
    <3> TAKE j \in 1..Len(v.kinds)
    <3>1. j # 0
      BY <1>0, OrderlyFacts
    <3> QED BY <3>1 DEF OpenIn
  <2> QED BY <2>1, Zenon DEF Narrower
<1>5. ClientMatch(w, EndBlock(e, i).blocks, Reads(c, EndBlock(e, i)))
  BY <1>0, <1>1, <1>3, <1>4, EndBlockRead
<1> QED BY <1>5 DEF ReadOn

LEMMA NothingRead ==
  ASSUME NEW v, NEW c, NEW e, Following(v, c, e),
         NEW w, w.kinds = v.kinds, w.told = v.told, w.over = v.over, w.think = v.think,
         w.text = v.text, w.shut = v.shut,
         NEW f, f.wire = e.wire,
         \A j \in 1..Len(v.kinds) : /\ f.blocks[j].unopened = e.blocks[j].unopened
                                    /\ f.blocks[j].redacted = e.blocks[j].redacted
  PROVE  ReadOn(w, c, f)
<1>0. Orderly(v) /\ v.over = FALSE /\ MsgMatch(v, e) /\ ClientMatch(v, e.blocks, c)
  BY DEF Following
<1>1. Reads(c, f) = c
  BY FollowingReads DEF Reads
<1>2. \A j : OpenIn(w, j) <=> OpenIn(v, j)
  BY DEF OpenIn
<1> DEFINE bs == e.blocks
           bs2 == f.blocks
<1>a. \A j \in 1..Len(v.kinds) : /\ bs2[j].unopened = bs[j].unopened
                                 /\ bs2[j].redacted = bs[j].redacted
  OBVIOUS
<1>b. ClientMatch(v, bs, c)
  BY <1>0
<1> HIDE DEF bs, bs2
<1>3. Narrower(w, v, bs2, bs)
  BY <1>a, <1>2, Zenon DEF Narrower
<1>4. v.think # 0 => v.kinds[v.think] = "thinking"
  BY <1>0 DEF Orderly
<1>5. ClientMatch(w, bs2, c)
  BY <1>b, <1>0, <1>3, <1>4, LessOpen
<1> QED BY <1>1, <1>5 DEF ReadOn, bs2

LEMMA ClientFollows ==
  ASSUME NEW v, NEW c, NEW e, Following(v, c, e), NEW ev, InPlace(v, ev), ValidEvent(ev)
  PROVE  ReadOn(After(v, ev), c, MessagesEncode(e, ev))
<1> DEFINE i == ev.index
           w == After(v, ev)
<1>0. /\ Orderly(v) /\ MsgMatch(v, e) /\ Orderly(w) /\ v.over = FALSE /\ Len(v.kinds) \in Nat
      /\ v.text \in 0..Len(v.kinds) /\ v.think \in 0..Len(v.kinds)
      /\ ClientMatch(v, e.blocks, c)
  BY OrderlyFacts, AfterIsOrderly DEF Following
<1>1. ev.kind \notin Starts \cup {"done", "error"} =>
        i \in 1..Len(v.kinds) /\ At(e, i) = i /\ BlockOf(e.blocks[i], i, v.kinds[i])
  BY <1>0, MessagesHandles
<1>2. MessagesEncode(e, ev) = MessagesHandle(e, ev)
  BY <1>0, MessagesHandles
<1>3. CASE ev.kind \in Starts
  <2>1. i = Len(v.kinds) + 1
    BY <1>3 DEF InPlace
  <2>2. \A kind \in Kinds : \A payload : ReadOn(Started(v, kind), c, StartBlock(e, i, kind, payload))
    BY <2>1, StartRead
  <2>3. CASE ev.kind = "text_start"
    <3>1. MessagesHandle(e, ev) = StartBlock(e, i, "text", <<>>) /\ w = Started(v, "text")
      BY <2>3 DEF MessagesHandle, After
    <3> QED BY <1>2, <2>2, <3>1 DEF Kinds
  <2>4. CASE ev.kind = "toolcall_start"
    <3>1. /\ MessagesHandle(e, ev) = StartBlock(e, i, "tool", <<ev.id, ev.block.name>>)
          /\ w = Started(v, "tool")
      BY <2>4 DEF MessagesHandle, After
    <3> QED BY <1>2, <2>2, <3>1 DEF Kinds
  <2>5. CASE ev.kind = "thinking_start"
    <3>1. MessagesHandle(e, ev) = StartThinking(e, ev) /\ w = Started(v, "thinking")
      BY <2>5 DEF MessagesHandle, After
    <3>2. ReadOn(w, c, StartBlock(e, i, "thinking", <<>>))
      BY <2>2, <3>1 DEF Kinds
    <3> DEFINE x == BlockState(i, "thinking", TRUE)
    <3>3. x = BlockState(Len(v.kinds) + 1, "thinking", TRUE)
      BY <2>1
    <3>4. StartThinking(e, ev) = IF ev.block.redacted THEN MoreBlock(e, x)
                                 ELSE StartBlock(e, i, "thinking", <<>>)
      BY DEF StartThinking, MoreBlock
    <3> HIDE DEF x
    <3>5. ReadOn(w, c, MoreBlock(e, x))
      BY <3>1, <3>3, HiddenRead
    <3> HIDE DEF w
    <3>6. ReadOn(w, c, StartThinking(e, ev))
      BY <3>2, <3>4, <3>5
    <3> QED BY <1>2, <3>1, <3>6 DEF w
  <2> QED BY <1>3, <2>3, <2>4, <2>5 DEF Starts
<1>4. CASE ev.kind = "text_delta"
  <2>1. i \in 1..Len(v.kinds) /\ v.kinds[i] = "text" /\ OpenIn(v, i) /\ ~Unopened(v, e.blocks, i)
    BY <1>1, <1>4 DEF InPlace, Orderly, Starts, OpenIn, Unopened, Following
  <2>2. MessagesHandle(e, ev) = Write(e, Frame("delta", i, v.kinds[i], ev.delta))
    BY <1>4, <2>1 DEF MessagesHandle
  <2>3. /\ w.kinds = v.kinds /\ w.told = [v.told EXCEPT ![i] = @ \o ev.delta]
        /\ w.text = v.text /\ w.think = v.think /\ w.shut = v.shut /\ w.over = v.over
    BY <1>0, <1>4, AfterTextDelta
  <2>4. i \in DOMAIN v.told
    <3>1. DOMAIN v.told = 1..Len(v.kinds)
      BY <1>0, OrderlyFacts
    <3> QED BY <2>1, <3>1
  <2> HIDE DEF w
  <2>5. w.told[i] = v.told[i] \o ev.delta /\ \A j \in 1..Len(v.kinds) : j # i => w.told[j] = v.told[j]
    <3> DEFINE more == v.told[i] \o ev.delta
    <3>1. w.told = [v.told EXCEPT ![i] = more]
      BY <2>3
    <3> HIDE DEF more
    <3>2. w.told[i] = more /\ \A j \in 1..Len(v.kinds) : j # i => w.told[j] = v.told[j]
      BY <2>4, <3>1
    <3> QED BY <3>2 DEF more
  <2> HIDE DEF i
  <2>6. ReadOn(w, c, Write(e, Frame("delta", i, v.kinds[i], ev.delta)))
    BY <2>1, <2>3, <2>5, DeltaRead
  <2> QED BY <1>2, <2>2, <2>6 DEF w
<1>5. CASE ev.kind = "toolcall_delta"
  <2>1. i \in 1..Len(v.kinds) /\ v.kinds[i] = "tool" /\ OpenIn(v, i) /\ ~Unopened(v, e.blocks, i)
    BY <1>1, <1>5 DEF InPlace, Starts, OpenIn, Unopened
  <2>2. MessagesHandle(e, ev) = Write(e, Frame("delta", i, v.kinds[i], ev.delta))
    BY <1>5, <2>1 DEF MessagesHandle
  <2>3. /\ w.kinds = v.kinds /\ w.told = v.told
        /\ w.text = v.text /\ w.think = v.think /\ w.shut = v.shut /\ w.over = v.over
    BY <1>0, <1>5, AfterLittle
  <2> HIDE DEF w, i
  <2>6. ReadOn(w, c, Write(e, Frame("delta", i, v.kinds[i], ev.delta)))
    <3>1. \A j \in 1..Len(v.kinds) : j # i => w.told[j] = v.told[j]
      BY <2>3
    <3>2. v.kinds[i] = "text" => w.told[i] = v.told[i] \o ev.delta
      BY <2>1
    <3> QED BY <2>1, <2>3, <3>1, <3>2, DeltaRead
  <2> QED BY <1>2, <2>2, <2>6 DEF w
<1>6. CASE ev.kind = "thinking_delta"
  <2>1. i \in 1..Len(v.kinds) /\ v.kinds[i] = "thinking" /\ OpenIn(v, i) /\ At(e, i) = i
    BY <1>1, <1>6 DEF InPlace, Orderly, Starts, OpenIn, Following
  <2>2. MessagesHandle(e, ev) = IF e.blocks[i].redacted THEN e
                                ELSE Write(e, Frame("delta", i, v.kinds[i], ev.delta))
    BY <1>6, <2>1 DEF MessagesHandle, ThinkingDelta
  <2>3. /\ w.kinds = v.kinds /\ w.told = v.told
        /\ w.text = v.text /\ w.think = v.think /\ w.shut = v.shut /\ w.over = v.over
    BY <1>0, <1>6, AfterLittle
  <2> HIDE DEF w, i
  <2>4. CASE e.blocks[i].redacted
    <3>1. ReadOn(w, c, e)
      BY <2>3, NothingRead
    <3> QED BY <1>2, <2>2, <2>4, <3>1 DEF w
  <2>5. CASE ~e.blocks[i].redacted
    <3>1. BlockInStep(v, e.blocks, c, i)
      BY <1>0, <2>1 DEF ClientMatch, InStep
    <3>2. ~Unopened(v, e.blocks, i)
      BY <2>5, <3>1, Zenon DEF BlockInStep, Unopened
    <3>3. \A j \in 1..Len(v.kinds) : j # i => w.told[j] = v.told[j]
      BY <2>3
    <3>4. v.kinds[i] = "text" => w.told[i] = v.told[i] \o ev.delta
      BY <2>1
    <3>5. ReadOn(w, c, Write(e, Frame("delta", i, v.kinds[i], ev.delta)))
      BY <2>1, <2>3, <3>2, <3>3, <3>4, DeltaRead
    <3> QED BY <1>2, <2>2, <2>5, <3>5 DEF w
  <2> QED BY <2>4, <2>5
<1>7. CASE ev.kind = "text_end"
  <2>1. i \in 1..Len(v.kinds) /\ v.kinds[i] = "text" /\ OpenIn(v, i)
    BY <1>1, <1>7 DEF InPlace, Orderly, Starts, OpenIn, Following
  <2>2. MessagesHandle(e, ev) = EndBlock(e, i)
    BY <1>7 DEF MessagesHandle
  <2>3. /\ w.kinds = v.kinds /\ w.told = v.told
        /\ w.text = 0 /\ w.think = v.think /\ w.shut = v.shut /\ w.over = v.over
    BY <1>0, <1>7, AfterTextEnd
  <2> HIDE DEF w, i
  <2>4. w.text # i
    BY <1>0, <2>1, <2>3
  <2>5. ReadOn(w, c, EndBlock(e, i))
    BY <2>1, <2>3, <2>4, EndRead
  <2> QED BY <1>2, <2>2, <2>5 DEF w
<1>8. CASE ev.kind = "toolcall_end"
  <2>1. i \in 1..Len(v.kinds) /\ v.kinds[i] = "tool" /\ OpenIn(v, i)
    BY <1>1, <1>8 DEF InPlace, Starts, OpenIn
  <2>2. MessagesHandle(e, ev) = EndBlock(e, i)
    BY <1>8 DEF MessagesHandle
  <2>3. /\ w.kinds = v.kinds /\ w.told = v.told
        /\ w.text = v.text /\ w.think = v.think /\ w.shut = v.shut \cup {i} /\ w.over = v.over
    BY <1>0, <1>8, AfterCallEnd
  <2> HIDE DEF w, i
  <2>4. w.text # i
    <3>1. v.text # 0 => v.kinds[v.text] = "text"
      BY <1>0 DEF Orderly
    <3> QED BY <1>0, <2>1, <2>3, <3>1
  <2>5. v.shut \subseteq w.shut /\ i \in w.shut /\ w.text \in {v.text, 0} /\ v.kinds[i] # "thinking"
    BY <2>1, <2>3
  <2>6. ReadOn(w, c, EndBlock(e, i))
    BY <2>1, <2>3, <2>4, <2>5, EndRead
  <2> QED BY <1>2, <2>2, <2>6 DEF w
<1>9. CASE ev.kind = "thinking_end"
  <2>1. MessagesHandle(e, ev) = MessagesEndThinking(e, ev)
    BY <1>9 DEF MessagesHandle
  <2>2. v.think # 0 /\ i = v.think
    BY <1>9 DEF InPlace
  <2>3. /\ w.kinds = v.kinds /\ w.told = v.told
        /\ w.text = v.text /\ w.think = 0 /\ w.shut = v.shut /\ w.over = v.over
    BY <1>0, <1>9, AfterThinkingEnd
  <2> HIDE DEF w
  <2>4. IsSeq(e.wire) /\ ClientMatch(v, e.blocks, Reads(c, e))
    BY <1>0, FollowingReads
  <2>5. ClientMatch(w, MessagesEndThinking(e, ev).blocks, Reads(c, MessagesEndThinking(e, ev)))
    BY <1>0, <2>2, <2>3, <2>4, EndThinkingRead
  <2> QED BY <1>2, <2>1, <2>5 DEF w, ReadOn
<1>10. CASE ev.kind = "thinking_signature"
  <2> DEFINE x == [e.blocks[i] EXCEPT !.sig = @ \o ev.delta]
             f == WithBlock(e, i, x)
  <2>0. i \in 1..Len(v.kinds) /\ At(e, i) = i /\ BlockOf(e.blocks[i], i, v.kinds[i])
    BY <1>1, <1>10 DEF Starts
  <2>1. MessagesHandle(e, ev) = WithBlock(e, i, x)
    BY <1>10, <2>0 DEF MessagesHandle, WithBlock
  <2>2. /\ BlockOf(x, i, v.kinds[i]) /\ x.unopened = e.blocks[i].unopened
        /\ x.redacted = e.blocks[i].redacted
    BY <2>0 DEF BlockOf, BlockFields
  <2>3. /\ w.kinds = v.kinds /\ w.told = v.told
        /\ w.text = v.text /\ w.think = v.think /\ w.shut = v.shut /\ w.over = v.over
    BY <1>0, <1>10, AfterLittle
  <2> HIDE DEF x, w
  <2>4. Rebuilt(v, f, e, i, x)
    BY <1>0, <2>0, <2>2, BlockRebuilt
  <2> HIDE DEF f
  <2>5. \A j \in 1..Len(v.kinds) : /\ f.blocks[j].unopened = e.blocks[j].unopened
                                   /\ f.blocks[j].redacted = e.blocks[j].redacted
    <3> TAKE j \in 1..Len(v.kinds)
    <3>1. CASE j = i
      BY <2>2, <2>4, <3>1 DEF Rebuilt
    <3>2. CASE j # i
      BY <2>4, <3>2 DEF Rebuilt
    <3> QED BY <3>1, <3>2
  <2>6. f.wire = e.wire
    BY <2>4 DEF Rebuilt
  <2>7. ReadOn(w, c, f)
    BY <2>3, <2>5, <2>6, NothingRead
  <2> QED BY <1>2, <2>1, <2>7 DEF w, f
<1>11. CASE ev.kind \in {"done", "error"}
  <2>1. MessagesHandle(e, ev) = MessagesFinish(e, ev.kind)
    BY <1>11 DEF MessagesHandle
  <2>2. w.kinds = v.kinds /\ w.over = TRUE /\ w.told = v.told
    BY <1>0, <1>11, AfterIs DEF EventKinds, Starts
  <2> HIDE DEF w
  <2>3. IsSeq(e.wire) /\ Intact(v, Reads(c, e))
    BY <1>0, FollowingReads DEF ClientMatch, Intact
  <2>4. ClientMatch(w, MessagesFinish(e, ev.kind).blocks, Reads(c, MessagesFinish(e, ev.kind)))
    BY <1>0, <1>11, <2>2, <2>3, FinishRead
  <2> QED BY <1>2, <2>1, <2>4 DEF w, ReadOn
<1> QED BY <1>3, <1>4, <1>5, <1>6, <1>7, <1>8, <1>9, <1>10, <1>11 DEF InPlace, EventKinds, Starts
-----------------------------------------------------------------------------
(* Each protocol follows the contract, event by event (append_event).      *)

EncoderMatch(p, v, e) ==
  CASE p = "messages"  -> MsgMatch(v, e)
    [] p = "responses" -> RespMatch(v, e)
    [] p = "chat"      -> ChatMatch(v, e)

LEMMA WireIsApart ==
  ASSUME NEW p \in Protocols, NEW v, NEW e, EncoderMatch(p, v, e)
  PROVE  EncoderMatch(p, v, [e EXCEPT !.wire = <<>>])
<1> DEFINE f == [e EXCEPT !.wire = <<>>]
<1>1. CASE p = "messages"
  <2>1. /\ DOMAIN f = DOMAIN e /\ f.blocks = e.blocks /\ f.finished = e.finished
        /\ f.refused = e.refused /\ MsgMatch(v, e)
    BY <1>1 DEF EncoderMatch, MsgMatch, MsgFields
  <2> HIDE DEF f
  <2>2. MsgMatch(v, f)
    BY <2>1 DEF MsgMatch
  <2> QED BY <1>1, <2>2 DEF EncoderMatch, f
<1>2. CASE p = "responses"
  <2>1. RespMatch(v, e)
    BY <1>2 DEF EncoderMatch
  <2>2. /\ DOMAIN f = DOMAIN e /\ f.items = e.items /\ f.finished = e.finished
        /\ f.refused = e.refused
    BY <2>1 DEF RespMatch, Itemized, RespFields
  <2> HIDE DEF f
  <2>3. RespMatch(v, f)
    BY <2>1, <2>2 DEF RespMatch, Itemized
  <2> QED BY <1>2, <2>3 DEF EncoderMatch, f
<1>3. CASE p = "chat"
  <2>1. ChatMatch(v, e)
    BY <1>3 DEF EncoderMatch
  <2>2. /\ DOMAIN f = DOMAIN e /\ f.texts = e.texts /\ f.thoughts = e.thoughts
        /\ f.calls = e.calls /\ f.finished = e.finished /\ f.refused = e.refused
    BY <2>1 DEF ChatMatch, ChatFields
  <2> HIDE DEF f
  <2>3. ChatMatch(v, f)
    BY <2>1, <2>2 DEF ChatMatch, CallKnown
  <2> QED BY <1>3, <2>3 DEF EncoderMatch, f
<1> QED BY <1>1, <1>2, <1>3 DEF Protocols

(* Each of the three encoders takes every event that is in place           *)
(* (append_event, messages.rs:862, chat.rs:778, responses.rs:1033), and    *)
(* what it has then written and keeps is what the view after the event     *)
(* says.                                                                   *)
THEOREM EncoderFollows ==
  ASSUME NEW p \in Protocols, NEW v, Orderly(v), NEW ev, InPlace(v, ev), ValidEvent(ev),
         NEW e, EncoderMatch(p, v, e)
  PROVE  EncoderMatch(p, After(v, ev), Encode(p, e, ev))
<1>1. CASE p = "messages"
  <2>1. MsgMatch(v, e)
    BY <1>1 DEF EncoderMatch
  <2>2. MsgMatch(After(v, ev), MessagesEncode(e, ev))
    BY <2>1, MessagesFollows
  <2> QED BY <1>1, <2>2 DEF EncoderMatch, Encode
<1>2. CASE p = "responses"
  <2>1. RespMatch(v, e)
    BY <1>2 DEF EncoderMatch
  <2>2. RespMatch(After(v, ev), ResponsesEncode(e, ev))
    BY <2>1, ResponsesFollows
  <2> QED BY <1>2, <2>2 DEF EncoderMatch, Encode
<1>3. CASE p = "chat"
  <2>1. ChatMatch(v, e)
    BY <1>3 DEF EncoderMatch
  <2>2. ChatMatch(After(v, ev), ChatEncode(e, ev))
    BY <2>1, ChatFollows
  <2> QED BY <1>3, <2>2 DEF EncoderMatch, Encode
<1> QED BY <1>1, <1>2, <1>3 DEF Protocols

LEMMA NotRefused ==
  ASSUME NEW p \in Protocols, NEW v, NEW e, EncoderMatch(p, v, e)
  PROVE  e.refused = FALSE
BY DEF Protocols, EncoderMatch, MsgMatch, RespMatch, ChatMatch

(* A pair of an encoder and its client: the client of the Messages stream  *)
(* has read what the view tells.                                           *)
Match(p, v, pair) ==
  /\ pair = [e |-> pair.e, c |-> pair.c]
  /\ EncoderMatch(p, v, pair.e)
  /\ p = "messages" => ClientMatch(v, pair.e.blocks, pair.c)

LEMMA AppendMatches ==
  ASSUME NEW p \in Protocols, NEW v, NEW w, NEW ev, NEW pair, EncoderMatch(p, v, pair.e),
         EncoderMatch(p, w, Encode(p, [pair.e EXCEPT !.wire = <<>>], ev)),
         p = "messages" => ReadOn(w, pair.c, Encode(p, [pair.e EXCEPT !.wire = <<>>], ev))
  PROVE  Match(p, w, AppendEvent(pair, p, ev))
<1> DEFINE f == [pair.e EXCEPT !.wire = <<>>]
           e == Encode(p, f, ev)
           last == [e EXCEPT !.wire = <<>>]
           c == WireRead(p, pair.c, e.wire)[Len(e.wire)]
<1>1. EncoderMatch(p, v, pair.e) /\ EncoderMatch(p, w, e)
  OBVIOUS
<1>3. EncoderMatch(p, w, last)
  <2> HIDE DEF e
  <2> QED BY <1>1, WireIsApart
<1>4. pair.e.refused = FALSE /\ e.refused = FALSE
  <2> HIDE DEF e
  <2> QED BY <1>1, NotRefused
<1>5. AppendEvent(pair, p, ev) = [e |-> last, c |-> c]
  BY <1>4 DEF AppendEvent
<1>6. ASSUME p = "messages" PROVE ClientMatch(w, last.blocks, c)
  <2>1. ReadOn(w, pair.c, e)
    BY <1>6
  <2> HIDE DEF e
  <2>2. last.blocks = e.blocks
    BY <1>1, <1>6 DEF EncoderMatch, MsgMatch, MsgFields
  <2> QED BY <1>6, <2>1, <2>2 DEF ReadOn, Reads
<1> HIDE DEF last, c, e, f
<1>7. Match(p, w, [e |-> last, c |-> c])
  BY <1>3, <1>6 DEF Match
<1> QED BY <1>5, <1>7

LEMMA AppendEventFollows ==
  ASSUME NEW p \in Protocols, NEW v, Orderly(v), NEW ev, InPlace(v, ev), ValidEvent(ev),
         NEW pair, Match(p, v, pair)
  PROVE  Match(p, After(v, ev), AppendEvent(pair, p, ev))
<1> DEFINE f == [pair.e EXCEPT !.wire = <<>>]
           w == After(v, ev)
<1>1. EncoderMatch(p, v, f) /\ EncoderMatch(p, v, pair.e)
  BY WireIsApart DEF Match
<1>2. EncoderMatch(p, w, Encode(p, f, ev))
  <2> HIDE DEF f
  <2> QED BY <1>1, EncoderFollows
<1>3. ASSUME p = "messages" PROVE ReadOn(w, pair.c, Encode(p, f, ev))
  <2>1. f.blocks = pair.e.blocks /\ f.wire = <<>>
    BY <1>1, <1>3 DEF EncoderMatch, MsgMatch, MsgFields
  <2> HIDE DEF f, w
  <2>2. Following(v, pair.c, f)
    BY <1>1, <1>3, <2>1 DEF Match, EncoderMatch, Following, InPlace, MsgMatch
  <2>3. Encode(p, f, ev) = MessagesEncode(f, ev)
    BY <1>3 DEF Encode
  <2> QED BY <2>2, <2>3, ClientFollows DEF w
<1> HIDE DEF w
<1> QED BY <1>1, <1>2, <1>3, AppendMatches DEF w

(* One event more is one step more.                                        *)
LEMMA RelayStep ==
  ASSUME NEW p, NEW e, NEW c, NEW out, IsSeq(out), NEW ev
  PROVE  Relay(p, e, c, Append(out, ev)) = AppendEvent(Relay(p, e, c, out), p, ev)
<1> DEFINE m == Len(out)
           longer == Append(out, ev)
           g == Relayed(p, e, c, out)
           h == Relayed(p, e, c, longer)
<1>1. /\ m \in Nat /\ Len(longer) = m + 1 /\ longer[m + 1] = ev
      /\ \A k \in 1..m : longer[k] = out[k]
  BY SeqAppend, SeqFacts
<1> HIDE DEF longer
<1>2. IsRelaying(g, p, e, c, out, m) /\ IsRelaying(h, p, e, c, longer, m + 1)
  <2>1. Len(longer) \in Nat
    BY <1>1
  <2>2. IsRelaying(h, p, e, c, longer, Len(longer))
    BY <2>1, RelayingSteps
  <2>3. IsRelaying(g, p, e, c, out, m)
    BY <1>1, RelayingSteps
  <2> HIDE DEF g, h
  <2> QED BY <1>1, <2>2, <2>3
<1> HIDE DEF g, h
<1> DEFINE T == {k \in 0..m : g[k] = h[k]}
<1>3. 0 \in T
  BY <1>1, <1>2 DEF IsRelaying
<1>4. \A k \in 1..m : k - 1 \in T => k \in T
  <2> TAKE k \in 1..m
  <2>1. k \in 1..(m + 1) /\ k \in 0..m
    BY <1>1
  <2>2. g[k] = AppendEvent(g[k - 1], p, out[k]) /\ h[k] = AppendEvent(h[k - 1], p, longer[k])
    BY <1>2, <2>1 DEF IsRelaying
  <2>3. longer[k] = out[k]
    BY <1>1
  <2> QED BY <2>1, <2>2, <2>3
<1> HIDE DEF T
<1>5. m \in T
  <2>1. \A k \in 0..m : k \in T
    BY <1>1, <1>3, <1>4, StepByStep
  <2> QED BY <1>1, <2>1
<1>6. h[m + 1] = AppendEvent(g[m], p, ev)
  <2>1. m + 1 \in 1..(m + 1) /\ (m + 1) - 1 = m
    BY <1>1
  <2>2. h[m + 1] = AppendEvent(h[(m + 1) - 1], p, longer[m + 1])
    BY <1>2, <2>1 DEF IsRelaying
  <2>3. g[m] = h[m]
    BY <1>5 DEF T
  <2> QED BY <1>1, <2>1, <2>2, <2>3
<1> QED BY <1>1, <1>6 DEF Relay, g, h, longer

LEMMA RelayNothing ==
  ASSUME NEW p, NEW e, NEW c
  PROVE  Relay(p, e, c, <<>>) = [e |-> e, c |-> c]
<1>1. Len(<<>>) = 0 /\ 0 \in Nat
  OBVIOUS
<1>2. IsRelaying(Relayed(p, e, c, <<>>), p, e, c, <<>>, Len(<<>>))
  BY <1>1, RelayingSteps
<1> QED BY <1>1, <1>2 DEF IsRelaying, Relay

(* The events of a step, told from encoders `E` and clients `C`.           *)
Matched(E, C, v, out) ==
  /\ IsSeq(out)
  /\ \A p \in Protocols : Match(p, v, Relay(p, E[p], C[p], out))

LEMMA Telling ==
  ASSUME NEW E, NEW C, NEW v, Orderly(v), NEW out, Matched(E, C, v, out),
         NEW ev, InPlace(v, ev), ValidEvent(ev)
  PROVE  Matched(E, C, After(v, ev), Append(out, ev)) /\ Orderly(After(v, ev))
<1>1. IsSeq(Append(out, ev))
  BY SeqAppend DEF Matched
<1>2. ASSUME NEW p \in Protocols
      PROVE  Match(p, After(v, ev), Relay(p, E[p], C[p], Append(out, ev)))
  <2>1. Match(p, v, Relay(p, E[p], C[p], out)) /\ IsSeq(out)
    BY DEF Matched
  <2>2. Match(p, After(v, ev), AppendEvent(Relay(p, E[p], C[p], out), p, ev))
    BY <2>1, AppendEventFollows
  <2>3. Relay(p, E[p], C[p], Append(out, ev)) = AppendEvent(Relay(p, E[p], C[p], out), p, ev)
    BY <2>1, RelayStep
  <2> QED BY <2>2, <2>3
<1> QED BY <1>1, <1>2, AfterIsOrderly DEF Matched

=============================================================================
