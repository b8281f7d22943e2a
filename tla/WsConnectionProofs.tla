-------------------------- MODULE WsConnectionProofs --------------------------
(***************************************************************************)
(* What holds of WsConnection for a queue and a budget of any size and any *)
(* number of messages.                                                     *)
(*                                                                         *)
(* The close code: the reader marks an overflow before it cancels the      *)
(* connection and is past both when it leaves, so that a turn cut by the   *)
(* connection finds the mark or there never is one (OverflowInv).          *)
(* The answers: messages are numbered as they are read and stay in that    *)
(* order on their way to the loop (InOrder), and the loop owes an answer   *)
(* to the message in its hand only (DebtInv).                              *)
(* The budget: what has passed the limit is counted with the queue as it   *)
(* was then (BudgetInv). The conversation: it is of completed turns, and a *)
(* staged request is fit to become it (TalkInv).                           *)
(***************************************************************************)
EXTENDS WsConnection, FiniteSetTheorems, SequenceTheorems, TLAPS

(* The fields of the records.                                              *)
Shape ==
  /\ reader = [at |-> reader.at, msg |-> reader.msg]
  /\ turn = [n |-> turn.n, phase |-> turn.phase, cancelled |-> turn.cancelled,
             terminal |-> turn.terminal, output |-> turn.output, why |-> turn.why,
             demanded |-> turn.demanded, plain |-> turn.plain, said |-> turn.said]

(* Once the connection is cancelled the reader has no mark left to set;    *)
(* what the loop concludes from the mark after a cut is final.             *)
OverflowInv ==
  /\ Shape
  /\ gone => reader.at \in {"leaving", "gone"}
  /\ turn.why = "gone" => gone
  /\ loop.at = "settling" /\ turn.why = "gone" => ~exceeded
  /\ ended = "silent" => loop.at = "ended"
  /\ ended = "silent" /\ turn.why = "gone" => ~exceeded

LEMMA OverflowInit == Init => OverflowInv
BY DEF Init, OverflowInv, Shape, NoTurn

LEMMA OverflowNext == OverflowInv /\ [Next]_vars => OverflowInv'
<1> SUFFICES ASSUME OverflowInv, [Next]_vars PROVE OverflowInv'
  OBVIOUS
<1> USE DEF OverflowInv, Shape
<1>1. CASE ReadsCancel
  BY <1>1 DEF ReadsCancel, signalVars
<1>2. ASSUME NEW k \in Kinds, Reads(k) PROVE OverflowInv'
  BY <1>2 DEF Reads, signalVars, loopVars
<1>3. CASE ReadEnds
  BY <1>3 DEF ReadEnds, loopVars
<1>4. CASE ReaderSends \/ ReaderFindsNobody
  BY <1>4 DEF ReaderSends, ReaderFindsNobody, signalVars, loopVars
<1>5. CASE Overflows
  <2>1. CASE reader.at = "exceeding" /\ Marks /\ reader' = [reader EXCEPT !.at = "exceeded"]
    BY <1>5, <2>1 DEF Overflows, Marks, loopVars
  <2>2. CASE /\ reader.at = "exceeded" /\ CancelsConnection
             /\ reader' = [at |-> "leaving", msg |-> Signal("queue exceeded")]
    BY <1>5, <2>2 DEF Overflows, CancelsConnection, loopVars
  <2> QED BY <1>5, <2>1, <2>2 DEF Overflows
<1>6. CASE ReaderLeaves
  BY <1>6 DEF ReaderLeaves, signalVars, loopVars
<1>7. CASE Takes
  BY <1>7 DEF Takes, readerVars, signalVars
<1>18. CASE TakesSignal
  BY <1>18 DEF TakesSignal, readerVars, signalVars, End, LoopAt
<1>19. CASE HeartbeatFails
  BY <1>19 DEF HeartbeatFails, readerVars, signalVars, End, LoopAt
<1>8. CASE HandlesControl
  <2>1. CASE LoopAt("recv") /\ UNCHANGED ended
    BY <1>8, <2>1 DEF HandlesControl, readerVars, signalVars, LoopAt
  <2>2. CASE End("close frame")
    BY <1>8, <2>2 DEF HandlesControl, readerVars, signalVars, End, LoopAt
  <2> QED BY <1>8, <2>1, <2>2 DEF HandlesControl
<1>20. CASE RefusesCancel
  BY <1>20 DEF RefusesCancel, Tells, readerVars, signalVars, End, LoopAt
<1>9. CASE HandlesText
  BY <1>9 DEF HandlesText, RefusesText, Prewarms, StartsTurn, Between, NoTurn, Tells,
              readerVars, signalVars, End, LoopAt
<1>10. CASE Opens \/ Streams
  BY <1>10 DEF Opens, Streams, During, readerVars, signalVars
<1>11. ASSUME NEW t, NEW out, Concludes(t, out) PROVE OverflowInv'
  BY <1>11 DEF Concludes, During, readerVars, signalVars
<1>12. CASE Declined
  <2>1. PICK terminal \in {"failed", "draining"} : Returns(terminal, {}, "end")
    BY <1>12 DEF Declined
  <2> QED BY <1>12, <2>1 DEF Declined, Returns, During, readerVars, signalVars, LoopAt
<1>22. CASE BodyEnds
  BY <1>22 DEF BodyEnds, Returns, During, readerVars, signalVars, LoopAt
<1>21. CASE Breaks
  BY <1>21 DEF Breaks, Returns, During, readerVars, signalVars, LoopAt
<1>13. CASE Cut
  BY <1>13 DEF Cut, Returns, During, readerVars, signalVars, LoopAt
<1>14. CASE Clears \/ Checks
  BY <1>14 DEF Clears, Checks, readerVars, signalVars, End, LoopAt
<1>15. CASE SettlesUnanswered
  BY <1>15 DEF SettlesUnanswered, Between, NoTurn, Tells, readerVars, signalVars, End, LoopAt
<1>16. CASE SettlesCompleted \/ SettlesFailed \/ SettlesDraining
  BY <1>16 DEF SettlesCompleted, SettlesFailed, SettlesDraining, Between, NoTurn,
               readerVars, signalVars, End, LoopAt
<1>17. CASE UNCHANGED vars
  BY <1>17 DEF vars, readerVars, signalVars, loopVars
<1> QED BY <1>1, <1>2, <1>3, <1>4, <1>5, <1>6, <1>7, <1>8, <1>9, <1>10, <1>11, <1>12,
           <1>13, <1>14, <1>15, <1>16, <1>17,
           <1>18, <1>19, <1>20, <1>21, <1>22
        DEF Next, Hearing, Looping, Settling, Answering

(* A client whose queue went over the limit (websocket.rs:246-260, 362) is *)
(* closed with its code 1009: no turn that was cut ends the connection in  *)
(* silence while the mark is set or about to be.                           *)
THEOREM OverflowsAreTold == Spec => []OverflowIsTold
<1>1. OverflowInv => OverflowIsTold
  BY DEF OverflowInv, OverflowIsTold
<1> QED BY <1>1, OverflowInit, OverflowNext, PTL DEF Spec

-----------------------------------------------------------------------------
(* The numbers of the messages *)

Reply == [n : Nat, what : {"completed", "error"}]

Numbers ==
  /\ read \in Nat /\ owed \subseteq Nat
  /\ chan \in Seq(Message) /\ reader.msg \in Message /\ loop.msg \in Message
  /\ told \in Seq(Reply)

Numbered(m) == m.kind \in Kinds
HasMessage == reader.at \in {"sending", "exceeding", "exceeded"}
Past == owed \cup {loop.msg.n}

(* On their way from the reader through the queue to the loop the messages *)
(* keep the order of their numbers.                                        *)
InOrder ==
  /\ \A i, j \in DOMAIN chan :
       i < j /\ Numbered(chan[i]) /\ Numbered(chan[j]) => chan[i].n < chan[j].n
  /\ \A i \in DOMAIN chan : Numbered(chan[i]) =>
       chan[i].n <= read /\ (HasMessage => chan[i].n < read)
       /\ \A p \in Past : p < chan[i].n
  /\ HasMessage => Numbered(reader.msg) /\ reader.msg.n = read
                    /\ \A p \in Past : p < read
  /\ reader.at = "leaving" => ~Numbered(reader.msg)
  /\ \A p \in Past : p <= read

OrderInv == Shape /\ Numbers /\ InOrder

LEMMA MessageNumber == \A m \in Message : m.n \in Nat
BY SessionAssumption DEF Message, Ids

LEMMA QueueNumbers ==
  ASSUME Numbers
  PROVE  \A i \in DOMAIN chan : chan[i] \in Message /\ chan[i].n \in Nat
BY MessageNumber DEF Numbers

LEMMA OrderInit == Init => OrderInv
<1> SUFFICES ASSUME Init PROVE OrderInv
  OBVIOUS
<1>1. Nothing \in Message
  BY SessionAssumption DEF Nothing, Message, Kinds, Ids
<1> QED BY <1>1 DEF Init, OrderInv, Shape, NoTurn, Numbers, InOrder, Past, HasMessage, Nothing

(* A step of the loop that takes no message.                               *)
LEMMA LoopKeepsOrder ==
  ASSUME OrderInv, Shape', UNCHANGED <<reader, read, chan, owed>>,
         loop'.msg \in {loop.msg, Nothing}, told' \in Seq(Reply)
  PROVE  OrderInv'
<1>1. Nothing \in Message /\ Nothing.n = 0
  BY SessionAssumption DEF Nothing, Message, Kinds, Ids
<1>2. Numbers'
  BY <1>1 DEF OrderInv, Numbers
<1>3. \A i \in DOMAIN chan : chan[i].n \in Nat
  BY QueueNumbers DEF OrderInv
<1>4. \A p \in Past' : p \in Past \/ p = 0
  BY <1>1 DEF Past
<1>5. loop.msg.n \in Nat /\ loop.msg.n \in Past
  BY MessageNumber DEF OrderInv, Numbers, Past
<1>6. \A i \in DOMAIN chan : Numbered(chan[i]) => 0 < chan[i].n
  BY <1>3, <1>5 DEF OrderInv, InOrder
<1>7. read \in Nat /\ (HasMessage => 0 < read)
  BY <1>5 DEF OrderInv, Numbers, InOrder
<1>8. HasMessage' = HasMessage /\ chan' = chan /\ read' = read /\ reader' = reader
  BY DEF HasMessage
<1>9. \A p \in Past' : /\ p <= read
                       /\ HasMessage => p < read
                       /\ \A i \in DOMAIN chan : Numbered(chan[i]) => p < chan[i].n
  BY <1>4, <1>6, <1>7 DEF OrderInv, InOrder
<1>10. InOrder'
  BY <1>8, <1>9 DEF OrderInv, InOrder, Numbered
<1> QED BY <1>2, <1>10 DEF OrderInv

(* The reader queues what it has in its hand.                              *)
LEMMA QueueGrows ==
  ASSUME OrderInv, reader.at \in {"sending", "leaving"}, chan' = Append(chan, reader.msg),
         NEW place \in {"reading", "gone"}, reader' = [at |-> place, msg |-> Nothing],
         UNCHANGED <<read, owed, told, loop, turn>>
  PROVE  OrderInv'
<1>1. Nothing \in Message
  BY SessionAssumption DEF Nothing, Message, Kinds, Ids
<1>2. Shape' /\ Numbers'
  BY <1>1 DEF OrderInv, Shape, Numbers
<1>3. /\ DOMAIN chan' = DOMAIN chan \cup {Len(chan) + 1} /\ Len(chan) \in Nat
      /\ DOMAIN chan = 1 .. Len(chan)
      /\ \A i \in DOMAIN chan : chan'[i] = chan[i]
      /\ chan'[Len(chan) + 1] = reader.msg
  BY DEF OrderInv, Numbers
<1>4. Past' = Past /\ ~HasMessage'
  BY DEF Past, HasMessage
<1>5. \A i \in DOMAIN chan' : i < Len(chan) + 1 => i \in DOMAIN chan
  BY <1>3
<1>6. Numbered(reader.msg) => /\ HasMessage /\ reader.msg.n = read
                              /\ \A p \in Past : p < read
                              /\ \A i \in DOMAIN chan : Numbered(chan[i]) => chan[i].n < read
  BY DEF OrderInv, InOrder, HasMessage
<1>7. \A i, j \in DOMAIN chan' :
        i < j /\ Numbered(chan'[i]) /\ Numbered(chan'[j]) => chan'[i].n < chan'[j].n
  <2> SUFFICES ASSUME NEW i \in DOMAIN chan', NEW j \in DOMAIN chan', i < j,
                      Numbered(chan'[i]), Numbered(chan'[j])
               PROVE  chan'[i].n < chan'[j].n
    OBVIOUS
  <2>1. i \in DOMAIN chan
    BY <1>3
  <2>2. CASE j \in DOMAIN chan
    BY <2>1, <2>2, <1>3 DEF OrderInv, InOrder
  <2>3. CASE j = Len(chan) + 1
    BY <2>1, <2>3, <1>3, <1>6
  <2> QED BY <2>2, <2>3, <1>3
<1>8. \A i \in DOMAIN chan' : Numbered(chan'[i]) =>
        chan'[i].n <= read /\ \A p \in Past : p < chan'[i].n
  <2> SUFFICES ASSUME NEW i \in DOMAIN chan', Numbered(chan'[i])
               PROVE  chan'[i].n <= read /\ \A p \in Past : p < chan'[i].n
    OBVIOUS
  <2>1. CASE i \in DOMAIN chan
    BY <2>1, <1>3 DEF OrderInv, InOrder
  <2>2. CASE i = Len(chan) + 1
    BY <2>2, <1>3, <1>6 DEF OrderInv, Numbers
  <2> QED BY <2>1, <2>2, <1>3
<1>9. InOrder'
  BY <1>4, <1>7, <1>8 DEF OrderInv, InOrder, Numbered
<1> QED BY <1>2, <1>9 DEF OrderInv

(* The loop takes the first message of the queue.                          *)
LEMMA QueueShrinks ==
  ASSUME OrderInv, chan # <<>>, chan' = Tail(chan),
         UNCHANGED <<reader, read, told, turn>>,
         owed' \subseteq owed \cup {Head(chan).n},
         loop'.msg \in {loop.msg, Head(chan)},
         Numbered(Head(chan)) \/ (owed' = owed /\ loop'.msg = loop.msg)
  PROVE  OrderInv'
<1>1. /\ Head(chan) = chan[1] /\ 1 \in DOMAIN chan /\ Len(chan) \in Nat
      /\ chan[1] \in Message /\ chan[1].n \in Nat
      /\ \A i \in DOMAIN chan' : i + 1 \in DOMAIN chan /\ chan'[i] = chan[i + 1]
                                 /\ i \in Nat /\ i > 0
  BY QueueNumbers DEF OrderInv, Numbers
<1>2. Shape' /\ Numbers'
  BY <1>1 DEF OrderInv, Shape, Numbers
<1>3. \A p \in Past' : p \in Past \/ (Numbered(chan[1]) /\ p = chan[1].n)
  BY <1>1 DEF Past
<1>4. \A p \in Past' : /\ p <= read
                       /\ HasMessage => p < read
                       /\ \A i \in DOMAIN chan' : Numbered(chan'[i]) => p < chan'[i].n
  <2> SUFFICES ASSUME NEW p \in Past'
               PROVE  /\ p <= read /\ (HasMessage => p < read)
                      /\ \A i \in DOMAIN chan' : Numbered(chan'[i]) => p < chan'[i].n
    OBVIOUS
  <2>1. CASE p \in Past
    BY <2>1, <1>1 DEF OrderInv, InOrder
  <2>2. CASE Numbered(chan[1]) /\ p = chan[1].n
    BY <2>2, <1>1 DEF OrderInv, InOrder
  <2> QED BY <2>1, <2>2, <1>3
<1>5. /\ \A i, j \in DOMAIN chan' :
           i < j /\ Numbered(chan'[i]) /\ Numbered(chan'[j]) => chan'[i].n < chan'[j].n
      /\ \A i \in DOMAIN chan' : Numbered(chan'[i]) =>
           chan'[i].n <= read /\ (HasMessage => chan'[i].n < read)
  BY <1>1 DEF OrderInv, InOrder
<1>6. HasMessage' = HasMessage /\ read' = read /\ reader' = reader
  BY DEF HasMessage
<1>7. InOrder'
  BY <1>4, <1>5, <1>6 DEF OrderInv, InOrder, Numbered
<1> QED BY <1>2, <1>7 DEF OrderInv

(* The reader reads one more.                                              *)
LEMMA ReaderReads ==
  ASSUME OrderInv, read < MaxMessages, read' = read + 1,
         NEW k \in Kinds, NEW place \in {"sending", "exceeding"},
         reader' = [at |-> place, msg |-> [kind |-> k, n |-> read + 1]],
         UNCHANGED <<chan, owed, told, loop, turn>>
  PROVE  OrderInv'
<1>1. [kind |-> k, n |-> read + 1] \in Message /\ read + 1 \in Nat
  BY SessionAssumption DEF OrderInv, Numbers, Message, Ids
<1>2. Shape' /\ Numbers'
  BY <1>1 DEF OrderInv, Shape, Numbers
<1>3. Past' = Past /\ HasMessage' /\ Numbered(reader'.msg) /\ reader'.msg.n = read + 1
      /\ reader'.at # "leaving"
  BY DEF Past, HasMessage, Numbered
<1>4. \A p \in Past : p \in Nat /\ p <= read
  BY MessageNumber DEF OrderInv, Numbers, InOrder, Past
<1>5. \A i \in DOMAIN chan : chan[i].n \in Nat
  BY QueueNumbers DEF OrderInv
<1>6. read \in Nat
  BY DEF OrderInv, Numbers
<1>7. InOrder'
  BY <1>3, <1>4, <1>5, <1>6 DEF OrderInv, InOrder, Numbered
<1> QED BY <1>2, <1>7 DEF OrderInv

(* A step of the reader that moves no message, or gives one up.            *)
LEMMA ReaderMoves ==
  ASSUME OrderInv, Shape', UNCHANGED <<chan, owed, told, loop>>, reader'.msg \in Message,
         \/ read' = read /\ reader'.at = "leaving" /\ ~Numbered(reader'.msg)
         \/ read' = read /\ reader'.at = "gone"
         \/ read' = read /\ reader'.at = "exceeded" /\ reader.at = "exceeding"
            /\ reader'.msg = reader.msg
         \/ read' = read + 1 /\ reader' = reader /\ reader.at = "reading"
  PROVE  OrderInv'
<1>1. read \in Nat /\ read' \in Nat /\ read <= read'
  BY DEF OrderInv, Numbers
<1>2. Numbers'
  BY <1>1 DEF OrderInv, Numbers
<1>3. Past' = Past
  BY DEF Past
<1>4. \A p \in Past : p \in Nat /\ p <= read'
  BY <1>1, MessageNumber DEF OrderInv, Numbers, InOrder, Past
<1>5. \A i \in DOMAIN chan : chan[i].n \in Nat /\ (Numbered(chan[i]) => chan[i].n <= read')
  BY <1>1, QueueNumbers DEF OrderInv, InOrder
<1>6. HasMessage' => /\ HasMessage /\ read' = read /\ reader'.msg = reader.msg
  BY DEF HasMessage
<1>7. reader'.at = "leaving" => ~Numbered(reader'.msg)
  BY DEF OrderInv, InOrder
<1>8. InOrder'
  BY <1>3, <1>4, <1>5, <1>6, <1>7 DEF OrderInv, InOrder, Numbered
<1> QED BY <1>2, <1>8 DEF OrderInv

-----------------------------------------------------------------------------
(* The debt of the loop *)

(* The message in the loop's hand calls for an answer that is not given.   *)
DueNow == \/ loop.at = "hand" /\ loop.msg.kind \in {"text", "cancel"}
          \/ TurnRuns /\ turn.terminal = "none"
Due == IF DueNow THEN {loop.msg.n} ELSE {}
Broken == TurnRuns /\ turn.terminal = "broken"

(* A turn is of the message it was started for, and has no terminal event  *)
(* before it streams; a broken one is never settled.                       *)
TurnOK ==
  /\ TurnRuns => turn.n = loop.msg.n
  /\ loop.at = "turn" /\ turn.phase \in {"fresh", "opening"} => turn.terminal = "none"
  /\ loop.at = "settling" => turn.terminal # "broken"

DebtInv ==
  /\ TurnOK
  /\ \A i, j \in DOMAIN told : i < j => told[i].n < told[j].n
  /\ Answered \subseteq owed
  /\ loop.at # "ended" /\ ~Broken => owed = Answered \cup Due
  /\ DueNow => \A a \in Answered : a < loop.msg.n

LEMMA DebtInit == Init => DebtInv
BY DEF Init, DebtInv, TurnOK, DueNow, Due, Broken, TurnRuns, Answered, Nothing

(* Nothing is answered, and what is due stays due until the turn breaks or *)
(* the loop ends.                                                          *)
LEMMA DebtKept ==
  ASSUME DebtInv, TurnOK', UNCHANGED <<told, owed>>,
         DueNow' => DueNow /\ loop'.msg.n = loop.msg.n,
         loop'.at = "ended" \/ Broken' \/ (loop.at # "ended" /\ ~Broken /\ (DueNow => DueNow'))
  PROVE  DebtInv'
<1>1. Answered' = Answered
  BY DEF Answered
<1>2. ~(loop'.at = "ended" \/ Broken') => Due' = Due
  BY DEF Due
<1> QED BY <1>1, <1>2 DEF DebtInv

(* What was due is answered.                                               *)
LEMMA DebtPaid ==
  ASSUME OrderInv, DebtInv, DueNow, TurnOK', owed' = owed, ~DueNow',
         NEW w \in {"completed", "error"},
         told' = Append(told, [n |-> loop.msg.n, what |-> w])
  PROVE  DebtInv' /\ told' \in Seq(Reply)
<1>1. told \in Seq(Reply) /\ loop.msg.n \in Nat
  BY MessageNumber DEF OrderInv, Numbers
<1>2. [n |-> loop.msg.n, what |-> w] \in Reply
  BY <1>1 DEF Reply
<1>3. /\ told' \in Seq(Reply) /\ Len(told) \in Nat /\ DOMAIN told = 1 .. Len(told)
      /\ DOMAIN told' = DOMAIN told \cup {Len(told) + 1}
      /\ \A i \in DOMAIN told : told'[i] = told[i]
      /\ told'[Len(told) + 1].n = loop.msg.n
  BY <1>1, <1>2
<1>4. Answered' = Answered \cup {loop.msg.n}
  BY <1>3 DEF Answered
<1>5. owed = Answered \cup {loop.msg.n}
  BY DEF DebtInv, DueNow, Due, Broken, TurnRuns
<1>6. \A i \in DOMAIN told : told[i].n < loop.msg.n
  BY DEF DebtInv, Answered
<1>7. \A i, j \in DOMAIN told' : i < j => told'[i].n < told'[j].n
  <2> SUFFICES ASSUME NEW i \in DOMAIN told', NEW j \in DOMAIN told', i < j
               PROVE  told'[i].n < told'[j].n
    OBVIOUS
  <2>1. i \in DOMAIN told
    BY <1>3
  <2>2. CASE j \in DOMAIN told
    BY <2>1, <2>2, <1>3 DEF DebtInv
  <2>3. CASE j = Len(told) + 1
    BY <2>1, <2>3, <1>3, <1>6
  <2> QED BY <2>2, <2>3, <1>3
<1>8. owed' = Answered' /\ Due' = {}
  BY <1>4, <1>5 DEF Due
<1> QED BY <1>3, <1>7, <1>8 DEF DebtInv

AnswerInv == OrderInv /\ DebtInv

(* A step of the reader changes neither the debt nor the turn.             *)
LEMMA ReaderStep ==
  ASSUME AnswerInv,
         ReadsCancel \/ (\E k \in Kinds : Reads(k)) \/ ReadEnds \/ Hearing
  PROVE  AnswerInv'
<1>1. /\ UNCHANGED <<told, owed, loop>> /\ Shape'
      /\ turn'.n = turn.n /\ turn'.phase = turn.phase /\ turn'.terminal = turn.terminal
  BY DEF AnswerInv, OrderInv, Shape, ReadsCancel, Reads, ReadEnds, Hearing, ReaderSends,
         ReaderFindsNobody, Overflows, ReaderLeaves, loopVars
<1>2. DebtInv'
  BY <1>1 DEF AnswerInv, DebtInv, TurnOK, DueNow, Due, Broken, TurnRuns, Answered
<1> SUFFICES OrderInv'
  BY <1>2 DEF AnswerInv
<1>3. Nothing \in Message /\ \A k \in Signals : Signal(k) \in Message /\ ~Numbered(Signal(k))
  BY SessionAssumption DEF Nothing, Signal, Signals, Numbered, Message, Kinds, Ids
<1>4. reader.msg \in Message /\ reader = [at |-> reader.at, msg |-> reader.msg]
  BY DEF AnswerInv, OrderInv, Numbers, Shape
<1>5. CASE ReadsCancel
  BY <1>1, <1>4, <1>5, ReaderMoves DEF AnswerInv, ReadsCancel, queueVars
<1>6. ASSUME NEW k \in Kinds, Reads(k) PROVE OrderInv'
  <2>1. PICK place \in {"sending", "exceeding"} :
          reader' = [at |-> place, msg |-> [kind |-> k, n |-> read + 1]]
    BY <1>6 DEF Reads
  <2> QED BY <1>6, <2>1, ReaderReads DEF AnswerInv, Reads, loopVars
<1>7. CASE ReadEnds
  <2>1. /\ reader' = [at |-> "leaving", msg |-> Signal("read closed")]
        /\ UNCHANGED <<read, chan>>
    BY <1>7 DEF ReadEnds, queueVars
  <2>2. reader'.at = "leaving" /\ reader'.msg \in Message /\ ~Numbered(reader'.msg)
    BY <2>1, <1>3 DEF Signals
  <2> QED BY <1>1, <2>1, <2>2, ReaderMoves DEF AnswerInv
<1>8. CASE ReaderSends
  BY <1>8, QueueGrows DEF AnswerInv, ReaderSends, loopVars
<1>9. CASE ReaderFindsNobody
  BY <1>1, <1>3, <1>9, ReaderMoves DEF AnswerInv, ReaderFindsNobody
<1>10. CASE Overflows
  <2>1. CASE reader.at = "exceeding" /\ reader' = [reader EXCEPT !.at = "exceeded"]
    <3>1. reader'.at = "exceeded" /\ reader'.msg = reader.msg
      BY <2>1, <1>4
    <3> QED BY <1>1, <1>4, <1>10, <2>1, <3>1, ReaderMoves DEF AnswerInv, Overflows, queueVars
  <2>2. CASE reader' = [at |-> "leaving", msg |-> Signal("queue exceeded")]
    <3>1. reader'.at = "leaving" /\ reader'.msg \in Message /\ ~Numbered(reader'.msg)
      BY <2>2, <1>3 DEF Signals
    <3> QED BY <1>1, <1>10, <3>1, ReaderMoves DEF AnswerInv, Overflows, queueVars
  <2> QED BY <1>10, <2>1, <2>2 DEF Overflows
<1>11. CASE ReaderLeaves
  <2>1. CASE loop.at = "ended"
    BY <1>1, <1>3, <1>11, <2>1, ReaderMoves DEF AnswerInv, ReaderLeaves
  <2>2. CASE loop.at # "ended"
    BY <1>11, <2>2, QueueGrows DEF AnswerInv, ReaderLeaves, loopVars
  <2> QED BY <2>1, <2>2
<1> QED BY <1>5, <1>6, <1>7, <1>8, <1>9, <1>10, <1>11 DEF Hearing

(* The loop between turns. The next message is larger than all before it.  *)
LEMMA TakesStep == AnswerInv /\ Takes => AnswerInv'
<1> SUFFICES ASSUME AnswerInv, Takes PROVE AnswerInv'
  OBVIOUS
<1> DEFINE m == Head(chan)
<1>1. /\ chan # <<>> /\ Numbered(m) /\ loop.at = "recv"
      /\ chan' = Tail(chan) /\ loop' = [at |-> "hand", msg |-> m]
      /\ UNCHANGED <<reader, read, told, turn>>
      /\ owed' = IF m.kind \in {"text", "cancel"} THEN owed \cup {m.n} ELSE owed
  BY DEF Takes, Numbered, readerVars
<1>2. OrderInv'
  BY <1>1, QueueShrinks DEF AnswerInv
<1>3. \A p \in owed : p < m.n
  BY <1>1 DEF AnswerInv, OrderInv, Numbers, InOrder, Past
<1>4. owed = Answered
  BY <1>1 DEF AnswerInv, DebtInv, DueNow, Due, Broken, TurnRuns
<1>5. /\ Answered' = Answered /\ ~Broken' /\ TurnOK'
      /\ DueNow' <=> m.kind \in {"text", "cancel"}
      /\ loop'.msg.n = m.n
  BY <1>1 DEF Answered, Broken, TurnRuns, TurnOK, DueNow
<1> HIDE DEF m
<1>6. DebtInv'
  BY <1>1, <1>3, <1>4, <1>5 DEF AnswerInv, DebtInv, Due
<1> QED BY <1>2, <1>6 DEF AnswerInv

(* A step of the loop that answers nothing and takes nothing.              *)
LEMMA QuietStep ==
  ASSUME AnswerInv, Shape', TurnOK', UNCHANGED <<reader, read, chan, told, owed>>,
         loop'.msg \in {loop.msg, Nothing},
         DueNow' => DueNow /\ loop'.msg.n = loop.msg.n,
         loop'.at = "ended" \/ Broken' \/ (loop.at # "ended" /\ ~Broken /\ (DueNow => DueNow'))
  PROVE  AnswerInv'
BY LoopKeepsOrder, DebtKept DEF AnswerInv, OrderInv, Numbers

(* One that gives the answer that is due.                                  *)
LEMMA AnswerStep ==
  ASSUME AnswerInv, Shape', TurnOK', UNCHANGED <<reader, read, chan, owed>>,
         loop'.msg \in {loop.msg, Nothing}, DueNow, ~DueNow',
         NEW w \in {"completed", "error"},
         told' = Append(told, [n |-> loop.msg.n, what |-> w])
  PROVE  AnswerInv'
BY LoopKeepsOrder, DebtPaid DEF AnswerInv

(* An answer by the loop itself, or the end when it cannot be written.     *)
LEMMA TellsStep ==
  ASSUME AnswerInv, Shape', Tells("error", "recv"), UNCHANGED <<reader, read, chan, owed>>,
         DueNow
  PROVE  AnswerInv'
<1>1. CASE told' = Append(told, [n |-> loop.msg.n, what |-> "error"]) /\ LoopAt("recv")
  <2>1. TurnOK' /\ ~DueNow' /\ loop'.msg \in {loop.msg, Nothing}
    BY <1>1 DEF LoopAt, TurnOK, TurnRuns, DueNow
  <2> QED BY <1>1, <2>1, AnswerStep
<1>2. CASE End("write") /\ UNCHANGED told
  <2>1. TurnOK' /\ ~DueNow' /\ loop'.msg \in {loop.msg, Nothing} /\ loop'.at = "ended"
    BY <1>2 DEF End, LoopAt, TurnOK, TurnRuns, DueNow
  <2> QED BY <1>2, <2>1, QuietStep
<1> QED BY <1>1, <1>2 DEF Tells

LEMMA TakesSignalStep == AnswerInv /\ TakesSignal => AnswerInv'
<1> SUFFICES ASSUME AnswerInv, TakesSignal PROVE AnswerInv'
  OBVIOUS
<1>1. /\ chan # <<>> /\ chan' = Tail(chan)
      /\ UNCHANGED <<reader, read, told, turn, owed>>
      /\ loop'.at = "ended" /\ loop'.msg = loop.msg
  BY DEF TakesSignal, readerVars, End, LoopAt
<1>2. OrderInv'
  BY <1>1, QueueShrinks DEF AnswerInv
<1>3. TurnOK' /\ ~DueNow'
  BY <1>1 DEF TurnOK, DueNow, TurnRuns
<1> QED BY <1>1, <1>2, <1>3, DebtKept DEF AnswerInv

LEMMA HandlesTextStep == AnswerInv /\ HandlesText => AnswerInv'
<1> SUFFICES ASSUME AnswerInv, HandlesText PROVE AnswerInv'
  OBVIOUS
<1>1. PICK r \in Said(loop.msg.n) : RefusesText(r) \/ Prewarms(r) \/ StartsTurn(r)
  BY DEF HandlesText
<1>2. DueNow /\ UNCHANGED <<reader, read, chan, owed>> /\ loop.at = "hand"
  BY DEF HandlesText, DueNow, readerVars, queueVars
<1>3. reader = [at |-> reader.at, msg |-> reader.msg]
  BY DEF AnswerInv, OrderInv, Shape
<1>4. ASSUME NEW d, turn' = Between(d) PROVE Shape'
  BY <1>2, <1>3, <1>4 DEF Shape, Between, NoTurn
<1>5. CASE RefusesText(r)
  BY <1>2, <1>4, <1>5, TellsStep DEF RefusesText
<1>6. CASE Prewarms(r)
  <2>1. Shape'
    BY <1>4, <1>6 DEF Prewarms
  <2>2. CASE /\ told' = Append(told, [n |-> loop.msg.n, what |-> "completed"])
             /\ LoopAt("recv")
    <3>1. TurnOK' /\ ~DueNow' /\ loop'.msg \in {loop.msg, Nothing}
      BY <2>2 DEF LoopAt, TurnOK, TurnRuns, DueNow
    <3> QED BY <1>2, <2>1, <2>2, <3>1, AnswerStep
  <2>3. CASE End("write") /\ told' = told
    <3>1. TurnOK' /\ ~DueNow' /\ loop'.msg \in {loop.msg, Nothing} /\ loop'.at = "ended"
      BY <2>3 DEF End, LoopAt, TurnOK, TurnRuns, DueNow
    <3> QED BY <1>2, <2>1, <2>3, <3>1, QuietStep
  <2> QED BY <1>6, <2>2, <2>3 DEF Prewarms
<1>7. CASE StartsTurn(r)
  <2>1. /\ turn' = [NoTurn EXCEPT !.n = loop.msg.n, !.phase = "fresh",
                                  !.demanded = turn.demanded, !.plain = Plain(r),
                                  !.said = r.input]
        /\ LoopAt("turn") /\ told' = told
    BY <1>7 DEF StartsTurn
  <2>2. Shape'
    BY <1>2, <1>3, <2>1 DEF Shape, NoTurn
  <2>3. turn'.n = loop.msg.n /\ turn'.terminal = "none"
    BY <2>1 DEF NoTurn
  <2>4. TurnOK' /\ DueNow' /\ ~Broken /\ loop'.msg = loop.msg
    BY <1>2, <2>1, <2>3 DEF LoopAt, TurnOK, TurnRuns, DueNow, Broken
  <2> QED BY <1>2, <2>1, <2>2, <2>4, QuietStep
<1> QED BY <1>1, <1>5, <1>6, <1>7

(* A turn: its terminal event is its answer.                               *)
LEMMA TurnStep == AnswerInv /\ (Answering \/ Cut) => AnswerInv'
<1> SUFFICES ASSUME AnswerInv, Answering \/ Cut PROVE AnswerInv'
  OBVIOUS
<1>1. /\ reader = [at |-> reader.at, msg |-> reader.msg]
      /\ turn = [n |-> turn.n, phase |-> turn.phase, cancelled |-> turn.cancelled,
                 terminal |-> turn.terminal, output |-> turn.output, why |-> turn.why,
                 demanded |-> turn.demanded, plain |-> turn.plain, said |-> turn.said]
  BY DEF AnswerInv, OrderInv, Shape
<1>2. /\ TurnRuns => turn.n = loop.msg.n
      /\ loop.at = "turn" /\ turn.phase \in {"fresh", "opening"} => turn.terminal = "none"
  BY DEF AnswerInv, DebtInv, TurnOK
<1>3. CASE Opens \/ Streams
  <2>1. PICK ph \in {"opening", "streaming"} : turn' = [turn EXCEPT !.phase = ph]
    BY <1>3 DEF Opens, Streams
  <2>2. /\ UNCHANGED <<reader, read, chan, told, owed, loop>>
        /\ loop.at = "turn" /\ turn.terminal = "none"
    BY <1>2, <1>3 DEF Opens, Streams, During, readerVars, queueVars
  <2>3. Shape' /\ turn'.n = turn.n /\ turn'.terminal = "none"
    BY <1>1, <2>1, <2>2 DEF Shape
  <2>4. TurnOK' /\ DueNow' /\ DueNow /\ ~Broken
    BY <1>2, <2>2, <2>3 DEF TurnOK, DueNow, TurnRuns, Broken
  <2> QED BY <2>2, <2>3, <2>4, QuietStep
<1>4. ASSUME NEW terminal \in {"completed", "failed"}, NEW out, Concludes(terminal, out)
      PROVE  AnswerInv'
  <2>1. /\ turn' = [turn EXCEPT !.terminal = terminal, !.output = out]
        /\ UNCHANGED <<reader, read, chan, owed, loop>>
        /\ loop.at = "turn" /\ turn.phase = "streaming" /\ turn.terminal = "none"
    BY <1>4 DEF Concludes, During, readerVars, queueVars
  <2>2. Shape' /\ turn'.n = turn.n /\ turn'.terminal = terminal /\ turn'.phase = "streaming"
    BY <1>1, <2>1 DEF Shape
  <2>3. TurnOK' /\ ~DueNow' /\ DueNow /\ turn.n = loop.msg.n
    BY <1>2, <2>1, <2>2 DEF TurnOK, DueNow, TurnRuns
  <2>4. PICK w \in {"completed", "error"} :
          told' = Append(told, [n |-> loop.msg.n, what |-> w])
    BY <1>4, <2>3 DEF Concludes
  <2> QED BY <2>1, <2>2, <2>3, <2>4, AnswerStep
<1>5. ASSUME NEW terminal, NEW out, NEW why, Returns(terminal, out, why), LoopAt("returned"),
             loop.at = "turn"
      PROVE  /\ Shape' /\ TurnOK' /\ turn'.terminal = terminal
             /\ loop' = [at |-> "returned", msg |-> loop.msg]
             /\ UNCHANGED <<reader, read, chan, owed>>
  <2>1. /\ turn' = [turn EXCEPT !.phase = "over", !.terminal = terminal, !.output = out,
                                !.why = why]
        /\ UNCHANGED <<reader, read, chan, owed>>
    BY <1>5 DEF Returns, readerVars, queueVars
  <2>2. Shape' /\ turn'.n = turn.n /\ turn'.terminal = terminal
    BY <1>1, <2>1 DEF Shape
  <2>3. loop' = [at |-> "returned", msg |-> loop.msg]
    BY <1>5 DEF LoopAt
  <2> QED BY <1>2, <1>5, <2>1, <2>2, <2>3 DEF TurnOK, TurnRuns
<1>6. CASE Declined
  <2>1. PICK terminal \in {"failed", "draining"} :
          /\ Returns(terminal, {}, "end")
          /\ told' = Append(told, [n |-> turn.n, what |-> "error"])
    BY <1>6 DEF Declined
  <2>2. LoopAt("returned") /\ loop.at = "turn" /\ turn.terminal = "none"
    BY <1>2, <1>6 DEF Declined, During
  <2>3. /\ Shape' /\ TurnOK' /\ turn'.terminal = terminal
        /\ loop' = [at |-> "returned", msg |-> loop.msg]
        /\ UNCHANGED <<reader, read, chan, owed>>
    BY <1>5, <2>1, <2>2
  <2>4. DueNow /\ ~DueNow' /\ turn.n = loop.msg.n
    BY <1>2, <2>2, <2>3 DEF DueNow, TurnRuns
  <2> QED BY <2>1, <2>3, <2>4, AnswerStep
<1>7. CASE BodyEnds \/ Cut
  <2>1. PICK why : Returns(turn.terminal, turn.output, why)
    BY <1>7 DEF BodyEnds, Cut
  <2>2. LoopAt("returned") /\ loop.at = "turn" /\ told' = told
    BY <1>7 DEF BodyEnds, Cut, During
  <2>3. /\ Shape' /\ TurnOK' /\ turn'.terminal = turn.terminal
        /\ loop' = [at |-> "returned", msg |-> loop.msg]
        /\ UNCHANGED <<reader, read, chan, owed>>
    BY <1>5, <2>1, <2>2
  <2>4. DueNow' = DueNow /\ Broken' = Broken
    BY <2>2, <2>3 DEF DueNow, TurnRuns, Broken
  <2> QED BY <2>2, <2>3, <2>4, QuietStep
<1>8. CASE Breaks
  <2>1. Returns("broken", {}, "end") /\ LoopAt("returned") /\ loop.at = "turn" /\ told' = told
    BY <1>8 DEF Breaks, During
  <2>2. /\ Shape' /\ TurnOK' /\ turn'.terminal = "broken"
        /\ loop' = [at |-> "returned", msg |-> loop.msg]
        /\ UNCHANGED <<reader, read, chan, owed>>
    BY <1>5, <2>1
  <2>3. ~DueNow' /\ Broken'
    BY <2>2 DEF DueNow, TurnRuns, Broken
  <2> QED BY <2>1, <2>2, <2>3, QuietStep
<1> QED BY <1>3, <1>4, <1>6, <1>7, <1>8 DEF Answering

(* Before and after the turns.                                             *)
LEMMA BetweenStep ==
  AnswerInv /\ (HeartbeatFails \/ HandlesControl \/ RefusesCancel \/ Settling) => AnswerInv'
<1> SUFFICES ASSUME AnswerInv, HeartbeatFails \/ HandlesControl \/ RefusesCancel \/ Settling
             PROVE  AnswerInv'
  OBVIOUS
<1>1. Shape /\ TurnOK
  BY DEF AnswerInv, OrderInv, DebtInv
<1>2. ASSUME turn' = turn \/ (\E d : turn' = Between(d)), reader' = reader PROVE Shape'
  BY <1>1, <1>2 DEF Shape, Between, NoTurn
<1>3. CASE HeartbeatFails
  <2>1. /\ UNCHANGED <<reader, read, chan, told, owed, turn>>
        /\ loop'.at = "ended" /\ loop'.msg = loop.msg
    BY <1>3 DEF HeartbeatFails, readerVars, queueVars, End, LoopAt
  <2>2. TurnOK' /\ ~DueNow'
    BY <2>1 DEF TurnOK, DueNow, TurnRuns
  <2> QED BY <1>2, <2>1, <2>2, QuietStep
<1>4. CASE HandlesControl
  <2>1. /\ UNCHANGED <<reader, read, chan, told, owed, turn>> /\ loop.at = "hand"
        /\ \/ loop.msg.kind = "pong" /\ loop'.at = "recv" /\ loop'.msg = Nothing
           \/ loop'.at = "ended" /\ loop'.msg = loop.msg
    <3>1. CASE loop.msg.kind = "pong" /\ LoopAt("recv")
      BY <1>4, <3>1 DEF HandlesControl, readerVars, queueVars, LoopAt
    <3>2. CASE End("close frame")
      BY <1>4, <3>2 DEF HandlesControl, readerVars, queueVars, End, LoopAt
    <3> QED BY <1>4, <3>1, <3>2 DEF HandlesControl
  <2>2. TurnOK' /\ ~DueNow' /\ ~Broken /\ loop.at # "ended"
        /\ (loop.msg.kind = "pong" => ~DueNow)
    BY <2>1 DEF TurnOK, DueNow, TurnRuns, Broken
  <2> QED BY <1>2, <2>1, <2>2, QuietStep
<1>5. CASE RefusesCancel
  <2>1. UNCHANGED <<reader, read, chan, owed, turn>> /\ DueNow /\ Tells("error", "recv")
    BY <1>5 DEF RefusesCancel, readerVars, queueVars, DueNow
  <2> QED BY <1>2, <2>1, TellsStep
<1>6. CASE Clears
  <2>1. UNCHANGED <<reader, read, chan, told, owed, turn>> /\ loop.at = "returned"
        /\ loop' = [at |-> "checking", msg |-> loop.msg]
    BY <1>6 DEF Clears, readerVars, queueVars, LoopAt
  <2>2. TurnOK' /\ DueNow' = DueNow /\ Broken' = Broken
    BY <1>1, <2>1 DEF TurnOK, DueNow, TurnRuns, Broken
  <2> QED BY <1>2, <2>1, <2>2, QuietStep
<1>7. CASE Checks
  <2>1. UNCHANGED <<reader, read, chan, told, owed, turn>> /\ loop.at = "checking"
        /\ \/ loop' = [at |-> "ended", msg |-> loop.msg]
           \/ loop' = [at |-> "settling", msg |-> loop.msg] /\ turn.terminal # "broken"
    BY <1>7 DEF Checks, readerVars, queueVars, End, LoopAt
  <2>2. CASE loop' = [at |-> "ended", msg |-> loop.msg]
    <3>1. TurnOK' /\ ~DueNow'
      BY <2>2 DEF TurnOK, DueNow, TurnRuns
    <3> QED BY <1>2, <2>1, <2>2, <3>1, QuietStep
  <2>3. CASE loop' = [at |-> "settling", msg |-> loop.msg] /\ turn.terminal # "broken"
    <3>1. TurnOK' /\ DueNow' = DueNow /\ ~Broken
      BY <1>1, <2>1, <2>3 DEF TurnOK, DueNow, TurnRuns, Broken
    <3> QED BY <1>2, <2>1, <2>3, <3>1, QuietStep
  <2> QED BY <2>1, <2>2, <2>3
<1>8. CASE SettlesUnanswered
  <2>1. /\ UNCHANGED <<reader, read, chan, owed>> /\ loop.at = "settling"
        /\ turn.terminal = "none"
        /\ \/ End("silent") /\ UNCHANGED <<told, turn>>
           \/ Tells("error", "recv") /\ turn' = Between(TRUE)
    BY <1>8 DEF SettlesUnanswered, readerVars, queueVars
  <2>2. DueNow
    BY <2>1 DEF DueNow, TurnRuns
  <2>3. CASE End("silent") /\ UNCHANGED <<told, turn>>
    <3>1. TurnOK' /\ ~DueNow' /\ loop'.at = "ended" /\ loop'.msg = loop.msg
      BY <2>3 DEF End, LoopAt, TurnOK, DueNow, TurnRuns
    <3> QED BY <1>2, <2>1, <2>3, <3>1, QuietStep
  <2>4. CASE Tells("error", "recv") /\ turn' = Between(TRUE)
    BY <1>2, <2>1, <2>2, <2>4, TellsStep
  <2> QED BY <2>1, <2>3, <2>4
<1>9. CASE SettlesCompleted \/ SettlesFailed \/ SettlesDraining
  <2>1. /\ UNCHANGED <<reader, read, chan, told, owed>> /\ loop.at = "settling"
        /\ turn.terminal # "none" /\ turn.terminal # "broken"
        /\ turn' = turn \/ (\E d : turn' = Between(d))
        /\ loop' \in {[at |-> "recv", msg |-> Nothing], [at |-> "ended", msg |-> loop.msg]}
    BY <1>9 DEF SettlesCompleted, SettlesFailed, SettlesDraining, readerVars, queueVars, End,
                LoopAt
  <2>2. TurnOK' /\ ~DueNow' /\ ~DueNow /\ ~Broken
        /\ loop'.msg \in {loop.msg, Nothing} /\ loop.at # "ended"
    BY <2>1 DEF TurnOK, DueNow, TurnRuns, Broken
  <2> QED BY <1>2, <2>1, <2>2, QuietStep
<1> QED BY <1>3, <1>4, <1>5, <1>6, <1>7, <1>8, <1>9 DEF Settling

LEMMA AnswerNext == AnswerInv /\ [Next]_vars => AnswerInv'
<1> SUFFICES ASSUME AnswerInv, [Next]_vars PROVE AnswerInv'
  OBVIOUS
<1>1. CASE UNCHANGED vars
  BY <1>1 DEF vars, readerVars, queueVars, loopVars, AnswerInv, OrderInv, Shape, Numbers, InOrder,
              HasMessage, Past, Numbered, DebtInv, TurnOK, DueNow, Due, Broken, TurnRuns, Answered
<1> QED BY <1>1, ReaderStep, TakesStep, TakesSignalStep, HandlesTextStep, TurnStep, BetweenStep
        DEF Next, Looping

(* Every message that calls for an answer gets one and one only, in the    *)
(* order of the messages (websocket.rs:285-380), however cancels, cuts,    *)
(* overflows and failed writes interleave with the turns.                  *)
THEOREM AnswersAreOne == Spec => []OneAnswerEach
<1>1. Init => AnswerInv
  BY OrderInit, DebtInit DEF AnswerInv
<1>2. AnswerInv => OneAnswerEach
  BY DEF AnswerInv, DebtInv, OneAnswerEach, Due, DueNow, Broken, TurnRuns
<1> QED BY <1>1, <1>2, AnswerNext, PTL DEF Spec
-----------------------------------------------------------------------------
(* The budget *)

Sized(q) == {i \in DOMAIN q : Size(q[i]) = 1}

(* A message in the reader's hand has passed the limit with the queue as   *)
(* it was then; the loop only takes away from it.                          *)
BudgetInv ==
  /\ bytes \in Int
  /\ reader.at = "exceeded" => exceeded = TRUE
  /\ loop.at # "ended" /\ ~exceeded =>
       /\ bytes = InQueue + InHand /\ InQueue <= MaxQueuedBytes
       /\ reader.at = "sending" => bytes <= MaxQueuedBytes

LEMMA SizeIs == \A m : Size(m) \in {0, 1}
BY DEF Size

LEMMA SizedFinite ==
  ASSUME NEW q \in Seq(Message)
  PROVE  IsFiniteSet(Sized(q)) /\ Cardinality(Sized(q)) \in Nat
<1>1. IsFiniteSet(1 .. Len(q)) /\ Sized(q) \subseteq 1 .. Len(q)
  BY FS_Interval DEF Sized
<1> QED BY <1>1, FS_Subset, FS_CardinalityType

LEMMA SizedAppend ==
  ASSUME NEW q \in Seq(Message), NEW m \in Message
  PROVE  Cardinality(Sized(Append(q, m))) = Cardinality(Sized(q)) + Size(m)
<1> DEFINE a == Append(q, m)
<1>1. /\ DOMAIN a = 1 .. Len(q) + 1 /\ DOMAIN q = 1 .. Len(q) /\ Len(q) \in Nat
      /\ a[Len(q) + 1] = m /\ \A i \in 1 .. Len(q) : a[i] = q[i]
  OBVIOUS
<1> HIDE DEF a
<1>2. Len(q) + 1 \notin Sized(q) /\ DOMAIN a = DOMAIN q \cup {Len(q) + 1}
  BY <1>1 DEF Sized
<1>3. Sized(a) = IF Size(m) = 1 THEN Sized(q) \cup {Len(q) + 1} ELSE Sized(q)
  BY <1>1, <1>2 DEF Sized
<1>4. Cardinality(Sized(a)) = Cardinality(Sized(q)) + Size(m)
  <2>1. Size(m) \in {0, 1}
    BY SizeIs
  <2>2. IsFiniteSet(Sized(q)) /\ Cardinality(Sized(q)) \in Nat
    BY SizedFinite
  <2>3. Cardinality(Sized(q) \cup {Len(q) + 1}) = Cardinality(Sized(q)) + 1
    BY <1>2, <2>2, FS_AddElement
  <2> QED BY <1>3, <2>1, <2>2, <2>3
<1> QED BY <1>4 DEF a

LEMMA SizedTail ==
  ASSUME NEW q \in Seq(Message), q # <<>>
  PROVE  Cardinality(Sized(Tail(q))) = Cardinality(Sized(q)) - Size(Head(q))
<1> DEFINE r == Tail(q)
           f == [i \in Sized(r) |-> i + 1]
<1>1. /\ r \in Seq(Message) /\ DOMAIN r = 1 .. Len(q) - 1 /\ DOMAIN q = 1 .. Len(q)
      /\ Len(q) \in Nat /\ Len(q) >= 1 /\ Head(q) = q[1]
      /\ \A i \in 1 .. Len(q) - 1 : r[i] = q[i + 1]
  OBVIOUS
<1> HIDE DEF r
<1>2. \A i \in Sized(r) : i \in Nat /\ i + 1 \in Sized(q) \ {1}
  BY <1>1 DEF Sized
<1>3. ASSUME NEW j \in Sized(q) \ {1} PROVE \E i \in Sized(r) : i + 1 = j
  <2>1. j - 1 \in 1 .. Len(q) - 1 /\ (j - 1) + 1 = j
    BY <1>1 DEF Sized
  <2> QED BY <1>1, <2>1 DEF Sized
<1>4. f \in Bijection(Sized(r), Sized(q) \ {1})
  BY <1>2, <1>3 DEF Bijection, Injection, Surjection, IsInjective
<1>5. Cardinality(Sized(q) \ {1}) = Cardinality(Sized(r))
  BY <1>1, <1>4, SizedFinite, FS_Bijection DEF ExistsBijection
<1>6. 1 \in Sized(q) <=> Size(Head(q)) = 1
  BY <1>1 DEF Sized
<1>7. Cardinality(Sized(q)) - Size(Head(q)) = Cardinality(Sized(r))
  <2>1. Size(Head(q)) \in {0, 1}
    BY SizeIs
  <2>2. IsFiniteSet(Sized(q)) /\ Cardinality(Sized(q)) \in Nat
    BY SizedFinite
  <2>3. Cardinality(Sized(q) \ {1}) = IF 1 \in Sized(q) THEN Cardinality(Sized(q)) - 1
                                      ELSE Cardinality(Sized(q))
    BY <2>2, FS_RemoveElement
  <2> QED BY <1>5, <1>6, <2>1, <2>2, <2>3
<1> QED BY <1>7 DEF r

LEMMA BudgetInit == Init => BudgetInv
<1> SUFFICES ASSUME Init PROVE BudgetInv
  OBVIOUS
<1>1. InQueue = Cardinality({})
  BY DEF Init, InQueue
<1>2. InQueue = 0
  BY <1>1, FS_EmptySet
<1> QED BY <1>2, QueueAssumption DEF Init, BudgetInv, InHand

LEMMA BudgetOfReader ==
  ASSUME OrderInv, BudgetInv,
         ReadsCancel \/ (\E k \in Kinds : Reads(k)) \/ ReadEnds \/ Hearing
  PROVE  BudgetInv'
<1>1. /\ chan \in Seq(Message) /\ reader.msg \in Message /\ MaxQueuedBytes \in Nat
      /\ reader = [at |-> reader.at, msg |-> reader.msg]
      /\ reader.at = "leaving" => Size(reader.msg) = 0
  <2>1. reader.at = "leaving" => ~Numbered(reader.msg)
    BY DEF OrderInv, InOrder
  <2>2. ~Numbered(reader.msg) => Size(reader.msg) = 0
    BY DEF Numbered, Size, Kinds
  <2> QED BY <2>1, <2>2, QueueAssumption DEF OrderInv, Numbers, Shape
<1>2. InQueue = Cardinality(Sized(chan)) /\ InQueue \in Nat
  BY <1>1, SizedFinite DEF InQueue, Sized
<1>3. chan' = chan => InQueue' = InQueue
  BY DEF InQueue
<1>4. chan' = Append(chan, reader.msg) => InQueue' = InQueue + Size(reader.msg)
  BY <1>1, <1>2, SizedAppend DEF InQueue, Sized
<1>5. Size(reader.msg) \in {0, 1}
  BY SizeIs
<1>6. ASSUME ReadsCancel \/ ReadEnds \/ (ReaderLeaves /\ chan' = chan) PROVE BudgetInv'
  <2>1. /\ UNCHANGED <<chan, bytes, exceeded, loop>>
        /\ \/ reader' = reader
           \/ reader'.at \in {"leaving", "gone"} /\ reader.at \in {"reading", "leaving"}
    <3>1. CASE ReadsCancel
      BY <3>1 DEF ReadsCancel, queueVars, signalVars
    <3>2. CASE ReadEnds
      BY <3>2 DEF ReadEnds, queueVars, loopVars
    <3>3. CASE ReaderLeaves /\ chan' = chan
      BY <3>3 DEF ReaderLeaves, signalVars, loopVars
    <3> QED BY <1>6, <3>1, <3>2, <3>3
  <2> QED BY <1>3, <2>1 DEF BudgetInv, InHand
<1>7. ASSUME NEW k \in Kinds, Reads(k) PROVE BudgetInv'
  <2> DEFINE m == [kind |-> k, n |-> read + 1]
  <2>1. /\ UNCHANGED <<chan, exceeded, loop>> /\ bytes' = bytes + Size(m)
        /\ reader.at = "reading" /\ reader'.msg = m
        /\ reader'.at = IF bytes' > MaxQueuedBytes THEN "exceeding" ELSE "sending"
    BY <1>7 DEF Reads, signalVars, loopVars
  <2>2. Size(m) \in {0, 1}
    BY SizeIs
  <2> HIDE DEF m
  <2>3. InHand = 0 /\ InHand' = Size(m)
    BY <2>1 DEF InHand
  <2> QED BY <1>1, <1>2, <1>3, <2>1, <2>2, <2>3 DEF BudgetInv
<1>8. CASE ReaderSends
  <2>1. /\ reader.at = "sending" /\ reader'.at = "reading" /\ UNCHANGED <<bytes, exceeded, loop>>
        /\ chan' = Append(chan, reader.msg)
    BY <1>8 DEF ReaderSends, signalVars, loopVars
  <2>2. InHand = Size(reader.msg) /\ InHand' = 0
    BY <2>1 DEF InHand
  <2> QED BY <1>1, <1>2, <1>4, <1>5, <2>1, <2>2 DEF BudgetInv
<1>9. CASE ReaderFindsNobody
  BY <1>5, <1>9 DEF ReaderFindsNobody, BudgetInv, signalVars, loopVars
<1>10. CASE Overflows
  <2>1. exceeded' = TRUE /\ bytes' = bytes
    BY <1>10 DEF Overflows, Marks, CancelsConnection, BudgetInv, queueVars
  <2> QED BY <2>1 DEF BudgetInv
<1>11. CASE ReaderLeaves /\ chan' # chan
  <2>1. /\ reader.at = "leaving" /\ reader'.at = "gone" /\ UNCHANGED <<bytes, exceeded, loop>>
        /\ chan' = Append(chan, reader.msg)
    BY <1>11 DEF ReaderLeaves, signalVars, loopVars
  <2>2. InHand = 0 /\ InHand' = 0
    BY <2>1 DEF InHand
  <2> QED BY <1>1, <1>2, <1>4, <2>1, <2>2 DEF BudgetInv
<1> QED BY <1>6, <1>7, <1>8, <1>9, <1>10, <1>11 DEF Hearing

LEMMA BudgetOfLoop ==
  ASSUME OrderInv, BudgetInv, Looping \/ HeartbeatFails \/ Answering \/ Cut
  PROVE  BudgetInv'
<1>1. UNCHANGED <<reader, exceeded>> /\ (loop.at = "ended" => loop'.at = "ended")
  <2>1. CASE Looping \/ HeartbeatFails
    BY <2>1 DEF Looping, Takes, TakesSignal, HandlesControl, RefusesCancel, HandlesText,
                HeartbeatFails, Settling, Clears, Checks, SettlesUnanswered, SettlesCompleted,
                SettlesFailed, SettlesDraining, readerVars, signalVars
  <2>2. CASE Answering \/ Cut
    BY <2>2 DEF Answering, Opens, Streams, Declined, BodyEnds, Breaks, Concludes, Cut, Returns,
                During, readerVars, signalVars
  <2> QED BY <2>1, <2>2
<1>2. InHand' = InHand
  BY <1>1 DEF InHand
<1>3. chan \in Seq(Message) /\ MaxQueuedBytes \in Nat
  BY QueueAssumption DEF OrderInv, Numbers
<1>4. InQueue = Cardinality(Sized(chan)) /\ InQueue \in Nat
  BY <1>3, SizedFinite DEF InQueue, Sized
<1>5. CASE Takes \/ TakesSignal
  <2>1. chan # <<>> /\ chan' = Tail(chan) /\ bytes' = bytes - Size(Head(chan))
    <3>1. Head(chan).kind \in Signals => Size(Head(chan)) = 0
      BY DEF Size, Signals
    <3>2. CASE TakesSignal
      <4>1. UNCHANGED bytes /\ Size(Head(chan)) = 0 /\ bytes \in Int
        BY <3>1, <3>2 DEF TakesSignal, BudgetInv
      <4>2. chan # <<>> /\ chan' = Tail(chan)
        BY <3>2 DEF TakesSignal
      <4>3. bytes' = bytes - 0
        BY <4>1
      <4> QED BY <4>1, <4>2, <4>3
    <3> QED BY <1>5, <3>2 DEF Takes
  <2>2. InQueue' = InQueue - Size(Head(chan))
    BY <1>3, <1>4, <2>1, SizedTail DEF InQueue, Sized
  <2>3. Size(Head(chan)) \in {0, 1}
    BY SizeIs
  <2>4. InHand \in {0, 1} /\ InQueue' \in Int
    BY <1>4, <2>2, <2>3, SizeIs DEF InHand
  <2> QED BY <1>1, <1>2, <1>3, <1>4, <2>1, <2>2, <2>3, <2>4 DEF BudgetInv
<1>6. CASE UNCHANGED <<chan, bytes>>
  <2>1. InQueue' = InQueue
    BY <1>6 DEF InQueue
  <2> QED BY <1>1, <1>2, <1>6, <2>1 DEF BudgetInv
<1>7. CASE Looping \/ HeartbeatFails
  BY <1>5, <1>6, <1>7
     DEF Looping, HandlesControl, RefusesCancel, HandlesText, HeartbeatFails, Settling, Clears,
         Checks, SettlesUnanswered, SettlesCompleted, SettlesFailed, SettlesDraining, queueVars
<1>8. CASE Answering \/ Cut
  BY <1>6, <1>8
     DEF Answering, Opens, Streams, Declined, BodyEnds, Breaks, Concludes, Cut, Returns, queueVars
<1> QED BY <1>7, <1>8

LEMMA BudgetNext ==
  ASSUME OrderInv, BudgetInv, [Next]_vars
  PROVE  BudgetInv'
<1>1. CASE UNCHANGED vars
  BY <1>1 DEF vars, readerVars, queueVars, signalVars, loopVars, BudgetInv, InQueue, InHand
<1> QED BY <1>1, BudgetOfReader, BudgetOfLoop DEF Next

(* `queued_bytes` (websocket.rs) counts what waits in the queue and in the *)
(* reader's hand, and what is in the queue is within the limit, until the  *)
(* overflow is marked.                                                     *)
THEOREM BudgetHolds == Spec => []BudgetIsExact
<1>1. Init => AnswerInv /\ BudgetInv
  BY OrderInit, DebtInit, BudgetInit DEF AnswerInv
<1>2. AnswerInv /\ BudgetInv /\ [Next]_vars => (AnswerInv /\ BudgetInv)'
  BY AnswerNext, BudgetNext DEF AnswerInv
<1>3. BudgetInv => BudgetIsExact
  BY DEF BudgetInv, BudgetIsExact
<1> QED BY <1>1, <1>2, <1>3, PTL DEF Spec
-----------------------------------------------------------------------------
(* The conversation *)

Whole(s) == \A i \in s : i.kind = "call" => Result(i.of) \in s

(* What the turn's request is made of, and what it leaves if it completes. *)
StagedWell ==
  /\ \A i \in turn.said : i.kind # "result" => i.of = turn.n
  /\ \A i \in staged \ turn.said : i.kind # "result" => i.of \in Completed
  /\ Whole(staged)
  /\ top /\ turn.demanded /\ turn.plain => staged = turn.said
  /\ turn.terminal = "completed" =>
       turn.n \in Completed /\ \A i \in turn.output : i.of = turn.n

(* The conversation is of completed turns, and the demand for a            *)
(* replacement is the session's while no turn runs.                        *)
TalkInv ==
  /\ \A i \in items \cup output : i.kind # "result" => i.of \in Completed
  /\ Whole(items)
  /\ loop.at \in {"recv", "hand"} /\ turn.demanded => replace
  /\ TurnRuns => StagedWell

LEMMA CompletedGrows ==
  ASSUME told \in Seq(Reply), NEW n \in Nat, NEW w \in {"completed", "error"},
         told' = Append(told, [n |-> n, what |-> w])
  PROVE  Completed \subseteq Completed' /\ (w = "completed" => n \in Completed')
<1> DEFINE x == [n |-> n, what |-> w]
<1>1. x.n = n /\ x.what = w
  OBVIOUS
<1> HIDE DEF x
<1>2. /\ DOMAIN told = 1 .. Len(told) /\ Len(told) \in Nat
      /\ DOMAIN told' = 1 .. Len(told) + 1 /\ told'[Len(told) + 1] = x
      /\ \A i \in 1 .. Len(told) : told'[i] = told[i]
  BY DEF x, Reply
<1>3. \A i \in DOMAIN told : i \in DOMAIN told' /\ told'[i] = told[i]
  BY <1>2
<1>4. Len(told) + 1 \in DOMAIN told'
  BY <1>2
<1>5. Completed \subseteq Completed'
  BY <1>3 DEF Completed
<1> QED BY <1>1, <1>2, <1>4, <1>5 DEF Completed

(* What is sent is what was kept and what is said now; all of it is said   *)
(* when a replacement is demanded.                                         *)
LEMMA MergedIs ==
  ASSUME TalkInv, NEW n, NEW r \in Said(n), ~Refuses(r)
  PROVE  /\ \A i \in r.input : i.kind # "result" => i.of = n
         /\ \A i \in Merged(r) \ r.input : i \in items \cup output
         /\ Whole(Merged(r))
         /\ top /\ replace /\ Plain(r) => Merged(r) = r.input
<1>1. r.input \in Inputs(n)
  BY DEF Said
<1>2. \A i \in r.input : i.kind # "call" /\ (i.kind # "result" => i.of = n)
  BY <1>1 DEF Inputs, User, Long, Answer, Result
<1>3. CASE Replaces(r) \/ ~top
  BY <1>2, <1>3 DEF Merged, Whole
<1>4. CASE ~Replaces(r) /\ top
  <2>1. Merged(r) = items \cup output \cup r.input /\ Satisfies(r.input)
    BY <1>4 DEF Merged, Refuses
  <2>2. \A i \in output : i.kind = "call" => Result(i.of) \in r.input
    BY <2>1 DEF Satisfies, Pending
  <2>3. Whole(Merged(r))
    BY <1>2, <2>1, <2>2 DEF TalkInv, Whole
  <2> QED BY <1>2, <1>4, <2>1, <2>3 DEF Replaces
<1> QED BY <1>3, <1>4

LEMMA TalkInit == Init => TalkInv
BY DEF Init, SessionInit, TalkInv, Whole, NoTurn, TurnRuns

(* A step that leaves the conversation and the request of the turn alone.  *)
LEMMA TalkKept ==
  ASSUME TalkInv, UNCHANGED <<top, items, output, replace, staged>>,
         Completed \subseteq Completed',
         turn'.n = turn.n, turn'.said = turn.said, turn'.demanded = turn.demanded,
         turn'.plain = turn.plain,
         loop'.at \in {"recv", "hand"} => loop.at \in {"recv", "hand"},
         TurnRuns' => TurnRuns,
         \/ turn'.terminal # "completed"
         \/ turn'.terminal = turn.terminal /\ turn'.output = turn.output
         \/ turn.n \in Completed' /\ \A i \in turn'.output : i.of = turn.n
  PROVE  TalkInv'
<1>1. TurnRuns' => StagedWell'
  BY DEF TalkInv, StagedWell, Whole
<1>2. (\A i \in items \cup output : i.kind # "result" => i.of \in Completed)' /\ Whole(items)'
  BY DEF TalkInv, Whole
<1>3. (loop.at \in {"recv", "hand"} /\ turn.demanded => replace)'
  BY DEF TalkInv
<1> QED BY <1>1, <1>2, <1>3 DEF TalkInv

(* The connection ends; the session may be gone with it.                   *)
LEMMA TalkEnds ==
  ASSUME TalkInv, loop'.at = "ended", items' \in {items, {}}, output' \in {output, {}},
         Completed \subseteq Completed'
  PROVE  TalkInv'
<1>1. Whole(items)'
  BY DEF TalkInv, Whole
<1>2. (\A i \in items \cup output : i.kind # "result" => i.of \in Completed)'
  BY DEF TalkInv
<1> QED BY <1>1, <1>2 DEF TalkInv, TurnRuns

LEMMA TalkOfReader ==
  ASSUME OrderInv, TalkInv,
         ReadsCancel \/ (\E k \in Kinds : Reads(k)) \/ ReadEnds \/ Hearing
  PROVE  TalkInv'
<1>1. UNCHANGED <<loop, told, top, items, output, replace, staged>>
  BY DEF ReadsCancel, Reads, ReadEnds, Hearing, ReaderSends, ReaderFindsNobody, Overflows,
         ReaderLeaves, loopVars, sessionVars
<1>2. /\ turn'.n = turn.n /\ turn'.said = turn.said /\ turn'.demanded = turn.demanded
      /\ turn'.plain = turn.plain /\ turn'.terminal = turn.terminal
      /\ turn'.output = turn.output
  <2>1. turn = [n |-> turn.n, phase |-> turn.phase, cancelled |-> turn.cancelled,
                terminal |-> turn.terminal, output |-> turn.output, why |-> turn.why,
                demanded |-> turn.demanded, plain |-> turn.plain, said |-> turn.said]
    BY DEF OrderInv, Shape
  <2>2. turn' = turn \/ turn' = [turn EXCEPT !.cancelled = TRUE]
    BY DEF ReadsCancel, Reads, ReadEnds, Hearing, ReaderSends, ReaderFindsNobody, Overflows,
           ReaderLeaves, loopVars
  <2> QED BY <2>1, <2>2
<1>3. Completed' = Completed
  BY <1>1 DEF Completed
<1> QED BY <1>1, <1>2, <1>3, TalkKept DEF TurnRuns

LEMMA TellsCompletes ==
  ASSUME OrderInv, NEW place, Tells("error", place)
  PROVE  Completed \subseteq Completed' /\ loop'.at \in {place, "ended"}
<1>1. loop.msg.n \in Nat /\ told \in Seq(Reply)
  BY MessageNumber DEF OrderInv, Numbers
<1>2. CASE told' = Append(told, [n |-> loop.msg.n, what |-> "error"]) /\ LoopAt(place)
  BY <1>1, <1>2, CompletedGrows DEF LoopAt
<1>3. CASE End("write") /\ UNCHANGED told
  BY <1>3 DEF End, LoopAt, Completed
<1> QED BY <1>2, <1>3 DEF Tells

LEMMA TalkOfIdle ==
  ASSUME OrderInv, TalkInv,
         Takes \/ TakesSignal \/ HandlesControl \/ RefusesCancel \/ HeartbeatFails \/ Checks
  PROVE  TalkInv'
<1>1. /\ Completed \subseteq Completed'
      /\ turn' = turn
  <2>1. CASE RefusesCancel
    BY <2>1, TellsCompletes DEF RefusesCancel
  <2>2. CASE Takes \/ TakesSignal \/ HandlesControl \/ HeartbeatFails \/ Checks
    BY <2>2 DEF Takes, TakesSignal, HandlesControl, HeartbeatFails, Checks, Completed
  <2> QED BY <2>1, <2>2
<1>2. /\ loop'.at \in {"recv", "hand", "settling", "ended"}
      /\ loop'.at \in {"recv", "hand"} => loop.at \in {"recv", "hand"}
      /\ loop'.at = "settling" => loop.at = "checking"
  <2>1. CASE RefusesCancel
    BY <2>1, TellsCompletes DEF RefusesCancel
  <2>2. CASE Takes \/ TakesSignal \/ HandlesControl \/ HeartbeatFails \/ Checks
    <3>1. CASE Takes
      BY <3>1 DEF Takes
    <3>2. CASE TakesSignal \/ HeartbeatFails
      <4>1. PICK how : End(how)
        BY <3>2 DEF TakesSignal, HeartbeatFails
      <4>2. loop'.at = "ended"
        BY <4>1 DEF End, LoopAt
      <4> QED BY <4>2
    <3>3. CASE HandlesControl
      <4>1. loop.at = "hand" /\ (LoopAt("recv") \/ LoopAt("ended"))
        BY <3>3 DEF HandlesControl, End
      <4>2. loop'.at = "recv" \/ loop'.at = "ended"
        BY <4>1 DEF LoopAt
      <4> QED BY <4>1, <4>2
    <3>4. CASE Checks
      BY <3>4 DEF Checks, End, LoopAt
    <3> QED BY <2>2, <3>1, <3>2, <3>3, <3>4
  <2> QED BY <2>1, <2>2
<1>3. CASE loop'.at = "ended"
  <2>1. items' \in {items, {}} /\ output' \in {output, {}}
    BY <1>3 DEF Takes, TakesSignal, HandlesControl, RefusesCancel, HeartbeatFails, Checks,
                SessionGoesWithLoop, sessionVars
  <2> QED BY <1>1, <1>3, <2>1, TalkEnds
<1>4. CASE loop'.at # "ended"
  <2>1. UNCHANGED <<top, items, output, replace, staged>>
    BY <1>4 DEF Takes, TakesSignal, HandlesControl, RefusesCancel, HeartbeatFails, Checks,
                SessionGoesWithLoop, sessionVars
  <2>2. TurnRuns' => TurnRuns
    BY <1>2, <1>4 DEF TurnRuns
  <2> QED BY <1>1, <1>2, <2>1, <2>2, TalkKept
<1> QED BY <1>3, <1>4

LEMMA TalkOfText ==
  ASSUME OrderInv, TalkInv, HandlesText
  PROVE  TalkInv'
<1>1. PICK r \in Said(loop.msg.n) : RefusesText(r) \/ Prewarms(r) \/ StartsTurn(r)
  BY DEF HandlesText
<1>2. loop.at = "hand" /\ told \in Seq(Reply) /\ loop.msg.n \in Nat
  BY MessageNumber DEF HandlesText, OrderInv, Numbers
<1>3. CASE RefusesText(r)
  <2>1. /\ Tells("error", "recv") /\ UNCHANGED <<top, items, output, lastId, staged>>
        /\ replace' = (replace /\ (Refuses(r) \/ ~Replaces(r)))
        /\ turn' = Between(turn.demanded /\ Refuses(r))
    BY <1>3 DEF RefusesText, NotSent, DemandAfter
  <2>2. Completed \subseteq Completed' /\ loop'.at \in {"recv", "ended"}
    BY <2>1, TellsCompletes
  <2>3. turn'.demanded = (turn.demanded /\ Refuses(r))
    BY <2>1 DEF Between, NoTurn
  <2> QED BY <1>2, <2>1, <2>2, <2>3 DEF TalkInv, Whole, TurnRuns
<1>4. CASE Prewarms(r)
  <2>1. ~Refuses(r)
    BY <1>4 DEF Prewarms, Sendable
  <2>2. CASE /\ Commit(Merged(r), loop.msg.n, {}) /\ LoopAt("recv")
             /\ told' = Append(told, [n |-> loop.msg.n, what |-> "completed"])
    <3>1. Completed \subseteq Completed' /\ loop.msg.n \in Completed'
      BY <1>2, <2>2, CompletedGrows
    <3>2. items' = Merged(r) /\ output' = {} /\ loop'.at = "recv"
      BY <2>2 DEF Commit, LoopAt
    <3>3. turn'.demanded = FALSE
      BY <1>4 DEF Prewarms, Between, NoTurn
    <3>4. \A i \in Merged(r) : i.kind # "result" => i.of \in Completed'
      BY <1>1, <2>1, <3>1, MergedIs DEF TalkInv
    <3>5. Whole(items')
      BY <1>1, <2>1, <3>2, MergedIs
    <3>6. Whole(items)'
      BY <3>5 DEF Whole
    <3> QED BY <3>2, <3>3, <3>4, <3>6 DEF TalkInv, TurnRuns
  <2>3. CASE End("write") /\ UNCHANGED <<told, top, items, output, lastId>>
    BY <2>3, TalkEnds DEF End, LoopAt, Completed
  <2> QED BY <1>4, <2>2, <2>3 DEF Prewarms
<1>5. CASE StartsTurn(r)
  <2>1. /\ ~Refuses(r) /\ staged' = Merged(r) /\ UNCHANGED <<top, items, output, told>>
        /\ loop'.at = "turn"
    BY <1>5 DEF StartsTurn, Stage, Sendable, LoopAt
  <2>2. /\ turn'.n = loop.msg.n /\ turn'.said = r.input /\ turn'.terminal = "none"
        /\ turn'.demanded = turn.demanded /\ turn'.plain = Plain(r)
    BY <1>5 DEF StartsTurn, NoTurn
  <2>3. Completed' = Completed
    BY <2>1 DEF Completed
  <2>4. /\ \A i \in r.input : i.kind # "result" => i.of = loop.msg.n
        /\ \A i \in Merged(r) \ r.input : i \in items \cup output
        /\ Whole(Merged(r))
        /\ top /\ replace /\ Plain(r) => Merged(r) = r.input
    BY <1>1, <2>1, MergedIs
  <2> HIDE DEF Merged
  <2>5. turn.demanded => replace
    BY <1>2 DEF TalkInv
  <2>6. StagedWell'
    BY <2>1, <2>2, <2>3, <2>4, <2>5 DEF TalkInv, StagedWell, Whole
  <2> QED BY <2>1, <2>3, <2>6 DEF TalkInv, Whole
<1> QED BY <1>1, <1>3, <1>4, <1>5

(* The answer of a turn is its own, and says so when it is complete.       *)
LEMMA TalkOfTurn ==
  ASSUME AnswerInv, TalkInv, Answering \/ Cut
  PROVE  TalkInv'
<1>1. /\ turn = [n |-> turn.n, phase |-> turn.phase, cancelled |-> turn.cancelled,
                 terminal |-> turn.terminal, output |-> turn.output, why |-> turn.why,
                 demanded |-> turn.demanded, plain |-> turn.plain, said |-> turn.said]
      /\ told \in Seq(Reply) /\ loop.msg.n \in Nat /\ loop.at = "turn"
      /\ turn.n = loop.msg.n
  BY MessageNumber DEF AnswerInv, OrderInv, Shape, Numbers, DebtInv, TurnOK, TurnRuns,
     Answering, Cut, Opens, Streams, Declined, BodyEnds, Breaks, Concludes, During
<1>2. /\ UNCHANGED <<top, items, output, replace, staged>>
      /\ loop'.at \in {"turn", "returned"}
  <2>1. UNCHANGED sessionVars
    BY DEF Answering, Cut, Opens, Streams, Declined, BodyEnds, Breaks, Concludes, Returns
  <2>2. UNCHANGED loop \/ LoopAt("returned")
    BY DEF Answering, Cut, Opens, Streams, Declined, BodyEnds, Breaks, Concludes
  <2>3. loop'.at \in {"turn", "returned"}
    BY <1>1, <2>2 DEF LoopAt
  <2> QED BY <2>1, <2>3 DEF sessionVars
<1>3. ASSUME NEW p, NEW t, NEW o, NEW w,
             turn' = [turn EXCEPT !.phase = p, !.terminal = t, !.output = o, !.why = w],
             Completed \subseteq Completed',
             \/ t # "completed"
             \/ t = turn.terminal /\ o = turn.output
             \/ turn.n \in Completed' /\ \A i \in o : i.of = turn.n
      PROVE  TalkInv'
  <2>1. /\ turn'.n = turn.n /\ turn'.said = turn.said /\ turn'.demanded = turn.demanded
        /\ turn'.plain = turn.plain /\ turn'.terminal = t /\ turn'.output = o
    BY <1>1, <1>3
  <2> QED BY <1>1, <1>2, <1>3, <2>1, TalkKept DEF TurnRuns
<1>4. CASE Opens \/ Streams
  <2>1. PICK p : turn' = [turn EXCEPT !.phase = p]
    BY <1>4 DEF Opens, Streams
  <2>2. turn' = [turn EXCEPT !.phase = p, !.terminal = turn.terminal, !.output = turn.output,
                             !.why = turn.why]
    BY <1>1, <2>1
  <2>3. Completed' = Completed
    BY <1>4 DEF Opens, Streams, Completed
  <2> QED BY <1>3, <2>2, <2>3
<1>5. ASSUME NEW t \in {"failed", "completed"}, NEW o, Concludes(t, o),
             \A i \in o : i.of = turn.n
      PROVE  TalkInv'
  <2> DEFINE w == IF t = "completed" THEN t ELSE "error"
  <2>1. told' = Append(told, [n |-> turn.n, what |-> w]) /\ w \in {"completed", "error"}
        /\ (t = "completed" => w = "completed")
        /\ turn' = [turn EXCEPT !.terminal = t, !.output = o]
    BY <1>5 DEF Concludes
  <2> HIDE DEF w
  <2>2. Completed \subseteq Completed' /\ (t = "completed" => turn.n \in Completed')
    BY <1>1, <2>1, CompletedGrows
  <2>3. turn' = [turn EXCEPT !.phase = turn.phase, !.terminal = t, !.output = o,
                             !.why = turn.why]
    BY <1>1, <2>1
  <2> QED BY <1>3, <1>5, <2>2, <2>3
<1>6. CASE Declined
  <2>1. PICK t \in {"failed", "draining"} :
          /\ Returns(t, {}, "end")
          /\ told' = Append(told, [n |-> turn.n, what |-> "error"])
    BY <1>6 DEF Declined
  <2>2. Completed \subseteq Completed'
    BY <1>1, <2>1, CompletedGrows
  <2> QED BY <1>3, <2>1, <2>2 DEF Returns
<1>7. CASE BodyEnds \/ Breaks \/ Cut
  <2>1. PICK w : Returns("broken", {}, w) \/ Returns(turn.terminal, turn.output, w)
    BY <1>7 DEF BodyEnds, Breaks, Cut
  <2>2. Completed' = Completed
    BY <1>7 DEF BodyEnds, Breaks, Cut, Completed
  <2>3. CASE Returns("broken", {}, w)
    <3>1. turn' = [turn EXCEPT !.phase = "over", !.terminal = "broken", !.output = {},
                               !.why = w]
      BY <2>3 DEF Returns
    <3> QED BY <1>3, <2>2, <3>1
  <2>4. CASE Returns(turn.terminal, turn.output, w)
    <3>1. turn' = [turn EXCEPT !.phase = "over", !.terminal = turn.terminal,
                               !.output = turn.output, !.why = w]
      BY <2>4 DEF Returns
    <3> QED BY <1>3, <2>2, <3>1
  <2> QED BY <2>1, <2>3, <2>4
<1>8. \A o \in Outputs(turn.n) : \A i \in o : i.of = turn.n
  BY DEF Outputs, Answer, Call
<1> QED BY <1>4, <1>5, <1>6, <1>7, <1>8 DEF Answering

LEMMA TalkOfSettling ==
  ASSUME AnswerInv, TalkInv, Settling
  PROVE  TalkInv'
<1>1. OrderInv
  BY DEF AnswerInv
<1>2. CASE Clears
  <2>1. /\ UNCHANGED <<top, items, output, replace, staged, turn, told>>
        /\ loop.at = "returned" /\ loop'.at = "checking"
    BY <1>2 DEF Clears, LoopAt, sessionVars
  <2> QED BY <2>1, TalkKept DEF TurnRuns, Completed
<1>3. CASE Checks
  BY <1>1, <1>3, TalkOfIdle
<1>4. CASE SettlesUnanswered
  <2>1. /\ UNCHANGED <<items, output>> /\ replace' = TRUE
        /\ \/ End("silent") /\ UNCHANGED told
           \/ Tells("error", "recv")
    BY <1>4 DEF SettlesUnanswered, RequireReplacement
  <2>2. Completed \subseteq Completed' /\ loop'.at \in {"recv", "ended"}
    <3>1. CASE End("silent") /\ UNCHANGED told
      BY <3>1 DEF End, LoopAt, Completed
    <3> QED BY <1>1, <2>1, <3>1, TellsCompletes
  <2> QED BY <2>1, <2>2 DEF TalkInv, Whole, TurnRuns
<1>5. CASE SettlesCompleted
  <2>1. /\ items' = staged /\ output' = turn.output /\ turn' = Between(FALSE)
        /\ loop'.at = "recv" /\ told' = told /\ turn.terminal = "completed" /\ TurnRuns
    BY <1>5 DEF SettlesCompleted, Commit, LoopAt, TurnRuns
  <2>2. turn'.demanded = FALSE
    BY <2>1 DEF Between, NoTurn
  <2>3. StagedWell /\ Completed' = Completed
    BY <2>1 DEF TalkInv, Completed
  <2>4. Whole(items)'
    BY <2>1, <2>3 DEF StagedWell, Whole
  <2>5. (\A i \in items \cup output : i.kind # "result" => i.of \in Completed)'
    BY <2>1, <2>3 DEF StagedWell
  <2> QED BY <2>1, <2>2, <2>4, <2>5 DEF TalkInv, TurnRuns
<1>6. CASE SettlesFailed
  <2>1. UNCHANGED <<items, output, told>> /\ replace' = TRUE /\ loop'.at = "recv"
    BY <1>6 DEF SettlesFailed, RequireReplacement, LoopAt
  <2> QED BY <2>1 DEF TalkInv, Whole, TurnRuns, Completed
<1>7. CASE SettlesDraining
  BY <1>7, TalkEnds DEF SettlesDraining, End, LoopAt, Completed, SessionGoesWithLoop, sessionVars
<1> QED BY <1>2, <1>3, <1>4, <1>5, <1>6, <1>7 DEF Settling

LEMMA TalkNext ==
  ASSUME AnswerInv, TalkInv, [Next]_vars
  PROVE  TalkInv'
<1>1. CASE UNCHANGED vars
  BY <1>1, TalkKept DEF vars, loopVars, sessionVars, TurnRuns, Completed
<1>2. OrderInv
  BY DEF AnswerInv
<1> QED BY <1>1, <1>2, TalkOfReader, TalkOfIdle, TalkOfText, TalkOfTurn, TalkOfSettling
        DEF Next, Looping

LEMMA TalkHolds == Spec => [](AnswerInv /\ TalkInv)
<1>1. Init => AnswerInv /\ TalkInv
  BY OrderInit, DebtInit, TalkInit DEF AnswerInv
<1>2. AnswerInv /\ TalkInv /\ [Next]_vars => (AnswerInv /\ TalkInv)'
  BY AnswerNext, TalkNext
<1> QED BY <1>1, <1>2, PTL DEF Spec

(* `staged_items` is committed with the turn that completes only           *)
(* (websocket.rs): what a turn that failed was asked is in no later        *)
(* request.                                                                *)
THEOREM FailuresAreForgotten == Spec => []FailedTurnIsForgotten
<1>1. TalkInv => FailedTurnIsForgotten
  BY DEF TalkInv, StagedWell, FailedTurnIsForgotten, TurnRuns
<1> QED BY <1>1, TalkHolds, PTL

(* `normalize` (websocket.rs): the calls of the last answer have their     *)
(* results in the request that goes on from it, and after a failure a      *)
(* request that is whole is taken as it is.                                *)
THEOREM RequestsStayWhole == Spec => []RequestsAreWhole
<1>1. TalkInv => RequestsAreWhole
  BY DEF TalkInv, StagedWell, Whole, RequestsAreWhole, CallsAreAnswered, ReplacementReplaces,
         TurnRuns
<1> QED BY <1>1, TalkHolds, PTL
=============================================================================
