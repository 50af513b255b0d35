-------------------------- MODULE BacktesterProofs --------------------------
(***************************************************************************)
(* Theorems about Backtester for files of any length, every window of time *)
(* and every number of clicks: types, the flag and the timer, the buttons  *)
(* of the window, and the order in which a book gets its messages.  Main   *)
(* runs the backtester on what the parser has made of the file, and so has *)
(* all of these properties; and what the parser makes of any file, of any  *)
(* number of fields to a line, is its lines behind the header.             *)
(***************************************************************************)
EXTENDS Main, SequenceTheorems, FiniteInduction, TLAPS

Signals == {"start", "stop", "restart", "points", "finished"}

Frame == [pc : {"loop", "events", "turn"}, msg : 0 .. N - 1]

\* No Stop is queued behind position i.
NoStopBehind(i) == \A j \in DOMAIN posted : j > i => posted[j] # "stop"

\* While the window waits, something is going on that ends in OnBacktestFinished: a
\* call, that signal itself, a start that no Stop follows, or the timer.
WaitingEnds ==
  buttons = Waiting =>
    \/ frames # <<>>
    \/ \E i \in DOMAIN posted : posted[i] = "finished"
    \/ \E i \in DOMAIN posted : posted[i] \in {"start", "restart"} /\ NoStopBehind(i)
    \/ timer # "off" /\ NoStopBehind(0)

\* The index is at the book's last message or behind it, and a book that is behind the
\* first message has had its volumes calculated.
BookAtIndex ==
  /\ book.last <= current_message_index_
  /\ current_message_index_ > 0 => book.update_possible

\* The inductive invariant.  Each part is inductive given the types: WaitingEnds is what
\* makes IdleIsReady inductive, BookAtIndex what the action properties need.
IInv ==
  /\ TypeOK
  /\ RunningIsDriven
  /\ buttons.start \/ buttons = Waiting
  /\ buttons.start => ~buttons.stop
  /\ WaitingEnds
  /\ BookAtIndex

-----------------------------------------------------------------------------
(* What clear_data leaves.                                                 *)

\* clear_data leaves a queue of the signals that were in it, whatever was in it.
LEMMA NotToGuiType ==
  ASSUME NEW S, NEW s \in Seq(S)
  PROVE  NotToGui(s) \in Seq(S)
<1> DEFINE L == Len(s)
           Step(f, n) == IF n = 0 THEN <<>>
                         ELSE IF ToGui(s[n]) THEN f[n - 1] ELSE Append(f[n - 1], s[n])
           kept[n \in 0 .. L] == Step(kept, n)
           Good(f, n) == f \in [0 .. n -> Seq(S)] /\ \A i \in 0 .. n : f[i] = Step(f, i)
           Bad == {n \in 0 .. L : \A f \in [0 .. n -> Seq(S)] : ~Good(f, n)}
<1>1. L \in Nat /\ \A n \in 1 .. L : s[n] \in S
  OBVIOUS
<1> HIDE DEF L
<1>3. Bad = {}
  <2> SUFFICES ASSUME Bad # {} PROVE FALSE
    OBVIOUS
  <2>1. PICK n \in Bad : \A m \in Bad : n <= m
    <3>1. Bad \subseteq Nat
      BY <1>1
    <3> HIDE DEF Bad
    <3> QED BY <3>1, LeastNumberExists
  <2>2. CASE n = 0
    <3> DEFINE f == [i \in 0 .. 0 |-> <<>>]
    <3>1. f \in [0 .. n -> Seq(S)] /\ \A i \in 0 .. n : f[i] = Step(f, i)
      BY <2>2
    <3> QED BY <3>1
  <2>3. CASE n # 0
    <3>0. n \in 0 .. L
      OBVIOUS
    <3>1. n - 1 \in 0 .. L /\ n - 1 \notin Bad
      <4> HIDE DEF Bad
      <4> QED BY <2>1, <2>3, <1>1, <3>0
    <3>2. PICK f \in [0 .. n - 1 -> Seq(S)] : Good(f, n - 1)
      BY <3>1
    <3> DEFINE g == [i \in 0 .. n |-> IF i = n THEN Step(f, n) ELSE f[i]]
    <3>3. Step(f, n) \in Seq(S)
      <4>1. f[n - 1] \in Seq(S)
        BY <2>3, <1>1
      <4>2. s[n] \in S
        BY <2>3, <1>1
      <4>3. Append(f[n - 1], s[n]) \in Seq(S)
        BY <4>1, <4>2, AppendProperties
      <4> QED BY <4>1, <4>3, <2>3
    <3>4. g \in [0 .. n -> Seq(S)]
      BY <3>3, <1>1
    <3>5. ASSUME NEW i \in 0 .. n PROVE g[i] = Step(g, i)
      <4>1. CASE i = 0
        BY <4>1, <2>3, <3>2
      <4>2. CASE i # 0
        <5>1. i - 1 \in 0 .. n - 1 /\ g[i - 1] = f[i - 1]
          BY <4>2, <1>1
        <5>2. Step(g, i) = Step(f, i)
          BY <5>1, <4>2
        <5>3. CASE i = n
          BY <5>2, <5>3
        <5>4. CASE i # n
          <6>1. i \in 0 .. n - 1 /\ g[i] = f[i]
            BY <5>4, <1>1
          <6>2. f[i] = Step(f, i)
            BY <6>1, <3>2
          <6> QED BY <6>1, <6>2, <5>2
        <5> QED BY <5>3, <5>4
      <4> QED BY <4>1, <4>2
    <3>6. Good(g, n)
      BY <3>4, <3>5
    <3> QED BY <3>6
  <2> QED BY <2>2, <2>3
<1>4. PICK f \in [0 .. L -> Seq(S)] : Good(f, L)
  <2>1. L \in 0 .. L /\ L \notin Bad
    <3> HIDE DEF Bad
    <3> QED BY <1>3, <1>1
  <2> QED BY <2>1
<1>5. f = [n \in 0 .. L |-> Step(f, n)]
  BY <1>4
<1>6. kept = [n \in 0 .. L |-> Step(kept, n)]
  BY <1>5
<1> DEFINE Wrong == {n \in 0 .. L : kept[n] \notin Seq(S)}
<1> HIDE DEF kept
<1>7. Wrong = {}
  <2> SUFFICES ASSUME Wrong # {} PROVE FALSE
    OBVIOUS
  <2>1. PICK n \in Wrong : \A m \in Wrong : n <= m
    <3>1. Wrong \subseteq Nat
      BY <1>1
    <3> HIDE DEF Wrong
    <3> QED BY <3>1, LeastNumberExists
  <2>2. n # 0
    <3>1. 0 \in 0 .. L
      BY <1>1
    <3>2. kept[0] = <<>>
      BY <1>6, <3>1
    <3>3. <<>> \in Seq(S)
      OBVIOUS
    <3> QED BY <3>2, <3>3
  <2>3. n - 1 \in 0 .. L /\ n - 1 \notin Wrong
    BY <2>1, <2>2, <1>1
  <2>4. kept[n - 1] \in Seq(S) /\ s[n] \in S
    BY <2>2, <2>3, <1>1
  <2>5. Append(kept[n - 1], s[n]) \in Seq(S)
    BY <2>4, AppendProperties
  <2>6. kept[n] = Step(kept, n)
    BY <1>6
  <2> QED BY <2>2, <2>4, <2>5, <2>6
<1>8. kept[L] \in Seq(S)
  <2>1. L \in 0 .. L /\ L \notin Wrong
    <3> HIDE DEF Wrong
    <3> QED BY <1>7, <1>1
  <2> QED BY <2>1
<1>9. NotToGui(s) = kept[L]
  BY DEF NotToGui, kept, L
<1> QED BY <1>8, <1>9

-----------------------------------------------------------------------------
(* The invariant.                                                          *)

LEMMA InitIInv == Init => IInv
<1> SUFFICES ASSUME Init PROVE IInv
  OBVIOUS
<1> USE BacktesterAssumption
<1>1. TypeOK
  <2>1. buttons \in [start : BOOLEAN, stop : BOOLEAN, restart : BOOLEAN]
    BY DEF Init, Ready
  <2>2. posted \in Seq(Signals) /\ frames \in Seq(Frame)
    BY DEF Init
  <2>3. current_message_index_ \in 0 .. N - 1 /\ book \in [last : -1 .. N - 1, update_possible : BOOLEAN]
    BY DEF Init, NewBook
  <2>4. clicks \in 0 .. MaxClicks /\ timer \in {"off", "armed", "busy"} /\ closes \in Closings
    BY DEF Init
  <2>5. running_ \in BOOLEAN /\ first_update_ \in BOOLEAN
    BY DEF Init
  <2> QED BY <2>1, <2>2, <2>3, <2>4, <2>5 DEF TypeOK, Signals, Frame
<1>2. RunningIsDriven /\ BookAtIndex
  BY DEF Init, RunningIsDriven, BookAtIndex, NewBook
<1>3. buttons.start /\ ~buttons.stop
  BY DEF Init, Ready
<1>4. WaitingEnds
  BY <1>3 DEF WaitingEnds, Waiting
<1> QED BY <1>1, <1>2, <1>3, <1>4 DEF IInv

\* A click: only the buttons and the queue change.
LEMMA ClicksKeepIInv == IInv /\ User => IInv'
<1> SUFFICES ASSUME IInv, User PROVE IInv'
  OBVIOUS
<1> USE BacktesterAssumption DEF IInv
<1>1. /\ timer' = timer /\ frames' = frames /\ closes' = closes
      /\ current_message_index_' = current_message_index_ /\ running_' = running_
      /\ first_update_' = first_update_ /\ book' = book
      /\ clicks' \in 0 .. MaxClicks
  BY DEF User, HandleStartButtonClick, HandleStopButtonClick, HandleRestartButtonClick,
         Click, backtester, TypeOK
<1>2. buttons' \in {Ready, Waiting}
  BY DEF User, HandleStartButtonClick, HandleStopButtonClick, HandleRestartButtonClick
<1>3. PICK q \in Seq(Signals), signal \in {"start", "stop", "restart"} :
        posted' = Append(q, signal) /\ (buttons' = Waiting => signal # "stop")
  <2>1. posted \in Seq(Signals)
    BY DEF TypeOK, Signals
  <2>2. NotToGui(posted) \in Seq(Signals)
    BY <2>1, NotToGuiType
  <2>3. Ready # Waiting
    BY DEF Ready, Waiting
  <2>4. CASE HandleStartButtonClick
    BY <2>1, <2>4 DEF HandleStartButtonClick
  <2>5. CASE HandleStopButtonClick
    BY <2>1, <2>3, <2>5 DEF HandleStopButtonClick
  <2>6. CASE HandleRestartButtonClick
    BY <2>2, <2>6 DEF HandleRestartButtonClick
  <2> QED BY <2>4, <2>5, <2>6 DEF User
<1>4. /\ posted' \in Seq(Signals)
      /\ Len(posted') \in DOMAIN posted' /\ posted'[Len(posted')] = signal
      /\ \A j \in DOMAIN posted' : ~(j > Len(posted'))
  BY <1>3, AppendProperties DEF Signals
<1>5. TypeOK'
  <2>1. buttons' \in [start : BOOLEAN, stop : BOOLEAN, restart : BOOLEAN]
    <3>1. CASE buttons' = Ready
      BY <3>1 DEF Ready
    <3>2. CASE buttons' = Waiting
      BY <3>2 DEF Waiting
    <3> QED BY <1>2, <3>1, <3>2
  <2> QED BY <1>1, <1>4, <2>1 DEF TypeOK, Signals
<1>6. RunningIsDriven' /\ BookAtIndex'
  BY <1>1 DEF RunningIsDriven, BookAtIndex
<1>7. (buttons.start \/ buttons = Waiting)' /\ (buttons.start => ~buttons.stop)'
  BY <1>2 DEF Ready, Waiting
<1>8. WaitingEnds'
  BY <1>3, <1>4 DEF WaitingEnds, NoStopBehind
<1> QED BY <1>5, <1>6, <1>7, <1>8

\* A slot takes the oldest signal: what was at a position is one before it.
LEMMA SlotsKeepIInv == IInv /\ Slots => IInv'
<1> SUFFICES ASSUME IInv, Slots PROVE IInv'
  OBVIOUS
<1> USE BacktesterAssumption DEF IInv
<1>1. /\ clicks' = clicks /\ frames' = frames /\ closes' = closes
      /\ posted # <<>> /\ posted' = Tail(posted)
  BY DEF Slots, ShowPoints, OnBacktestFinished, StartBacktest, StopBacktest, RestartBacktest,
         Deliver
<1>2. /\ posted' \in Seq(Signals)
      /\ \A i \in DOMAIN posted' : i + 1 \in DOMAIN posted /\ posted'[i] = posted[i + 1]
      /\ \A i \in DOMAIN posted : i # 1 => i - 1 \in DOMAIN posted' /\ posted'[i - 1] = posted[i]
      /\ 1 \in DOMAIN posted /\ posted[1] = Head(posted)
      /\ DOMAIN posted = 1 .. Len(posted) /\ Len(posted) \in Nat
  <2>1. posted \in Seq(Signals)
    BY DEF TypeOK, Signals
  <2>2. /\ posted' \in Seq(Signals) /\ Len(posted') = Len(posted) - 1
        /\ \A i \in 1 .. Len(posted') : posted'[i] = posted[i + 1]
    BY <1>1, <2>1, HeadTailProperties
  <2>3. DOMAIN posted' = 1 .. Len(posted') /\ DOMAIN posted = 1 .. Len(posted)
        /\ Len(posted) \in Nat /\ Len(posted') \in Nat
    BY <2>1, <2>2
  <2>4. \A i \in 1 .. Len(posted) : i # 1 => i - 1 \in 1 .. Len(posted')
    BY <2>2, <2>3
  <2>5. posted[1] = Head(posted)
    BY <1>1, <2>1
  <2> QED BY <2>2, <2>3, <2>4, <2>5
<1>3. \A i \in DOMAIN posted : i # 1 /\ NoStopBehind(i) => NoStopBehind(i - 1)'
  BY <1>2 DEF NoStopBehind
<1>4. TypeOK /\ current_message_index_ \in Nat /\ current_message_index_ < N
      /\ running_ \in BOOLEAN
  BY DEF TypeOK
<1>5. CASE ShowPoints
  <2>1. /\ buttons' = buttons /\ timer' = timer /\ Head(posted) = "points"
        /\ current_message_index_' = current_message_index_ /\ running_' = running_
        /\ first_update_' = first_update_ /\ book' = book
    BY <1>5 DEF ShowPoints, Deliver, backtester
  <2>2. TypeOK'
    BY <1>1, <1>2, <2>1 DEF TypeOK, Signals
  <2>3. RunningIsDriven' /\ BookAtIndex'
    BY <1>1, <2>1 DEF RunningIsDriven, BookAtIndex
  <2>4. NoStopBehind(0) => NoStopBehind(0)'
    BY <1>2 DEF NoStopBehind
  <2>5. \A i \in DOMAIN posted : posted[i] # "points" => i # 1
    BY <1>2, <2>1
  <2>6. ASSUME buttons = Waiting PROVE WaitingEnds'
    <3>1. CASE frames # <<>>
      BY <1>1, <3>1 DEF WaitingEnds
    <3>2. CASE \E i \in DOMAIN posted : posted[i] = "finished"
      <4>1. \E i \in DOMAIN posted' : posted'[i] = "finished"
        BY <1>2, <2>5, <3>2
      <4> QED BY <4>1 DEF WaitingEnds
    <3>3. CASE \E i \in DOMAIN posted : posted[i] \in {"start", "restart"} /\ NoStopBehind(i)
      <4>1. PICK i \in DOMAIN posted : posted[i] \in {"start", "restart"} /\ NoStopBehind(i)
        BY <3>3
      <4>2. i # 1
        BY <2>5, <4>1
      <4>3. i - 1 \in DOMAIN posted' /\ posted'[i - 1] \in {"start", "restart"}
            /\ NoStopBehind(i - 1)'
        BY <1>2, <1>3, <4>1, <4>2
      <4> QED BY <4>3 DEF WaitingEnds
    <3>4. CASE timer # "off" /\ NoStopBehind(0)
      BY <2>1, <2>4, <3>4 DEF WaitingEnds
    <3> QED BY <2>6, <3>1, <3>2, <3>3, <3>4 DEF WaitingEnds
  <2>7. WaitingEnds'
    BY <2>1, <2>6 DEF WaitingEnds
  <2> QED BY <2>1, <2>2, <2>3, <2>7
<1>6. CASE OnBacktestFinished
  <2>1. /\ buttons' = Ready /\ timer' = timer
        /\ current_message_index_' = current_message_index_ /\ running_' = running_
        /\ first_update_' = first_update_ /\ book' = book
    BY <1>6 DEF OnBacktestFinished, backtester
  <2>2. TypeOK'
    <3>1. buttons' \in [start : BOOLEAN, stop : BOOLEAN, restart : BOOLEAN]
      BY <2>1 DEF Ready
    <3> QED BY <1>1, <1>2, <2>1, <3>1 DEF TypeOK, Signals
  <2>3. RunningIsDriven' /\ BookAtIndex'
    BY <1>1, <2>1 DEF RunningIsDriven, BookAtIndex
  <2>4. WaitingEnds' /\ buttons'.start /\ ~buttons'.stop
    BY <2>1 DEF WaitingEnds, Ready, Waiting
  <2> QED BY <2>2, <2>3, <2>4
<1>7. CASE StartBacktest
  <2>1. /\ buttons' = buttons /\ Head(posted) = "start"
        /\ current_message_index_' = current_message_index_ /\ running_' = TRUE
        /\ first_update_' = first_update_ /\ book' = book
        /\ timer' = IF running_ THEN timer ELSE "armed"
    BY <1>4, <1>7 DEF StartBacktest, Deliver
  <2>2. timer' \in {"off", "armed", "busy"}
    BY <2>1 DEF TypeOK
  <2>3. TypeOK'
    BY <1>1, <1>2, <2>1, <2>2 DEF TypeOK, Signals
  <2>4. timer' # "off" \/ frames' # <<>>
    BY <1>1, <1>4, <2>1 DEF RunningIsDriven
  <2>5. RunningIsDriven' /\ BookAtIndex'
    BY <2>1, <2>4 DEF RunningIsDriven, BookAtIndex
  <2>6. \A i \in DOMAIN posted : posted[i] # "start" => i # 1
    BY <1>2, <2>1
  <2>7. ASSUME buttons = Waiting, frames = <<>> PROVE WaitingEnds'
    <3>1. CASE \E i \in DOMAIN posted : posted[i] = "finished"
      <4>1. \E i \in DOMAIN posted' : posted'[i] = "finished"
        BY <1>2, <2>6, <3>1
      <4> QED BY <4>1 DEF WaitingEnds
    <3>2. CASE \E i \in DOMAIN posted : posted[i] \in {"start", "restart"} /\ NoStopBehind(i)
      <4>1. PICK i \in DOMAIN posted : posted[i] \in {"start", "restart"} /\ NoStopBehind(i)
        BY <3>2
      <4>2. CASE i = 1
        <5>1. NoStopBehind(0)'
          BY <1>2, <4>1, <4>2 DEF NoStopBehind
        <5> QED BY <1>1, <2>4, <2>7, <5>1 DEF WaitingEnds
      <4>3. CASE i # 1
        <5>1. i - 1 \in DOMAIN posted' /\ posted'[i - 1] \in {"start", "restart"}
              /\ NoStopBehind(i - 1)'
          BY <1>2, <1>3, <4>1, <4>3
        <5> QED BY <5>1 DEF WaitingEnds
      <4> QED BY <4>2, <4>3
    <3>3. CASE timer # "off" /\ NoStopBehind(0)
      <4>1. NoStopBehind(0)'
        BY <1>2, <3>3 DEF NoStopBehind
      <4> QED BY <1>1, <2>4, <2>7, <4>1 DEF WaitingEnds
    <3> QED BY <2>7, <3>1, <3>2, <3>3 DEF WaitingEnds
  <2>8. WaitingEnds'
    BY <1>1, <2>1, <2>7 DEF WaitingEnds
  <2> QED BY <2>1, <2>3, <2>5, <2>8
<1>8. CASE StopBacktest
  <2>1. /\ buttons' = buttons /\ Head(posted) = "stop"
        /\ current_message_index_' = current_message_index_ /\ running_' = FALSE
        /\ first_update_' = first_update_ /\ book' = book /\ timer' = "off"
    BY <1>8 DEF StopBacktest, Deliver
  <2>2. TypeOK'
    BY <1>1, <1>2, <2>1 DEF TypeOK, Signals
  <2>3. RunningIsDriven' /\ BookAtIndex'
    BY <2>1 DEF RunningIsDriven, BookAtIndex
  <2>4. \A i \in DOMAIN posted : posted[i] # "stop" => i # 1
    BY <1>2, <2>1
  <2>5. ASSUME buttons = Waiting, frames = <<>> PROVE WaitingEnds'
    <3>1. ~NoStopBehind(0)
      BY <1>2, <2>1 DEF NoStopBehind
    <3>2. CASE \E i \in DOMAIN posted : posted[i] = "finished"
      <4>1. \E i \in DOMAIN posted' : posted'[i] = "finished"
        BY <1>2, <2>4, <3>2
      <4> QED BY <4>1 DEF WaitingEnds
    <3>3. CASE \E i \in DOMAIN posted : posted[i] \in {"start", "restart"} /\ NoStopBehind(i)
      <4>1. PICK i \in DOMAIN posted : posted[i] \in {"start", "restart"} /\ NoStopBehind(i)
        BY <3>3
      <4>2. i # 1
        BY <2>4, <4>1
      <4>3. i - 1 \in DOMAIN posted' /\ posted'[i - 1] \in {"start", "restart"}
            /\ NoStopBehind(i - 1)'
        BY <1>2, <1>3, <4>1, <4>2
      <4> QED BY <4>3 DEF WaitingEnds
    <3> QED BY <2>5, <3>1, <3>2, <3>3 DEF WaitingEnds
  <2>6. WaitingEnds'
    BY <1>1, <2>1, <2>5 DEF WaitingEnds
  <2> QED BY <2>1, <2>2, <2>3, <2>6
<1>9. CASE RestartBacktest
  <2>1. /\ buttons' = buttons /\ Head(posted) = "restart"
        /\ current_message_index_' = 0 /\ running_' = TRUE
        /\ first_update_' = FALSE /\ book' = NewBook /\ timer' = "armed"
    BY <1>9 DEF RestartBacktest, ResetState, Deliver
  <2>2. TypeOK'
    <3>1. 0 \in 0 .. N - 1 /\ -1 \in -1 .. N - 1
      OBVIOUS
    <3> QED BY <1>1, <1>2, <2>1, <3>1 DEF TypeOK, Signals, NewBook
  <2>3. RunningIsDriven' /\ BookAtIndex'
    BY <2>1 DEF RunningIsDriven, BookAtIndex, NewBook
  <2>4. \A i \in DOMAIN posted : posted[i] # "restart" => i # 1
    BY <1>2, <2>1
  <2>5. ASSUME buttons = Waiting, frames = <<>> PROVE WaitingEnds'
    <3>1. CASE \E i \in DOMAIN posted : posted[i] = "finished"
      <4>1. \E i \in DOMAIN posted' : posted'[i] = "finished"
        BY <1>2, <2>4, <3>1
      <4> QED BY <4>1 DEF WaitingEnds
    <3>2. CASE \E i \in DOMAIN posted : posted[i] \in {"start", "restart"} /\ NoStopBehind(i)
      <4>1. PICK i \in DOMAIN posted : posted[i] \in {"start", "restart"} /\ NoStopBehind(i)
        BY <3>2
      <4>2. CASE i = 1
        <5>1. NoStopBehind(0)'
          BY <1>2, <4>1, <4>2 DEF NoStopBehind
        <5> QED BY <2>1, <5>1 DEF WaitingEnds
      <4>3. CASE i # 1
        <5>1. i - 1 \in DOMAIN posted' /\ posted'[i - 1] \in {"start", "restart"}
              /\ NoStopBehind(i - 1)'
          BY <1>2, <1>3, <4>1, <4>3
        <5> QED BY <5>1 DEF WaitingEnds
      <4> QED BY <4>2, <4>3
    <3>3. CASE timer # "off" /\ NoStopBehind(0)
      <4>1. NoStopBehind(0)'
        BY <1>2, <3>3 DEF NoStopBehind
      <4> QED BY <2>1, <4>1 DEF WaitingEnds
    <3> QED BY <2>5, <3>1, <3>2, <3>3 DEF WaitingEnds
  <2>6. WaitingEnds'
    BY <1>1, <2>1, <2>5 DEF WaitingEnds
  <2> QED BY <2>1, <2>2, <2>3, <2>6
<1> QED BY <1>5, <1>6, <1>7, <1>8, <1>9 DEF Slots

\* What the loop makes of the frames.
LEMMA FramesTyped ==
  ASSUME NEW S, NEW s \in Seq(S), s # <<>>
  PROVE  /\ Front(s) \in Seq(S)
         /\ Last(s) \in S
         /\ \A frame \in S : Append(Front(s), frame) \in Seq(S) /\ Append(Front(s), frame) # <<>>
<1>1. Len(s) \in Nat \ {0}
  OBVIOUS
<1>2. Front(s) \in Seq(S)
  BY <1>1, SubSeqProperties DEF Front
<1>3. Last(s) \in S
  BY <1>1 DEF Last
<1> QED BY <1>2, <1>3, AppendProperties

LEMMA RunBacktestKeepsIInv == IInv /\ RunBacktest => IInv'
<1> SUFFICES ASSUME IInv, RunBacktest PROVE IInv'
  OBVIOUS
<1> USE BacktesterAssumption DEF IInv
<1>1. /\ buttons' = buttons /\ clicks' = clicks /\ posted' = posted /\ closes' = closes
      /\ current_message_index_' = current_message_index_ /\ book' = book
      /\ timer' = "busy" /\ running_' = TRUE /\ first_update_' = FALSE
  BY DEF RunBacktest, gui
<1>2. /\ frames' \in Seq(Frame)
      /\ frames' # <<>>
  <2>1. [pc |-> "loop", msg |-> 0] \in Frame
    BY DEF Frame
  <2>2. frames \in Seq(Frame)
    BY DEF TypeOK, Frame
  <2> QED BY <2>1, <2>2, AppendProperties DEF RunBacktest
<1>3. TypeOK'
  BY <1>1, <1>2 DEF TypeOK, Frame
<1>4. RunningIsDriven' /\ WaitingEnds' /\ BookAtIndex'
  BY <1>1, <1>2 DEF RunningIsDriven, WaitingEnds, BookAtIndex
<1> QED BY <1>1, <1>3, <1>4

\* What is posted behind the loop is there for the window, and nothing drives it on.
LEMMA FinishKeepsIInv ==
  ASSUME NEW signals, signals \in Seq(Signals), IInv, Finish(signals), frames # <<>>,
         buttons' = buttons, clicks' = clicks, closes' = closes,
         current_message_index_' = current_message_index_, first_update_' \in BOOLEAN,
         book'.last = book.last, book.update_possible => book'.update_possible,
         book' \in [last : -1 .. N - 1, update_possible : BOOLEAN]
  PROVE  IInv'
<1> USE BacktesterAssumption DEF IInv
<1>1. /\ posted' = posted \o Append(signals, "finished")
      /\ running_' = FALSE /\ timer' = "off" /\ frames' = Front(frames)
  BY DEF Finish
<1>2. /\ posted' \in Seq(Signals)
      /\ Len(posted') \in DOMAIN posted' /\ posted'[Len(posted')] = "finished"
  <2> DEFINE q == Append(signals, "finished")
  <2>1. q \in Seq(Signals) /\ Len(q) \in Nat \ {0} /\ q[Len(q)] = "finished"
    BY AppendProperties DEF Signals
  <2>2. posted \in Seq(Signals) /\ Len(posted) \in Nat
    BY DEF TypeOK, Signals
  <2> HIDE DEF q
  <2>3. /\ posted' \in Seq(Signals) /\ Len(posted') = Len(posted) + Len(q)
        /\ posted'[Len(posted) + Len(q)] = q[Len(q)]
    BY <1>1, <2>1, <2>2, ConcatProperties DEF q
  <2>4. DOMAIN posted' = 1 .. Len(posted')
    BY <2>3
  <2> QED BY <2>1, <2>2, <2>3, <2>4
<1>3. frames' \in Seq(Frame)
  <2>1. frames \in Seq(Frame)
    BY DEF TypeOK, Frame
  <2> QED BY <1>1, <2>1, FramesTyped
<1>4. TypeOK'
  BY <1>1, <1>2, <1>3 DEF TypeOK, Signals, Frame
<1>5. RunningIsDriven' /\ BookAtIndex'
  BY <1>1 DEF RunningIsDriven, BookAtIndex
<1>6. WaitingEnds'
  BY <1>2 DEF WaitingEnds
<1> QED BY <1>4, <1>5, <1>6

\* Signals that the loop posts before it goes on.
LEMMA GoOnKeepsIInv ==
  ASSUME NEW signals, signals \in {<<>>, <<"points">>}, IInv,
         posted' = posted \o signals, timer' = timer, running_' = running_,
         frames # <<>>, NEW frame, GoTo(frame),
         frame \in Frame,
         buttons' = buttons, clicks' = clicks, closes' = closes,
         current_message_index_' \in 0 .. N - 1, first_update_' \in BOOLEAN,
         book' \in [last : -1 .. N - 1, update_possible : BOOLEAN],
         BookAtIndex'
  PROVE  IInv'
<1> USE BacktesterAssumption DEF IInv
<1>1. /\ frames' \in Seq(Frame)
      /\ frames' # <<>>
  <2>1. frames \in Seq(Frame)
    BY DEF TypeOK, Frame
  <2> QED BY <2>1, FramesTyped DEF GoTo
<1>2. posted' \in Seq(Signals)
  <2>1. posted \in Seq(Signals)
    BY DEF TypeOK, Signals
  <2>2. "points" \in Signals
    BY DEF Signals
  <2>3. signals \in Seq(Signals)
    <3>1. CASE signals = <<>>
      BY <3>1
    <3>2. CASE signals = <<"points">>
      BY <2>2, <3>2
    <3> QED BY <3>1, <3>2
  <2> QED BY <2>1, <2>3, ConcatProperties
<1>3. TypeOK'
  BY <1>1, <1>2 DEF TypeOK, Signals, Frame
<1>4. RunningIsDriven' /\ WaitingEnds'
  BY <1>1 DEF RunningIsDriven, WaitingEnds
<1> QED BY <1>3, <1>4

LEMMA LoopKeepsIInv == IInv /\ Loop => IInv'
<1> SUFFICES ASSUME IInv, Loop PROVE IInv'
  OBVIOUS
<1> USE BacktesterAssumption
<1>1. frames # <<>> /\ buttons' = buttons /\ clicks' = clicks /\ closes' = closes
  BY DEF Loop, LeaveLoop, ProcessMessage, ReturnFromEvents, EndTurn, At, gui
<1>2. /\ current_message_index_ \in 0 .. N - 1 /\ first_update_ \in BOOLEAN
      /\ book \in [last : -1 .. N - 1, update_possible : BOOLEAN]
      /\ Last(frames) \in Frame
      /\ posted \in Seq(Signals)
  <2>1. frames \in Seq(Frame) /\ posted \in Seq(Signals)
    BY DEF IInv, TypeOK, Signals, Frame
  <2>2. Last(frames) \in Frame
    BY <1>1, <2>1, FramesTyped
  <2> QED BY <2>1, <2>2 DEF IInv, TypeOK
<1>3. <<>> \in Seq(Signals) /\ <<"points">> \in Seq(Signals) /\ posted \o <<>> = posted
      /\ posted \o <<"points">> = Append(posted, "points")
  <2>1. "points" \in Signals
    BY DEF Signals
  <2> QED BY <1>2, <2>1
<1>4. BookAtIndex
  BY DEF IInv
<1>5. CASE LeaveLoop
  <2>1. /\ Finish(<<>>) /\ current_message_index_' = current_message_index_
        /\ first_update_' = first_update_ /\ book' = book
    BY <1>5 DEF LeaveLoop
  <2> QED BY <1>1, <1>2, <1>3, <2>1, FinishKeepsIInv
<1>6. CASE ProcessMessage
  <2>1. /\ timer' = timer /\ running_' = running_ /\ first_update_' = first_update_
        /\ current_message_index_' = current_message_index_
        /\ book' = [book EXCEPT !.last = current_message_index_]
    BY <1>6 DEF ProcessMessage
  <2>2. book' \in [last : -1 .. N - 1, update_possible : BOOLEAN] /\ BookAtIndex'
    BY <1>2, <1>4, <2>1 DEF BookAtIndex
  <2>3. ASSUME NEW pc \in {"events", "turn"}, NEW signals \in {<<>>, <<"points">>},
               posted' = posted \o signals, GoTo([pc |-> pc, msg |-> current_message_index_])
        PROVE  IInv'
    <3>1. [pc |-> pc, msg |-> current_message_index_] \in Frame
      BY <1>2 DEF Frame
    <3> QED BY <1>1, <1>2, <2>1, <2>2, <2>3, <3>1, GoOnKeepsIInv
  <2>4. CASE GoTo([pc |-> "turn", msg |-> current_message_index_]) /\ posted' = posted
    BY <1>3, <2>3, <2>4
  <2>5. CASE /\ GoTo([pc |-> "events", msg |-> current_message_index_])
             /\ posted' = Append(posted, "points")
    BY <1>3, <2>3, <2>5
  <2> QED BY <1>6, <2>4, <2>5 DEF ProcessMessage
<1>7. CASE ReturnFromEvents
  <2>1. /\ timer' = timer /\ running_' = running_ /\ first_update_' = first_update_
        /\ current_message_index_' = current_message_index_ /\ book' = book
        /\ posted' = posted \o <<>>
        /\ GoTo([Last(frames) EXCEPT !.pc = "turn"])
    BY <1>3, <1>7 DEF ReturnFromEvents, backtester
  <2>2. [Last(frames) EXCEPT !.pc = "turn"] \in Frame
    BY <1>2 DEF Frame
  <2>3. BookAtIndex'
    BY <1>4, <2>1 DEF BookAtIndex
  <2> QED BY <1>1, <1>2, <2>1, <2>2, <2>3, GoOnKeepsIInv
<1>8. CASE EndTurn
  <2> DEFINE msg == Last(frames).msg
  <2>1. /\ first_update_' \in BOOLEAN
        /\ book' = [book EXCEPT !.update_possible = @ \/ VolsDue]
    BY <1>8 DEF EndTurn
  <2>2. /\ book' \in [last : -1 .. N - 1, update_possible : BOOLEAN] /\ book'.last = book.last
        /\ book'.update_possible <=> book.update_possible \/ VolsDue
    BY <1>2, <2>1
  <2>3. PICK trades \in Trades(msg) :
          \/ /\ Finish(trades) /\ current_message_index_' = current_message_index_
          \/ /\ ~IsLast(msg)
             /\ current_message_index_' = current_message_index_ + 1
             /\ posted' = posted \o trades
             /\ GoTo([pc |-> "loop", msg |-> 0])
             /\ timer' = timer /\ running_' = running_
    BY <1>8 DEF EndTurn
  <2>4. trades \in {<<>>, <<"points">>}
    BY DEF Trades
  <2>5. CASE Finish(trades) /\ current_message_index_' = current_message_index_
    <3>1. trades \in Seq(Signals)
      BY <1>3, <2>4
    <3> QED BY <1>1, <2>1, <2>2, <2>5, <3>1, FinishKeepsIInv
  <2>6. CASE /\ ~IsLast(msg)
             /\ current_message_index_' = current_message_index_ + 1
             /\ posted' = posted \o trades
             /\ GoTo([pc |-> "loop", msg |-> 0])
             /\ timer' = timer /\ running_' = running_
    <3>1. current_message_index_' \in 0 .. N - 1
      BY <1>2, <2>6 DEF IsLast
    <3>2. book'.update_possible
      <4>1. current_message_index_ = 0 => VolsDue
        BY DEF VolsDue
      <4> QED BY <1>2, <1>4, <2>2, <4>1 DEF BookAtIndex
    <3>3. BookAtIndex'
      BY <1>2, <1>4, <2>2, <2>6, <3>2 DEF BookAtIndex
    <3>4. [pc |-> "loop", msg |-> 0] \in Frame
      BY DEF Frame
    <3> QED BY <1>1, <2>1, <2>2, <2>4, <2>6, <3>1, <3>3, <3>4, GoOnKeepsIInv
  <2> QED BY <2>3, <2>5, <2>6
<1> QED BY <1>5, <1>6, <1>7, <1>8 DEF Loop

LEMMA NextIInv == IInv /\ [Next]_vars => IInv'
<1> SUFFICES ASSUME IInv, [Next]_vars PROVE IInv'
  OBVIOUS
<1>1. CASE UNCHANGED vars
  BY <1>1 DEF vars, gui, backtester, IInv, TypeOK, RunningIsDriven, WaitingEnds, NoStopBehind,
              BookAtIndex
<1> QED BY <1>1, ClicksKeepIInv, SlotsKeepIInv, RunBacktestKeepsIInv, LoopKeepsIInv
        DEF Next, Thread

LEMMA Invariance == Spec => []IInv
BY InitIInv, NextIInv, PTL DEF Spec

-----------------------------------------------------------------------------
(* The theorems.                                                           *)

\* Every variable keeps its type: above all, the index stays inside messages_, whatever
\* calls of run_backtest nest and whatever restarts come in between.
THEOREM TypeCorrect == Spec => []TypeOK
<1>1. IInv => TypeOK
  BY DEF IInv
<1> QED BY <1>1, Invariance, PTL

\* running_ is set only while the timer or a call will clear it, and the timer runs only
\* while it is set: start_backtest does not answer "already running" for ever.
THEOREM FlagCorrect == Spec => []RunningIsDriven
<1>1. IInv => RunningIsDriven
  BY DEF IInv
<1> QED BY <1>1, Invariance, PTL

\* When the queue is empty, no call is open and the timer is off, the user can start a run
\* and the flag is clear, in whatever order clicks and slots came before.
THEOREM ButtonsCorrect == Spec => []IdleIsReady
<1>1. IInv => IdleIsReady
  <2> SUFFICES ASSUME IInv, posted = <<>>, frames = <<>>, timer = "off" PROVE
        ~running_ /\ buttons.start /\ ~buttons.stop
    BY DEF IdleIsReady
  <2>1. ~running_
    BY DEF IInv, RunningIsDriven
  <2>2. DOMAIN posted = {}
    OBVIOUS
  <2>3. buttons # Waiting
    BY <2>2 DEF IInv, WaitingEnds
  <2> QED BY <2>1, <2>3 DEF IInv
<1> QED BY <1>1, Invariance, PTL

\* No book gets an earlier message after a later one, however calls nest.
THEOREM BookOrderCorrect == Spec => BookGoesForward
<1>1. IInv /\ [Next]_vars => [book'.last # book.last => book' = NewBook \/ book'.last > book.last]_vars
  <2> SUFFICES ASSUME IInv, Next, book'.last # book.last
               PROVE  book' = NewBook \/ book'.last > book.last
    BY DEF vars
  <2>1. CASE book' = book
    BY <2>1
  <2>2. CASE RestartBacktest
    BY <2>2 DEF RestartBacktest, ResetState
  <2>3. CASE ProcessMessage
    <3>1. book'.last = current_message_index_ /\ current_message_index_ \in Int /\ book.last \in Int
      BY <2>3 DEF ProcessMessage, IInv, TypeOK
    <3> QED BY <3>1 DEF IInv, BookAtIndex
  <2>4. CASE EndTurn
    <3>1. book'.last = book.last
      BY <2>4 DEF EndTurn, IInv, TypeOK
    <3> QED BY <3>1
  <2> QED BY <2>1, <2>2, <2>3, <2>4
      DEF Next, User, HandleStartButtonClick, HandleStopButtonClick, HandleRestartButtonClick,
          Click, Thread, Slots, Deliver, ShowPoints, OnBacktestFinished, StartBacktest,
          StopBacktest, RunBacktest, Loop, LeaveLoop, ReturnFromEvents, backtester
<1> QED BY <1>1, Invariance, PTL DEF Spec, BookGoesForward

\* The strategy never reads volumes that nothing has calculated on that book.
THEOREM VolsCorrect == Spec => VolsBeforeStrategy
<1>1. IInv /\ [Next]_vars
        => [EndTurn /\ Last(frames).msg >= Opens => book'.update_possible]_vars
  <2> SUFFICES ASSUME IInv, EndTurn PROVE book'.update_possible
    BY DEF vars
  <2>1. current_message_index_ \in Nat /\ book \in [last : -1 .. N - 1, update_possible : BOOLEAN]
    BY BacktesterAssumption DEF IInv, TypeOK
  <2>2. book'.update_possible <=> book.update_possible \/ VolsDue
    BY <2>1 DEF EndTurn
  <2>3. current_message_index_ = 0 => VolsDue
    BY BacktesterAssumption DEF VolsDue
  <2> QED BY <2>1, <2>2, <2>3 DEF IInv, BookAtIndex
<1> QED BY <1>1, Invariance, PTL DEF Spec, VolsBeforeStrategy

\* The program is the backtester on what the parser has made of the file, so that all of
\* this holds of it, too.
THEOREM MainRunsBacktester == MainSpec => Spec
<1>1. MainInit => Init
  BY DEF MainInit
<1>2. [MainNext]_<<parser, vars>> => [Next]_vars
  BY DEF MainNext, Parse, Exec
<1> QED BY <1>1, <1>2, PTL DEF MainSpec, Spec

-----------------------------------------------------------------------------
(* The parser.                                                             *)

\* How many commas come before a field.
Lead(k) == IF k = 1 THEN 0 ELSE 1

\* What Line joins.
Pieces(fields) == [k \in DOMAIN fields |-> (IF k = 1 THEN <<>> ELSE <<Comma>>) \o fields[k]]

\* Where in a line each field is, with the comma before it.
FieldsAt(fo, fields) ==
  /\ fo \in [1 .. Len(fields) + 1 -> Nat]
  /\ fo[1] = 0 /\ fo[Len(fields) + 1] = Len(Line(fields))
  /\ \A k \in 1 .. Len(fields) : fo[k + 1] = fo[k] + Lead(k) + Len(fields[k])
  /\ \A k \in 1 .. Len(fields) : k # 1 => Line(fields)[fo[k] + 1] = Comma
  /\ \A k \in 1 .. Len(fields) : \A i \in 1 .. Len(fields[k]) :
        Line(fields)[fo[k] + Lead(k) + i] = fields[k][i]

\* p is field s behind its comma.
IsPiece(p, s, k) ==
  /\ Len(p) = Lead(k) + Len(s)
  /\ k # 1 => p[1] = Comma
  /\ \A i \in 1 .. Len(s) : p[Lead(k) + i] = s[i]

\* Every piece is one.
LEMMA PieceIs ==
  ASSUME NEW S, Comma \in S, NEW fields \in Seq(Seq(S)), NEW k \in DOMAIN fields
  PROVE  Pieces(fields)[k] \in Seq(S) /\ IsPiece(Pieces(fields)[k], fields[k], k)
<1> DEFINE p == Pieces(fields)[k]
           t == fields[k]
           c == IF k = 1 THEN <<>> ELSE <<Comma>>
<1>1. p = c \o t
  BY DEF Pieces
<1>2. t \in Seq(S) /\ Len(t) \in Nat
  BY ElementsOfSeq, LenProperties
<1>3. /\ c \in Seq(S) /\ Len(c) = Lead(k)
      /\ k # 1 => c[1] = Comma
  BY DEF Lead
<1>4. Lead(k) \in {0, 1} /\ (k # 1 => Lead(k) = 1)
  BY DEF Lead
<1> HIDE DEF c, t, p
<1>5. /\ c \o t \in Seq(S) /\ Len(c \o t) = Lead(k) + Len(t)
      /\ \A i \in 1 .. Lead(k) + Len(t) :
           (c \o t)[i] = IF i <= Lead(k) THEN c[i] ELSE t[i - Lead(k)]
  BY <1>2, <1>3, ConcatProperties, SMTT(30)
<1> DEFINE d == Lead(k)
<1> SUFFICES /\ p \in Seq(S) /\ Len(p) = d + Len(t) /\ (k # 1 => p[1] = Comma)
             /\ \A i \in 1 .. Len(t) : p[d + i] = t[i]
  BY DEF p, t, IsPiece
<1>6. /\ p \in Seq(S) /\ Len(p) = d + Len(t) /\ d \in {0, 1} /\ (k # 1 => d = 1)
      /\ \A i \in 1 .. d + Len(t) : p[i] = IF i <= d THEN c[i] ELSE t[i - d]
  BY <1>1, <1>4, <1>5
<1> HIDE DEF d
<1>7. ASSUME k # 1 PROVE p[1] = Comma
  <2>1. 1 \in 1 .. d + Len(t) /\ 1 <= d
    BY <1>2, <1>6, <1>7
  <2> QED BY <1>3, <1>6, <1>7, <2>1
<1>8. ASSUME NEW i \in 1 .. Len(t) PROVE p[d + i] = t[i]
  <2>1. d + i \in 1 .. d + Len(t) /\ ~(d + i <= d) /\ (d + i) - d = i
    BY <1>2, <1>6
  <2> QED BY <1>6, <2>1
<1> QED BY <1>6, <1>7, <1>8

\* Every line has its fields where FieldsAt says.
LEMMA LineIs ==
  ASSUME NEW S, Comma \in S, NEW fields \in Seq(Seq(S))
  PROVE  Line(fields) \in Seq(S) /\ \E fo : FieldsAt(fo, fields)
<1> DEFINE n == Len(fields)
           pp == Pieces(fields)
<1>1. n \in Nat /\ DOMAIN fields = 1 .. n /\ DOMAIN pp = 1 .. n
  BY LenProperties DEF Pieces
<1>2. Line(fields) = FlattenSeq(pp)
  BY DEF Line, Pieces
<1>3. \A k \in 1 .. n : pp[k] \in Seq(S) /\ IsPiece(pp[k], fields[k], k)
  <2> HIDE DEF n
  <2> QED BY <1>1, PieceIs
<1>4. pp \in Seq(Seq(S)) /\ Len(pp) = n
  <2>0. pp = [k \in 1 .. n |-> pp[k]]
    BY <1>1 DEF Pieces
  <2> HIDE DEF pp, n
  <2>1. pp \in [1 .. n -> Seq(S)]
    BY <1>3, <2>0
  <2>2. pp \in Seq(Seq(S))
    BY <1>1, <2>1, SeqDef
  <2> QED BY <1>1, <2>2, LenProperties
<1>5. \A k \in 1 .. n : fields[k] \in Seq(S) /\ Len(fields[k]) \in Nat
  BY <1>1, ElementsOfSeq, LenProperties
<1> HIDE DEF pp, n
<1>6. PICK fo : Offsets(fo, pp)
  BY <1>4, OffsetsExist
<1>7. FlattenSeq(pp) \in Seq(S)
  BY <1>4, FlattenSeqType
<1>8. /\ fo \in [1 .. n + 1 -> Nat] /\ fo[1] = 0 /\ fo[n + 1] = Len(Line(fields))
      /\ \A k \in 1 .. n : fo[k + 1] = fo[k] + Len(pp[k])
      /\ \A k \in 1 .. n : \A i \in 1 .. Len(pp[k]) : Line(fields)[fo[k] + i] = pp[k][i]
  BY <1>2, <1>4, <1>6 DEF Offsets
<1>9. ASSUME NEW k \in 1 .. n
      PROVE  /\ fo[k + 1] = fo[k] + Lead(k) + Len(fields[k])
             /\ k # 1 => Line(fields)[fo[k] + 1] = Comma
             /\ \A i \in 1 .. Len(fields[k]) : Line(fields)[fo[k] + Lead(k) + i] = fields[k][i]
  <2> DEFINE c == Lead(k)
             m == Len(fields[k])
  <2>1. c \in {0, 1} /\ (k # 1 => c = 1)
    BY DEF Lead
  <2>2. m \in Nat /\ fo[k] \in Nat /\ Len(pp[k]) = c + m
    BY <1>1, <1>3, <1>5, <1>8 DEF IsPiece
  <2>3. /\ \A i \in 1 .. m : pp[k][c + i] = fields[k][i]
        /\ k # 1 => pp[k][1] = Comma
    BY <1>3 DEF IsPiece
  <2> SUFFICES /\ fo[k + 1] = fo[k] + c + m
               /\ k # 1 => Line(fields)[fo[k] + 1] = Comma
               /\ \A i \in 1 .. m : Line(fields)[fo[k] + c + i] = fields[k][i]
    OBVIOUS
  <2> HIDE DEF c, m
  <2>4. fo[k + 1] = fo[k] + c + m
    BY <1>8, <2>1, <2>2
  <2>5. ASSUME k # 1 PROVE Line(fields)[fo[k] + 1] = Comma
    <3>1. 1 \in 1 .. Len(pp[k]) /\ pp[k][1] = Comma
      BY <2>1, <2>2, <2>3, <2>5
    <3> QED BY <1>8, <3>1
  <2>6. ASSUME NEW i \in 1 .. m PROVE Line(fields)[fo[k] + c + i] = fields[k][i]
    <3>0. c \in Nat /\ i \in Nat /\ c + i \in 1 .. c + m
      BY <2>1, <2>2
    <3>1. c + i \in 1 .. Len(pp[k]) /\ fo[k] + c + i = fo[k] + (c + i)
      BY <2>2, <3>0
    <3>2. Line(fields)[fo[k] + (c + i)] = pp[k][c + i]
      BY <1>8, <3>1
    <3> QED BY <2>3, <3>1, <3>2
  <2> QED BY <2>4, <2>5, <2>6
<1>10. FieldsAt(fo, fields)
  BY <1>8, <1>9 DEF FieldsAt, n
<1> QED BY <1>2, <1>7, <1>10

\* Where in the text t each of the lines ll is, with the newline behind it; there may be none
\* behind the last.
LaidOut(off, ll, t) ==
  /\ off \in [1 .. Len(ll) + 1 -> Nat]
  /\ off[1] = 0
  /\ \A k \in 1 .. Len(ll) : off[k + 1] = off[k] + Len(Line(ll[k])) + 1
  /\ Len(t) \in {off[Len(ll) + 1] - 1, off[Len(ll) + 1]}
  /\ \A k \in 1 .. Len(ll) : \A i \in 1 .. Len(Line(ll[k])) : t[off[k] + i] = Line(ll[k])[i]
  /\ \A k \in 1 .. Len(ll) : off[k + 1] <= Len(t) => t[off[k + 1]] = Newline

\* A larger set of elements.
LEMMA SeqOfMore ==
  ASSUME NEW S, NEW T, S \subseteq T, NEW q \in Seq(S)
  PROVE  q \in Seq(T)
OBVIOUS

\* A line and its newline.
LEMMA EndedLine ==
  ASSUME NEW S, NEW c, NEW q \in Seq(S)
  PROVE  /\ q \o <<c>> \in Seq(S \cup {c})
         /\ Len(q \o <<c>>) = Len(q) + 1
         /\ (q \o <<c>>)[Len(q) + 1] = c
         /\ \A i \in 1 .. Len(q) : (q \o <<c>>)[i] = q[i]
<1> DEFINE T == S \cup {c}
<1>1. q \in Seq(T) /\ c \in T
  BY SeqOfMore
<1> HIDE DEF T
<1>2. /\ Append(q, c) \in Seq(T)
      /\ Len(Append(q, c)) = Len(q) + 1
      /\ Append(q, c)[Len(q) + 1] = c
      /\ \A i \in 1 .. Len(q) : Append(q, c)[i] = q[i]
  BY <1>1, AppendProperties
<1>3. Append(q, c) = q \o <<c>>
  BY <1>1, AppendIsConcat
<1> QED BY <1>2, <1>3 DEF T

\* Any file is laid out like that.
LEMMA TextIsLaidOut ==
  ASSUME NEW f \in Files
  PROVE  /\ Text(f) \in Seq(Chars \cup {Newline})
         /\ \E off : LaidOut(off, f.lines, Text(f))
<1> DEFINE C == Chars \cup {Newline}
           ll == f.lines
           n == Len(ll)
           tt == [i \in DOMAIN ll |-> Line(ll[i]) \o <<Newline>>]
           u == FlattenSeq(tt)
           t == Text(f)
<1>1. /\ ll \in Seq(Seq(Seq(Chars))) /\ ll # <<>> /\ Comma \in Chars
  BY ParserAssumption
<1>2. t = u \/ t = SubSeq(u, 1, Len(u) - 1)
  BY DEF Text, Front
<1> HIDE DEF ll, t
<1>3. n \in Nat /\ DOMAIN ll = 1 .. n /\ n # 0
  BY <1>1, LenProperties, EmptySeq
<1>4. \A k \in 1 .. n : Line(ll[k]) \in Seq(Chars)
  <2>1. \A k \in 1 .. n : ll[k] \in Seq(Seq(Chars))
    BY <1>1, <1>3, ElementsOfSeq
  <2> QED BY <1>1, <2>1, LineIs
<1>5. \A k \in 1 .. n : /\ tt[k] \in Seq(C)
                        /\ Len(tt[k]) = Len(Line(ll[k])) + 1
                        /\ tt[k][Len(Line(ll[k])) + 1] = Newline
                        /\ \A i \in 1 .. Len(Line(ll[k])) : tt[k][i] = Line(ll[k])[i]
  <2> TAKE k \in 1 .. n
  <2>1. tt[k] = Line(ll[k]) \o <<Newline>>
    BY <1>3
  <2> HIDE DEF tt
  <2> QED BY <1>4, <2>1, EndedLine
<1>6. tt \in Seq(Seq(C)) /\ Len(tt) = n
  <2>0. tt = [k \in 1 .. n |-> tt[k]]
    BY <1>3
  <2> HIDE DEF tt, n, C
  <2>1. tt \in [1 .. n -> Seq(C)]
    BY <1>5, <2>0
  <2>2. tt \in Seq(Seq(C))
    BY <1>3, <2>1, SeqDef
  <2> QED BY <1>3, <2>1, <2>2, LenProperties
<1> HIDE DEF tt, n, C, u
<1>7. PICK off : Offsets(off, tt)
  BY <1>6, OffsetsExist
<1>8. u \in Seq(C) /\ Len(u) \in Nat /\ DOMAIN u = 1 .. Len(u)
  BY <1>6, FlattenSeqType, LenProperties DEF u
<1>9. /\ off \in [1 .. n + 1 -> Nat] /\ off[1] = 0 /\ off[n + 1] = Len(u)
      /\ \A k \in 1 .. n : off[k + 1] = off[k] + Len(tt[k])
      /\ \A k \in 1 .. n : \A i \in 1 .. Len(tt[k]) : u[off[k] + i] = tt[k][i]
  BY <1>6, <1>7 DEF Offsets, u
<1>10. \A k \in 1 .. n : /\ off[k] \in Nat /\ off[k + 1] \in Nat /\ Len(Line(ll[k])) \in Nat
                         /\ off[k + 1] = off[k] + Len(Line(ll[k])) + 1
                         /\ off[k] <= off[k + 1]
  <2> TAKE k \in 1 .. n
  <2>1. /\ k \in 1 .. n + 1 /\ Len(Line(ll[k])) \in Nat
        /\ Len(tt[k]) = Len(Line(ll[k])) + 1 /\ off[k + 1] = off[k] + Len(tt[k])
    BY <1>3, <1>4, <1>5, <1>9, LenProperties
  <2>2. off[k] \in Nat
    BY <1>9, <2>1
  <2> QED BY <2>1, <2>2
<1>11. \A k \in 1 .. n : off[k + 1] <= Len(u)
  <2> TAKE k \in 1 .. n
  <2>1. NeverDrops(off, n)
    BY <1>10 DEF NeverDrops
  <2>2. k + 1 \in 1 .. n + 1 /\ n + 1 \in 1 .. n + 1 /\ k + 1 <= n + 1
    BY <1>3
  <2>3. off[k + 1] <= off[n + 1]
    BY <1>3, <1>9, <2>1, <2>2, DropsNowhere
  <2> QED BY <1>9, <2>3
<1>12. Len(u) # 0
  <2>1. n \in 1 .. n
    BY <1>3
  <2> QED BY <1>9, <1>10, <2>1
<1>13. /\ t \in Seq(C) /\ Len(t) \in {Len(u) - 1, Len(u)} /\ Len(t) \in Nat
       /\ \A j \in 1 .. Len(t) : t[j] = u[j]
  <2>1. CASE t = u
    BY <1>8, <2>1
  <2>2. CASE t = SubSeq(u, 1, Len(u) - 1)
    <3> DEFINE h == Len(u) - 1
    <3>1. h \in Nat /\ \A j \in 1 .. h : u[j] \in C
      BY <1>8, <1>12, ElementsOfSeq
    <3>2. t = SubSeq(u, 1, h) /\ h - 1 + 1 = h /\ 1 \in Int /\ h \in Int
      BY <2>2, <3>1
    <3>3. \A j \in 1 .. h : 1 + j - 1 = j
      BY <3>1
    <3> SUFFICES t \in Seq(C) /\ Len(t) = h /\ \A j \in 1 .. h : t[j] = u[j]
      BY <3>1
    <3> HIDE DEF h
    <3>4. /\ t \in Seq(C) /\ Len(t) = IF 1 <= h THEN h - 1 + 1 ELSE 0
          /\ \A j \in 1 .. h - 1 + 1 : t[j] = u[1 + j - 1]
      BY <3>1, <3>2, SubSeqProperties
    <3> QED BY <3>1, <3>2, <3>3, <3>4
  <2> QED BY <1>2, <2>1, <2>2
<1>14. ASSUME NEW k \in 1 .. n
       PROVE  /\ \A i \in 1 .. Len(Line(ll[k])) : t[off[k] + i] = Line(ll[k])[i]
              /\ off[k + 1] <= Len(t) => t[off[k + 1]] = Newline
  <2> DEFINE w == Len(Line(ll[k]))
  <2>1. /\ off[k] \in Nat /\ w \in Nat /\ off[k + 1] = off[k] + w + 1 /\ off[k + 1] <= Len(u)
        /\ Len(tt[k]) = w + 1
        /\ tt[k][w + 1] = Newline /\ \A i \in 1 .. w : tt[k][i] = Line(ll[k])[i]
    BY <1>5, <1>10, <1>11
  <2> SUFFICES /\ \A i \in 1 .. w : t[off[k] + i] = Line(ll[k])[i]
               /\ off[k + 1] <= Len(t) => t[off[k + 1]] = Newline
    OBVIOUS
  <2> HIDE DEF w
  <2>2. ASSUME NEW i \in 1 .. w PROVE t[off[k] + i] = Line(ll[k])[i]
    <3>0. off[k] + i < off[k + 1] /\ off[k] + i \in Nat /\ 1 <= off[k] + i /\ i \in 1 .. w + 1
      BY <2>1
    <3>1. off[k] + i \in 1 .. Len(t) /\ i \in 1 .. w + 1
      <4> DEFINE lt == Len(t)
                 lu == Len(u)
                 e == off[k + 1]
                 x == off[k] + i
      <4>1. /\ e \in Nat /\ e <= lu /\ lu \in Nat /\ lt \in Nat /\ (lt = lu - 1 \/ lt = lu)
            /\ x < e /\ x \in Nat /\ 1 <= x
        BY <1>8, <1>10, <1>11, <1>13, <3>0
      <4> HIDE DEF lt, lu, e, x
      <4>2. x \in 1 .. lt
        BY <4>1
      <4> QED BY <3>0, <4>2 DEF lt, x
    <3>2. u[off[k] + i] = tt[k][i]
      BY <1>9, <2>1, <3>1
    <3> QED BY <1>13, <2>1, <3>1, <3>2
  <2>3. ASSUME off[k + 1] <= Len(t) PROVE t[off[k + 1]] = Newline
    <3>1. off[k + 1] \in 1 .. Len(t) /\ w + 1 \in 1 .. w + 1 /\ off[k + 1] = off[k] + (w + 1)
      <4> DEFINE lt == Len(t)
                 o == off[k]
                 e == off[k + 1]
      <4>1. o \in Nat /\ w \in Nat /\ lt \in Nat /\ e = o + w + 1 /\ e <= lt
        BY <1>13, <2>1, <2>3
      <4> HIDE DEF lt, o, e
      <4>2. e \in 1 .. lt /\ w + 1 \in 1 .. w + 1 /\ e = o + (w + 1)
        BY <4>1
      <4> QED BY <4>2 DEF lt, o, e
    <3>2. u[off[k] + (w + 1)] = tt[k][w + 1]
      BY <1>9, <2>1, <3>1
    <3> QED BY <1>13, <2>1, <3>1, <3>2
  <2> QED BY <2>2, <2>3
<1>15. LaidOut(off, ll, t)
  BY <1>9, <1>10, <1>13, <1>14 DEF LaidOut, n
<1> QED BY <1>13, <1>15 DEF ll, t, C

-----------------------------------------------------------------------------
(* Searching.                                                              *)

\* memchr and strchr find the first one.
LEMMA Finds ==
  ASSUME NEW c, NEW from \in Nat, NEW p \in from .. Len(file), file[p] = c, Len(file) \in Nat,
         \A i \in from .. p - 1 : file[i] # c
  PROVE  Find(c, from) = p
<1> DEFINE found == {i \in from .. Len(file) : file[i] = c}
<1>1. p \in found /\ \A i \in found : p <= i
  OBVIOUS
<1>2. \A q \in found : (\A i \in found : q <= i) => q = p
  BY <1>1
<1>3. Min(found) = p
  <2> HIDE DEF found
  <2> QED BY <1>1, <1>2 DEF Min
<1> QED BY <1>1, <1>3 DEF Find

\* There may be none.
LEMMA FindsNone ==
  ASSUME NEW c, NEW from \in Nat, Len(file) \in Nat,
         \A i \in from .. Len(file) : file[i] # c
  PROVE  Find(c, from) = 0
BY DEF Find

\* A number ends where its digits do.
LEMMA NumberIs ==
  ASSUME NEW start \in Nat, NEW n \in Nat, Len(file) \in Nat, start + n <= Len(file) + 1,
         \A i \in start .. start + n - 1 : file[i] \in Digits,
         start + n <= Len(file) => file[start + n] \notin Digits
  PROVE  Number(start) = SubSeq(file, start, start + n - 1)
<1> DEFINE ends == {i \in start .. Len(file) : file[i] \notin Digits}
<1>1. CASE start + n = Len(file) + 1
  <2>1. ends = {} /\ Len(file) = start + n - 1
    BY <1>1
  <2> QED BY <2>1 DEF Number
<1>2. CASE start + n # Len(file) + 1
  <2> DEFINE p == start + n
  <2>1. p \in ends /\ \A i \in ends : p <= i
    BY <1>2
  <2>2. \A q \in ends : (\A i \in ends : q <= i) => q = p
    BY <2>1
  <2>3. Min(ends) = p
    <3> HIDE DEF ends, p
    <3> QED BY <2>1, <2>2 DEF Min
  <2>4. ends # {} /\ Min(ends) = start + n
    BY <2>1, <2>3
  <2>5. Number(start) = SubSeq(file, start, IF ends = {} THEN Len(file) ELSE Min(ends) - 1)
    BY DEF Number
  <2> HIDE DEF ends
  <2> QED BY <2>4, <2>5
<1> QED BY <1>1, <1>2

\* The characters from start on are s.
IsToken(start, s) ==
  /\ start + Len(s) <= Len(file) + 1
  /\ \A i \in 1 .. Len(s) : file[start + i - 1] = s[i]

\* c is at e, unless the file ends there.
EndsAt(e, c) == e <= Len(file) => file[e] = c

\* Digits in front of something else are a number, and the first of the other is behind them.
LEMMA TokenIsRead ==
  ASSUME Len(file) \in Nat, NEW start \in Nat, NEW s \in Seq(Digits), NEW c, c \notin Digits,
         IsToken(start, s), EndsAt(start + Len(s), c)
  PROVE  /\ Number(start) = s
         /\ start + Len(s) <= Len(file) => Find(c, start) = start + Len(s)
<1> DEFINE n == Len(s)
           e == start + n
<1>1. n \in Nat /\ e \in Nat /\ DOMAIN s = 1 .. n /\ \A i \in 1 .. n : s[i] \in Digits
  BY LenProperties, ElementsOfSeq
<1>2. /\ e <= Len(file) + 1 /\ \A i \in 1 .. n : file[start + i - 1] = s[i]
      /\ e <= Len(file) => file[e] = c
  BY DEF IsToken, EndsAt
<1> HIDE DEF n
<1>3. \A i \in start .. e - 1 : i - start + 1 \in 1 .. n /\ start + (i - start + 1) - 1 = i
  BY <1>1
<1>4. \A i \in start .. e - 1 : file[i] = s[i - start + 1] /\ file[i] \in Digits
  BY <1>1, <1>2, <1>3
<1>5. Number(start) = SubSeq(file, start, e - 1)
  <2>1. start + n <= Len(file) + 1 /\ e - 1 = start + n - 1
    BY <1>1, <1>2
  <2>2. \A i \in start .. start + n - 1 : file[i] \in Digits
    BY <1>1, <1>4, <2>1
  <2>3. start + n <= Len(file) => file[start + n] \notin Digits
    BY <1>2
  <2> HIDE DEF e
  <2> QED BY <1>1, <2>1, <2>2, <2>3, NumberIs
<1>6. SubSeq(file, start, e - 1) = s
  <2> DEFINE q == SubSeq(file, start, e - 1)
  <2>1. start \in Int /\ e - 1 \in Int /\ (e - 1) - start + 1 = n /\ (start <= e - 1 <=> n # 0)
    BY <1>1
  <2> HIDE DEF e
  <2>2. /\ q \in Seq(Digits) /\ Len(q) = IF start <= e - 1 THEN (e - 1) - start + 1 ELSE 0
        /\ \A i \in 1 .. (e - 1) - start + 1 : q[i] = file[start + i - 1]
    BY <1>4, <2>1, SubSeqProperties
  <2> HIDE DEF q
  <2>3. Len(q) = n /\ \A i \in 1 .. n : q[i] = s[i]
    BY <1>2, <2>1, <2>2
  <2>4. q = s
    BY <1>1, <2>2, <2>3, SeqEqual DEF n
  <2> QED BY <2>4 DEF q
<1>7. ASSUME e <= Len(file) PROVE Find(c, start) = e
  <2>1. e \in start .. Len(file) /\ file[e] = c
    BY <1>1, <1>2, <1>7
  <2>2. \A i \in start .. e - 1 : file[i] # c
    BY <1>4
  <2> HIDE DEF e
  <2> QED BY <2>1, <2>2, Finds
<1> QED BY <1>5, <1>6, <1>7 DEF n

\* The fields of a line of the file are the tokens from b on.
TokensAt(b, fo, fields) ==
  \A j \in 1 .. Fields :
    /\ IsToken(b + fo[j] + Lead(j) + 1, fields[j])
    /\ b + fo[j] + Lead(j) + 1 + Len(fields[j]) = b + fo[j + 1] + 1
    /\ j = Fields => EndsAt(b + fo[j + 1] + 1, Newline)
    /\ j # Fields => b + fo[j + 1] + 1 <= Len(file) /\ EndsAt(b + fo[j + 1] + 1, Comma)

\* Where a line of the file begins, its fields are its tokens.
LEMMA TokensAreAt ==
  ASSUME NEW b \in Nat, NEW fields \in Seq(Seq(Digits)), Len(fields) = Fields,
         NEW fo, FieldsAt(fo, fields), Len(file) \in Nat, IsToken(b + 1, Line(fields)),
         EndsAt(b + Len(Line(fields)) + 1, Newline)
  PROVE  TokensAt(b, fo, fields)
<1> DEFINE t == Line(fields)
           w == Len(t)
           L == Len(file)
<1>1. /\ Fields \in Nat /\ Fields # 0
  BY ParserAssumption
<1>2. \A j \in 1 .. Fields : fields[j] \in Seq(Digits) /\ Len(fields[j]) \in Nat
  BY ElementsOfSeq, LenProperties
<1>3. /\ fo \in [1 .. Fields + 1 -> Nat] /\ fo[1] = 0 /\ fo[Fields + 1] = w
      /\ \A k \in 1 .. Fields : fo[k + 1] = fo[k] + Lead(k) + Len(fields[k])
      /\ \A k \in 1 .. Fields : k # 1 => t[fo[k] + 1] = Comma
      /\ \A k \in 1 .. Fields : \A i \in 1 .. Len(fields[k]) :
           t[fo[k] + Lead(k) + i] = fields[k][i]
  BY DEF FieldsAt
<1>4. /\ b + 1 + w <= L + 1 /\ \A i \in 1 .. w : file[b + 1 + i - 1] = t[i]
      /\ EndsAt(b + w + 1, Newline)
  BY DEF IsToken
<1>5. w \in Nat /\ L \in Nat
  <2>1. Fields + 1 \in 1 .. Fields + 1
    BY <1>1
  <2> QED BY <1>3, <2>1
<1> HIDE DEF t, w, L
<1>6. \A j \in 1 .. Fields : Lead(j) \in {0, 1} /\ (j # 1 => Lead(j) = 1)
  BY DEF Lead
<1>7. \A j \in 1 .. Fields + 1 : fo[j] \in Nat /\ fo[j] <= w
  <2>1. NeverDrops(fo, Fields)
    <3> SUFFICES ASSUME NEW k \in 1 .. Fields PROVE fo[k] <= fo[k + 1]
      BY DEF NeverDrops
    <3>1. fo[k] \in Nat /\ Len(fields[k]) \in Nat /\ Lead(k) \in Nat
      BY <1>1, <1>2, <1>3, <1>6, SMTT(30)
    <3> QED BY <1>3, <3>1
  <2> TAKE j \in 1 .. Fields + 1
  <2>2. Fields + 1 \in 1 .. Fields + 1 /\ j <= Fields + 1
    BY <1>1
  <2>3. fo[j] <= fo[Fields + 1]
    BY <1>1, <1>3, <2>1, <2>2, DropsNowhere
  <2> QED BY <1>3, <2>3
<1>8. ASSUME NEW j \in 1 .. Fields
      PROVE  /\ IsToken(b + fo[j] + Lead(j) + 1, fields[j])
             /\ b + fo[j] + Lead(j) + 1 + Len(fields[j]) = b + fo[j + 1] + 1
             /\ j = Fields => EndsAt(b + fo[j + 1] + 1, Newline)
             /\ j # Fields => b + fo[j + 1] + 1 <= L /\ EndsAt(b + fo[j + 1] + 1, Comma)
  <2> DEFINE x == fo[j]
             y == fo[j + 1]
             d == Lead(j)
             n == Len(fields[j])
  <2>1. /\ x \in Nat /\ y \in Nat /\ n \in Nat /\ d \in Nat /\ y = x + d + n /\ y <= w
    <3>1. j \in 1 .. Fields + 1 /\ j + 1 \in 1 .. Fields + 1
      BY <1>1
    <3>2. Lead(j) \in Nat
      BY <1>6
    <3> QED BY <1>2, <1>3, <1>7, <3>1, <3>2
  <2>2. \A i \in 1 .. n : t[x + d + i] = fields[j][i]
    BY <1>3
  <2>3. IsToken(b + x + d + 1, fields[j])
    <3> SUFFICES /\ b + x + d + 1 + n <= L + 1
                 /\ \A i \in 1 .. n : file[b + x + d + 1 + i - 1] = fields[j][i]
      BY DEF IsToken, L
    <3> HIDE DEF x, y, d, n
    <3>1. b + x + d + 1 + n <= L + 1
      BY <1>4, <1>5, <2>1
    <3>2. ASSUME NEW i \in 1 .. n PROVE file[b + x + d + 1 + i - 1] = fields[j][i]
      <4> DEFINE z == x + d + i
      <4>1. z \in 1 .. w /\ b + 1 + z - 1 = b + x + d + 1 + i - 1
        BY <1>5, <2>1
      <4>2. t[z] = fields[j][i]
        BY <2>2
      <4> HIDE DEF z
      <4> QED BY <1>4, <4>1, <4>2
    <3> QED BY <3>1, <3>2
  <2>4. b + x + d + 1 + n = b + y + 1
    <3> HIDE DEF x, y, d, n
    <3> QED BY <2>1
  <2>5. ASSUME j = Fields PROVE EndsAt(b + y + 1, Newline)
    BY <1>3, <1>4, <2>5
  <2>6. ASSUME j # Fields PROVE b + y + 1 <= L /\ EndsAt(b + y + 1, Comma)
    <3> DEFINE k == j + 1
    <3>1. k \in 1 .. Fields /\ k # 1 /\ k + 1 \in 1 .. Fields + 1 /\ k \in 1 .. Fields + 1
      BY <1>1, <2>6
    <3>2. t[fo[k] + 1] = Comma /\ fo[k + 1] = fo[k] + Lead(k) + Len(fields[k])
      <4> HIDE DEF k
      <4> QED BY <1>3, <3>1
    <3>3. /\ Lead(k) = 1 /\ Len(fields[k]) \in Nat /\ fo[k + 1] <= w /\ fo[k] \in Nat
      <4> HIDE DEF k
      <4> QED BY <1>2, <1>6, <1>7, <3>1
    <3>4. y + 1 \in 1 .. w /\ t[y + 1] = Comma
      <4> DEFINE q == fo[k + 1]
                 m == Len(fields[k])
      <4>1. q = y + 1 + m /\ m \in Nat /\ q <= w /\ t[y + 1] = Comma
        BY <3>2, <3>3
      <4>2. y \in Nat
        BY <2>1
      <4> HIDE DEF y, q, m
      <4>3. y + 1 <= w
        BY <1>5, <4>1, <4>2
      <4> QED BY <1>5, <4>1, <4>2, <4>3
    <3>7. y \in Nat
      BY <2>1
    <3> HIDE DEF x, y, d, n, k
    <3>5. b + 1 + (y + 1) - 1 = b + y + 1 /\ b + y + 1 <= L
      <4>1. b + 1 + w <= L + 1 /\ y + 1 <= w
        BY <1>4, <3>4
      <4>2. w \in Nat /\ L \in Nat /\ y \in Nat /\ b \in Nat
        BY <1>5, <3>7
      <4> QED BY <4>1, <4>2
    <3>6. file[b + y + 1] = Comma
      BY <1>4, <3>4, <3>5
    <3> QED BY <3>5, <3>6 DEF EndsAt
  <2> QED BY <2>3, <2>4, <2>5, <2>6
<1> QED BY <1>8 DEF TokensAt, L

\* The fields of a line are digits, but the line is not.
LEMMA FieldsAreAt ==
  ASSUME NEW fields \in Seq(Seq(Digits))
  PROVE  \E fo : FieldsAt(fo, fields)
<1> DEFINE D == Digits \cup {Comma}
<1>1. \A q \in Seq(Digits) : q \in Seq(D)
  BY SeqOfMore
<1>2. Seq(Digits) \subseteq Seq(D)
  BY <1>1
<1>3. Comma \in D
  OBVIOUS
<1> HIDE DEF D
<1>4. fields \in Seq(Seq(D))
  BY <1>2, SeqOfMore
<1> QED BY <1>3, <1>4, LineIs

-----------------------------------------------------------------------------
(* Parsing a line.                                                         *)

\* parse_line reads the fields that the line was written with.
LEMMA LineIsRead ==
  ASSUME NEW b \in Nat, NEW fields \in Seq(Seq(Digits)), Len(fields) = Fields,
         Len(file) \in Nat, IsToken(b + 1, Line(fields)),
         EndsAt(b + Len(Line(fields)) + 1, Newline)
  PROVE  ParseLine(b + 1) = fields
<1>1. /\ Fields \in Nat /\ Fields # 0
  BY ParserAssumption
<1>2. Comma \notin Digits /\ Newline \notin Digits
  BY Zenon DEF Comma, Newline, Digits
<1>3. PICK fo : FieldsAt(fo, fields)
  BY FieldsAreAt
<1>4. TokensAt(b, fo, fields)
  BY <1>3, TokensAreAt
<1> DEFINE s(j) == b + fo[j] + Lead(j) + 1
           n(j) == Len(fields[j])
<1>5. \A j \in 1 .. Fields : fields[j] \in Seq(Digits) /\ n(j) \in Nat /\ s(j) \in Nat
  <2> TAKE j \in 1 .. Fields
  <2>1. fields[j] \in Seq(Digits) /\ n(j) \in Nat
    BY ElementsOfSeq, LenProperties
  <2>2. fo[j] \in Nat
    BY <1>1, <1>3 DEF FieldsAt
  <2>3. Lead(j) \in Nat
    BY DEF Lead
  <2> QED BY <2>1, <2>2, <2>3, SMTT(30)
<1>6. \A j \in 1 .. Fields : /\ IsToken(s(j), fields[j])
                             /\ j = Fields => EndsAt(s(j) + n(j), Newline)
                             /\ j # Fields => /\ EndsAt(s(j) + n(j), Comma)
                                              /\ s(j) + n(j) <= Len(file)
                                              /\ s(j + 1) = s(j) + n(j) + 1
  <2> TAKE j \in 1 .. Fields
  <2>1. /\ IsToken(s(j), fields[j]) /\ s(j) + n(j) = b + fo[j + 1] + 1
        /\ j = Fields => EndsAt(b + fo[j + 1] + 1, Newline)
        /\ j # Fields => b + fo[j + 1] + 1 <= Len(file) /\ EndsAt(b + fo[j + 1] + 1, Comma)
    BY <1>4 DEF TokensAt
  <2>2. ASSUME j # Fields PROVE s(j + 1) = b + fo[j + 1] + 1 + 1
    <3>1. Lead(j + 1) = 1 /\ j + 1 \in 1 .. Fields + 1
      BY <1>1 DEF Lead
    <3>2. fo[j + 1] \in Nat
      BY <1>3, <3>1 DEF FieldsAt
    <3> QED BY <3>1, <3>2
  <2> HIDE DEF s, n
  <2> QED BY <2>1, <2>2
<1>7. s(1) = b + 1
  BY <1>3 DEF FieldsAt, Lead
<1> HIDE DEF s, n
<1>8. \A j \in 1 .. Fields : /\ Number(s(j)) = fields[j]
                             /\ j # Fields => Find(Comma, s(j)) + 1 = s(j + 1)
  <2> TAKE j \in 1 .. Fields
  <2>1. CASE j = Fields
    BY <1>2, <1>5, <1>6, <2>1, TokenIsRead DEF n
  <2>2. CASE j # Fields
    BY <1>2, <1>5, <1>6, <2>2, TokenIsRead DEF n
  <2> QED BY <2>1, <2>2
<1> DEFINE G(h) == h = [k \in 1 .. Fields |->
                          IF k = 1 THEN b + 1 ELSE Find(Comma, h[k - 1]) + 1]
           h == CHOOSE x : G(x)
<1>9. ParseLine(b + 1) = [k \in 1 .. Fields |-> Number(h[k])]
  BY DEF ParseLine
<1>10. G([k \in 1 .. Fields |-> s(k)])
  <2> DEFINE g == [k \in 1 .. Fields |-> s(k)]
  <2>1. ASSUME NEW k \in 1 .. Fields
        PROVE  g[k] = IF k = 1 THEN b + 1 ELSE Find(Comma, g[k - 1]) + 1
    <3>1. CASE k = 1
      BY <1>7, <3>1
    <3>2. CASE k # 1
      <4>1. k - 1 \in 1 .. Fields /\ k - 1 # Fields /\ (k - 1) + 1 = k
        BY <1>1, <3>2
      <4>2. Find(Comma, s(k - 1)) + 1 = s(k)
        BY <1>8, <4>1
      <4> QED BY <3>2, <4>1, <4>2
    <3> QED BY <3>1, <3>2
  <2>2. g = [k \in 1 .. Fields |-> g[k]]
    OBVIOUS
  <2> HIDE DEF g
  <2>3. G(g)
    BY <2>1, <2>2
  <2> QED BY <2>3 DEF g
<1>11. G(h)
  <2> HIDE DEF G
  <2> QED BY <1>10
<1> HIDE DEF h
<1>12. \A k \in 1 .. Fields : h[k] = s(k)
  <2> DEFINE T == {k \in 1 .. Fields : h[k] # s(k)}
  <2> SUFFICES ASSUME T # {} PROVE FALSE
    OBVIOUS
  <2>1. PICK k \in T : \A i \in T : k <= i
    <3>1. T \subseteq Nat
      OBVIOUS
    <3> HIDE DEF T
    <3> QED BY <3>1, LeastNumberExists
  <2>2. h[k] = IF k = 1 THEN b + 1 ELSE Find(Comma, h[k - 1]) + 1
    BY <1>11
  <2>3. CASE k = 1
    BY <1>7, <2>2, <2>3
  <2>4. CASE k # 1
    <3>1. k - 1 \in 1 .. Fields /\ k - 1 # Fields /\ (k - 1) + 1 = k /\ ~(k <= k - 1)
      BY <1>1, <2>4
    <3>2. h[k - 1] = s(k - 1)
      BY <2>1, <3>1
    <3>3. Find(Comma, s(k - 1)) + 1 = s(k)
      BY <1>8, <3>1
    <3> QED BY <2>2, <2>4, <3>2, <3>3
  <2> QED BY <2>3, <2>4
<1>13. fields = [k \in 1 .. Fields |-> fields[k]]
  OBVIOUS
<1>14. \A k \in 1 .. Fields : Number(h[k]) = fields[k]
  BY <1>8, <1>12
<1> HIDE DEF s
<1> QED BY <1>9, <1>13, <1>14

\* The file is what the lines were written as.
FileInv ==
  /\ lines \in Seq(Seq(Seq(Chars))) /\ lines # <<>>
  /\ \A i \in 3 .. Len(lines) : lines[i] \in [1 .. Fields -> Seq(Digits) \ {<<>>}]
  /\ file \in Seq(Chars \cup {Newline})
  /\ \E off : LaidOut(off, lines, file)

\* The messages so far are the lines behind the header.
MessagesInv ==
  /\ header_lines \in 0 .. 2
  /\ message_stream_ \in Seq(Seq(Seq(Digits)))
  /\ message_stream_ # <<>> => header_lines = 2 /\ Len(message_stream_) + 2 <= Len(lines)
  /\ \A i \in 1 .. Len(message_stream_) : message_stream_[i] = lines[i + 2]

\* The line that is next.
NextLine == header_lines + Len(message_stream_) + 1

\* current is where the next line begins, or null behind a header that nothing ends.
CurrentInv ==
  \/ current = 0 /\ header_lines = 2 /\ message_stream_ = <<>>
  \/ /\ NextLine <= Len(lines) + 1
     /\ \A off : LaidOut(off, lines, file) => current = off[NextLine] + 1

\* The inductive invariant of the parser.
ParserInv == FileInv /\ MessagesInv /\ CurrentInv

\* What a layout says of one line.
LEMMA LineAt ==
  ASSUME FileInv, NEW off, LaidOut(off, lines, file), NEW k \in 1 .. Len(lines)
  PROVE  /\ off[k] \in Nat /\ off[k + 1] \in Nat /\ Len(file) \in Nat
         /\ Line(lines[k]) \in Seq(Chars) /\ Len(Line(lines[k])) \in Nat
         /\ off[k + 1] = off[k] + Len(Line(lines[k])) + 1
         /\ off[k + 1] <= Len(file) + 1
         /\ IsToken(off[k] + 1, Line(lines[k]))
         /\ EndsAt(off[k + 1], Newline)
<1> DEFINE n == Len(lines)
           L == Len(file)
           t == Line(lines[k])
           w == Len(t)
<1>1. /\ n \in Nat /\ L \in Nat /\ k \in 1 .. n /\ k \in 1 .. n + 1 /\ k + 1 \in 1 .. n + 1
      /\ n + 1 \in 1 .. n + 1 /\ k + 1 <= n + 1
  <2>1. Len(lines) \in Nat /\ Len(file) \in Nat
    BY LenProperties DEF FileInv
  <2> QED BY <2>1
<1>2. t \in Seq(Chars) /\ \A j \in 1 .. n : Len(Line(lines[j])) \in Nat
  <2>1. \A j \in 1 .. n : lines[j] \in Seq(Seq(Chars))
    BY ElementsOfSeq DEF FileInv
  <2>2. Comma \in Chars
    BY ParserAssumption
  <2>3. \A j \in 1 .. n : Line(lines[j]) \in Seq(Chars)
    BY <2>1, <2>2, LineIs
  <2> QED BY <1>1, <2>3, LenProperties
<1>3. w \in Nat
  BY <1>2, LenProperties
<1>4. /\ off \in [1 .. n + 1 -> Nat] /\ off[1] = 0
      /\ \A j \in 1 .. n : off[j + 1] = off[j] + Len(Line(lines[j])) + 1
      /\ L = off[n + 1] - 1 \/ L = off[n + 1]
      /\ \A i \in 1 .. w : file[off[k] + i] = t[i]
      /\ off[k + 1] <= L => file[off[k + 1]] = Newline
      /\ off[k + 1] = off[k] + w + 1
  <2>1. \A i \in 1 .. w : file[off[k] + i] = t[i]
    BY DEF LaidOut
  <2>2. Len(file) \in {off[n + 1] - 1, off[n + 1]}
    BY DEF LaidOut
  <2>3. off[k + 1] <= L => file[off[k + 1]] = Newline
    BY DEF LaidOut
  <2>4. \A j \in 1 .. n : off[j + 1] = off[j] + Len(Line(lines[j])) + 1
    BY DEF LaidOut
  <2> QED BY <2>1, <2>2, <2>3, <2>4 DEF LaidOut
<1> HIDE DEF n, L, t, w
<1>5. off[k] \in Nat /\ off[k + 1] \in Nat /\ off[n + 1] \in Nat
  BY <1>1, <1>4
<1>6. off[k + 1] <= off[n + 1]
  <2>1. NeverDrops(off, n)
    <3> SUFFICES ASSUME NEW j \in 1 .. n PROVE off[j] <= off[j + 1]
      BY DEF NeverDrops
    <3>1. off[j] \in Nat /\ Len(Line(lines[j])) \in Nat
      BY <1>1, <1>2, <1>4, SMTT(30)
    <3> QED BY <1>4, <3>1
  <2> QED BY <1>1, <1>4, <2>1, DropsNowhere
<1>7. off[k + 1] <= L + 1
  <2> DEFINE p == off[k + 1]
             q == off[n + 1]
  <2>1. /\ p \in Nat /\ q \in Nat /\ L \in Nat /\ p <= q
        /\ L = q - 1 \/ L = q
    BY <1>1, <1>4, <1>5, <1>6
  <2> HIDE DEF p, q
  <2>2. p <= L + 1
    BY <2>1
  <2> QED BY <2>2 DEF p
<1>8. IsToken(off[k] + 1, t)
  <2> DEFINE o == off[k]
  <2>1. o + 1 + w <= L + 1
    BY <1>1, <1>3, <1>4, <1>5, <1>7
  <2>2. o \in Nat /\ \A i \in 1 .. w : file[o + i] = t[i]
    BY <1>4, <1>5
  <2> HIDE DEF o
  <2>3. \A i \in 1 .. w : o + 1 + i - 1 = o + i
    BY <2>2
  <2>4. IsToken(o + 1, t)
    BY <2>1, <2>2, <2>3 DEF IsToken, w, L
  <2> QED BY <2>4 DEF o
<1>9. EndsAt(off[k + 1], Newline)
  BY <1>4 DEF EndsAt, L
<1> QED BY <1>1, <1>2, <1>3, <1>4, <1>5, <1>7, <1>8, <1>9 DEF L, t, w

\* Where a line ends is the first newline from its beginning, if there is one at all.
LEMMA NewlineIsFound ==
  ASSUME FileInv, NEW off, LaidOut(off, lines, file), NEW k \in 1 .. Len(lines)
  PROVE  /\ off[k + 1] <= Len(file) => Find(Newline, off[k] + 1) = off[k + 1]
         /\ ~(off[k + 1] <= Len(file)) =>
              Find(Newline, off[k] + 1) = 0 /\ off[k + 1] = Len(file) + 1
<1> DEFINE t == Line(lines[k])
           w == Len(t)
           o == off[k]
           e == off[k + 1]
           L == Len(file)
<1>1. /\ o \in Nat /\ e \in Nat /\ L \in Nat /\ w \in Nat /\ t \in Seq(Chars)
      /\ e = o + w + 1 /\ e <= L + 1
      /\ IsToken(o + 1, t) /\ EndsAt(e, Newline)
  BY LineAt
<1>2. \A i \in 1 .. w : file[o + 1 + i - 1] = t[i] /\ t[i] \in Chars
  <2>1. DOMAIN t = 1 .. w
    BY <1>1, LenProperties
  <2> HIDE DEF t, o
  <2>2. \A i \in 1 .. w : t[i] \in Chars
    BY <1>1, <2>1, ElementsOfSeq
  <2> QED BY <1>1, <2>2 DEF IsToken
<1>3. Newline \notin Chars
  BY ParserAssumption
<1>4. e <= L => file[e] = Newline
  BY <1>1 DEF EndsAt
<1> SUFFICES /\ e <= L => Find(Newline, o + 1) = e
             /\ ~(e <= L) => Find(Newline, o + 1) = 0 /\ e = L + 1
  OBVIOUS
<1> HIDE DEF t, w, o, e
<1>5. \A i \in o + 1 .. e - 1 : file[i] # Newline
  <2> TAKE i \in o + 1 .. e - 1
  <2> DEFINE j == i - o
  <2>1. j \in 1 .. w /\ o + 1 + j - 1 = i
    BY <1>1
  <2> HIDE DEF j
  <2> QED BY <1>2, <1>3, <2>1
<1>6. ASSUME e <= L PROVE Find(Newline, o + 1) = e
  <2>1. e \in o + 1 .. L /\ o + 1 \in Nat
    BY <1>1, <1>6
  <2> QED BY <1>1, <1>4, <1>5, <1>6, <2>1, Finds
<1>7. ASSUME ~(e <= L) PROVE Find(Newline, o + 1) = 0 /\ e = L + 1
  <2>1. e = L + 1 /\ e - 1 = L /\ o + 1 \in Nat
    BY <1>1, <1>7
  <2> QED BY <1>1, <1>5, <2>1, FindsNone
<1> QED BY <1>6, <1>7

\* A line behind the header is not empty.
LEMMA FullLine ==
  ASSUME NEW fields, fields \in [1 .. Fields -> Seq(Digits) \ {<<>>}]
  PROVE  fields \in Seq(Seq(Digits)) /\ Len(fields) = Fields /\ Len(Line(fields)) # 0
<1>1. fields \in Seq(Seq(Digits)) /\ Len(fields) = Fields
  <2> DEFINE Tokens == Seq(Digits)
  <2>1. fields \in [1 .. Fields -> Tokens] /\ Fields \in Nat
    BY ParserAssumption
  <2> HIDE DEF Tokens
  <2>2. fields \in Seq(Tokens)
    BY <2>1, SeqDef
  <2>3. Len(fields) = Fields
    BY <2>1, <2>2, LenProperties
  <2> QED BY <2>2, <2>3 DEF Tokens
<1>2. Fields \in Nat /\ Fields # 0
  BY ParserAssumption
<1>3. \A j \in 1 .. Fields : Len(fields[j]) \in Nat /\ Len(fields[j]) # 0
  <2> TAKE j \in 1 .. Fields
  <2>1. fields[j] \in Seq(Digits) /\ fields[j] # <<>>
    OBVIOUS
  <2> QED BY <2>1, LenProperties, EmptySeq
<1>4. PICK fo : FieldsAt(fo, fields)
  BY <1>1, FieldsAreAt
<1>5. /\ fo \in [1 .. Fields + 1 -> Nat] /\ fo[1] = 0 /\ fo[Fields + 1] = Len(Line(fields))
      /\ \A k \in 1 .. Fields : fo[k + 1] = fo[k] + Lead(k) + Len(fields[k])
  BY <1>1, <1>4 DEF FieldsAt
<1> DEFINE j == Fields
<1>6. j \in 1 .. Fields /\ j \in 1 .. Fields + 1
  BY <1>2
<1>7. fo[j] \in Nat /\ fo[j + 1] = fo[j] + Lead(j) + Len(fields[j]) /\ Lead(j) \in Nat
  <2> HIDE DEF j
  <2> QED BY <1>5, <1>6 DEF Lead
<1>8. Len(fields[j]) \in Nat /\ Len(fields[j]) # 0
  BY <1>3, <1>6
<1>9. fo[j + 1] # 0
  <2> HIDE DEF j
  <2> QED BY <1>7, <1>8
<1> QED BY <1>1, <1>5, <1>9

-----------------------------------------------------------------------------
(* The invariant.                                                          *)

\* The file is laid out in lines, and the first of them is next.
LEMMA InitParser == ParserInit => ParserInv
<1> SUFFICES ASSUME ParserInit PROVE ParserInv
  OBVIOUS
<1>1. PICK f \in Files : lines = f.lines /\ file = Text(f)
  BY DEF ParserInit
<1>2. FileInv
  BY <1>1, TextIsLaidOut, ParserAssumption DEF FileInv
<1>3. current = 1 /\ header_lines = 0 /\ message_stream_ = <<>>
  BY DEF ParserInit
<1>4. Len(lines) \in Nat /\ NextLine = 1
  BY <1>2, <1>3, LenProperties DEF FileInv, NextLine
<1>5. CurrentInv
  BY <1>3, <1>4 DEF CurrentInv, LaidOut
<1> QED BY <1>2, <1>3, <1>5 DEF ParserInv, MessagesInv

\* A header line is skipped to its newline, or, where none is left, to a null pointer.
LEMMA SkipKeepsParser == ParserInv /\ SkipHeaderLine => ParserInv'
<1> SUFFICES ASSUME ParserInv, SkipHeaderLine PROVE ParserInv'
  OBVIOUS
<1>1. /\ header_lines \in 0 .. 1 /\ current < End
      /\ lines' = lines /\ file' = file /\ message_stream_' = message_stream_
      /\ \/ /\ Find(Newline, current) # 0
            /\ current' = Find(Newline, current) + 1
            /\ header_lines' = header_lines + 1
         \/ /\ Find(Newline, current) = 0
            /\ current' = 0
            /\ header_lines' = 2
  BY DEF SkipHeaderLine, InHeader, ParserInv, MessagesInv
<1>2. FileInv' /\ message_stream_ = <<>>
  BY <1>1 DEF ParserInv, FileInv, MessagesInv
<1>3. MessagesInv'
  BY <1>1, <1>2 DEF ParserInv, MessagesInv
<1>4. PICK off : LaidOut(off, lines, file)
  BY DEF ParserInv, FileInv
<1> DEFINE k == NextLine
<1>5. k = header_lines + 1 /\ k \in 1 .. Len(lines) + 1 /\ Len(lines) \in Nat /\ current = off[k] + 1
  <2>1. k = header_lines + 1
    BY <1>1, <1>2 DEF NextLine
  <2>2. Len(lines) \in Nat
    BY LenProperties DEF ParserInv, FileInv
  <2> HIDE DEF k
  <2>3. k <= Len(lines) + 1 /\ current = off[k] + 1
    BY <1>1, <1>4 DEF ParserInv, CurrentInv, k
  <2> QED BY <1>1, <2>1, <2>2, <2>3
<1> HIDE DEF k
<1>6. CASE Find(Newline, current) = 0
  <2>1. current' = 0 /\ header_lines' = 2 /\ message_stream_' = <<>>
    BY <1>1, <1>2, <1>6
  <2> QED BY <1>2, <1>3, <2>1 DEF ParserInv, CurrentInv
<1>7. CASE Find(Newline, current) # 0
  <2>1. k # Len(lines) + 1
    <3> SUFFICES ASSUME k = Len(lines) + 1 PROVE FALSE
      OBVIOUS
    <3>1. Len(file) \in {off[k] - 1, off[k]} /\ off[k] \in Nat
      BY <1>4, <1>5 DEF LaidOut
    <3>2. off[k] + 1 < Len(file) + 1
      BY <1>1, <1>5 DEF End
    <3> QED BY <3>1, <3>2
  <2>2. k \in 1 .. Len(lines)
    BY <1>5, <2>1
  <2>3. \A o : LaidOut(o, lines, file) => current' = o[k + 1] + 1
    <3> SUFFICES ASSUME NEW o, LaidOut(o, lines, file) PROVE current' = o[k + 1] + 1
      OBVIOUS
    <3>1. current = o[k] + 1
      BY <1>1, <1>5 DEF ParserInv, CurrentInv, k
    <3>2. Find(Newline, current) = o[k + 1]
      BY <1>7, <2>2, <3>1, NewlineIsFound DEF ParserInv
    <3> QED BY <1>1, <1>7, <3>2
  <2>4. NextLine' = k + 1 /\ k + 1 <= Len(lines) + 1
    <3>1. header_lines' = header_lines + 1 /\ Len(message_stream_') = 0
      BY <1>1, <1>2, <1>7
    <3> QED BY <1>1, <1>5, <2>2, <3>1 DEF NextLine
  <2>5. CurrentInv'
    BY <1>1, <2>3, <2>4 DEF CurrentInv
  <2> QED BY <1>2, <1>3, <2>5 DEF ParserInv
<1> QED BY <1>6, <1>7

\* The line that is next becomes the next message, and current goes behind it.
LEMMA ParseKeepsParser == ParserInv /\ ParseNextLine => ParserInv'
<1> SUFFICES ASSUME ParserInv, ParseNextLine PROVE ParserInv'
  OBVIOUS
<1>1. /\ ~InHeader /\ current \in 1 .. Len(file)
      /\ message_stream_' = Append(message_stream_, ParseLine(current))
      /\ current' = (IF Find(Newline, current) = 0 THEN End ELSE Find(Newline, current)) + 1
      /\ lines' = lines /\ file' = file /\ header_lines' = header_lines
  BY DEF ParseNextLine
<1>2. FileInv'
  BY <1>1 DEF ParserInv, FileInv
<1> DEFINE ms == message_stream_
           m == Len(message_stream_)
           n == Len(lines)
           L == Len(file)
           k == NextLine
<1>3. /\ ms \in Seq(Seq(Seq(Digits))) /\ m \in Nat /\ n \in Nat /\ L \in Nat
      /\ \A i \in 1 .. m : ms[i] = lines[i + 2]
  <2>1. ms \in Seq(Seq(Seq(Digits))) /\ \A i \in 1 .. m : ms[i] = lines[i + 2]
    BY DEF ParserInv, MessagesInv
  <2>2. n \in Nat /\ L \in Nat
    BY LenProperties DEF ParserInv, FileInv
  <2> QED BY <2>1, <2>2, LenProperties
<1>4. header_lines = 2
  <2>1. current < End
    BY <1>1, <1>3 DEF End
  <2> QED BY <1>1, <2>1 DEF InHeader, ParserInv, MessagesInv
<1>5. /\ k = m + 3 /\ k <= n + 1
      /\ \A off : LaidOut(off, lines, file) => current = off[k] + 1
  <2>1. k = m + 3
    BY <1>3, <1>4 DEF NextLine
  <2> HIDE DEF k
  <2>2. current # 0
    BY <1>1, <1>3
  <2>3. k <= n + 1 /\ \A off : LaidOut(off, lines, file) => current = off[k] + 1
    BY <2>2 DEF ParserInv, CurrentInv, k
  <2> QED BY <2>1, <2>3
<1>6. PICK off : LaidOut(off, lines, file)
  BY DEF ParserInv, FileInv
<1> HIDE DEF k
<1>7. k \in 3 .. n
  <2> SUFFICES ASSUME k = n + 1 PROVE FALSE
    BY <1>3, <1>5
  <2>1. k \in 1 .. n + 1
    BY <1>3, <1>5
  <2>2. L \in {off[k] - 1, off[k]} /\ off[k] \in Nat /\ current = off[k] + 1
    BY <1>5, <1>6, <2>1 DEF LaidOut
  <2> QED BY <1>1, <2>2
<1>8. k \in 1 .. n /\ FileInv
  BY <1>7 DEF ParserInv
<1>9. ParseLine(current) = lines[k] /\ lines[k] \in Seq(Seq(Digits))
  <2> DEFINE fields == lines[k]
             b == off[k]
  <2>1. fields \in [1 .. Fields -> Seq(Digits) \ {<<>>}]
    BY <1>7, <1>8 DEF FileInv
  <2>2. fields \in Seq(Seq(Digits)) /\ Len(fields) = Fields
    <3> HIDE DEF fields
    <3> QED BY <2>1, FullLine
  <2>3. /\ b \in Nat /\ Len(Line(fields)) \in Nat /\ IsToken(b + 1, Line(fields))
        /\ EndsAt(off[k + 1], Newline) /\ off[k + 1] = b + Len(Line(fields)) + 1
    BY <1>6, <1>8, LineAt
  <2>4. current = b + 1
    BY <1>5, <1>6
  <2> HIDE DEF fields, b
  <2>5. ParseLine(b + 1) = fields
    BY <1>3, <2>2, <2>3, LineIsRead
  <2> QED BY <2>2, <2>4, <2>5 DEF fields
<1>10. MessagesInv'
  <2> DEFINE q == Append(ms, lines[k])
  <2>1. /\ q \in Seq(Seq(Seq(Digits))) /\ Len(q) = m + 1 /\ q[m + 1] = lines[k]
        /\ \A i \in 1 .. m : q[i] = ms[i]
    <3> DEFINE Tokens == Seq(Seq(Digits))
    <3>1. ms \in Seq(Tokens) /\ lines[k] \in Tokens
      BY <1>3, <1>9
    <3> HIDE DEF Tokens
    <3>2. /\ q \in Seq(Tokens) /\ Len(q) = m + 1 /\ q[m + 1] = lines[k]
          /\ \A i \in 1 .. m : q[i] = ms[i]
      BY <3>1, AppendProperties
    <3> QED BY <3>2 DEF Tokens
  <2> HIDE DEF q
  <2>2. message_stream_' = q
    BY <1>1, <1>9 DEF q
  <2>3. ASSUME NEW i \in 1 .. m + 1 PROVE q[i] = lines[i + 2]
    <3>1. CASE i = m + 1
      <4>1. i + 2 = k
        BY <1>3, <1>5, <3>1
      <4> QED BY <2>1, <3>1, <4>1
    <3>2. CASE i # m + 1
      <4>1. i \in 1 .. m
        BY <1>3, <3>2
      <4> QED BY <1>3, <2>1, <4>1
    <3> QED BY <3>1, <3>2
  <2>4. (m + 1) + 2 <= n
    BY <1>3, <1>5, <1>7
  <2> HIDE DEF m, ms, n
  <2>5. /\ header_lines' = 2 /\ Len(q) + 2 <= n /\ \A i \in 1 .. Len(q) : q[i] = lines[i + 2]
    BY <1>1, <1>4, <2>1, <2>3, <2>4
  <2> QED BY <1>1, <2>1, <2>2, <2>5, SMTT(30) DEF MessagesInv, n
<1>11. CurrentInv'
  <2>1. \A o : LaidOut(o, lines, file) => current' = o[k + 1] + 1
    <3> SUFFICES ASSUME NEW o, LaidOut(o, lines, file) PROVE current' = o[k + 1] + 1
      OBVIOUS
    <3>1. current = o[k] + 1
      BY <1>5
    <3>2. /\ o[k + 1] <= L => Find(Newline, current) = o[k + 1]
          /\ ~(o[k + 1] <= L) => Find(Newline, current) = 0 /\ o[k + 1] = L + 1
          /\ o[k] \in Nat /\ o[k + 1] \in Nat /\ o[k + 1] > 0
      <4>1. /\ o[k + 1] <= L => Find(Newline, current) = o[k + 1]
            /\ ~(o[k + 1] <= L) => Find(Newline, current) = 0 /\ o[k + 1] = L + 1
        BY <1>8, <3>1, NewlineIsFound
      <4>2. /\ o[k] \in Nat /\ Len(Line(lines[k])) \in Nat
            /\ o[k + 1] = o[k] + Len(Line(lines[k])) + 1
        BY <1>8, LineAt
      <4> QED BY <4>1, <4>2
    <3>3. CASE o[k + 1] <= L
      BY <1>1, <3>2, <3>3
    <3>4. CASE ~(o[k + 1] <= L)
      BY <1>1, <3>2, <3>4 DEF End
    <3> QED BY <3>3, <3>4
  <2>2. NextLine' = k + 1
    <3>1. Len(message_stream_') = m + 1
      BY <1>1, <1>3, <1>9, AppendProperties
    <3> QED BY <1>1, <1>3, <1>4, <1>5, <3>1 DEF NextLine
  <2>3. k + 1 <= n + 1
    BY <1>3, <1>7
  <2> QED BY <1>1, <2>1, <2>2, <2>3 DEF CurrentInv
<1> QED BY <1>2, <1>10, <1>11 DEF ParserInv

\* What leaves the parser's variables alone leaves its invariant alone.
LEMMA UnchangedKeepsParser == ParserInv /\ UNCHANGED parser => ParserInv'
BY DEF parser, ParserInv, FileInv, MessagesInv, CurrentInv, NextLine

\* In the end the messages are the lines behind the header.
LEMMA ParserInvParses == ParserInv => ParsesEveryLine
<1> SUFFICES ASSUME ParserInv PROVE ParsesEveryLine
  OBVIOUS
<1> DEFINE ms == message_stream_
           m == Len(ms)
           n == Len(lines)
           rest == SubSeq(lines, 3, n)
<1>1. /\ ms \in Seq(Seq(Seq(Digits))) /\ m \in Nat /\ n \in Nat /\ n # 0
      /\ \A i \in 1 .. m : ms[i] = lines[i + 2]
      /\ m # 0 => header_lines = 2 /\ m + 2 <= n
      /\ header_lines \in 0 .. 2
  <2>1. /\ ms \in Seq(Seq(Seq(Digits))) /\ \A i \in 1 .. m : ms[i] = lines[i + 2]
        /\ ms # <<>> => header_lines = 2 /\ m + 2 <= n
        /\ header_lines \in 0 .. 2
    BY DEF ParserInv, MessagesInv
  <2>2. n \in Nat /\ n # 0
    BY LenProperties, EmptySeq DEF ParserInv, FileInv
  <2> QED BY <2>1, <2>2, LenProperties, EmptySeq
<1> DEFINE r == IF 3 <= n THEN n - 2 ELSE 0
<1>2. /\ rest \in Seq(Seq(Seq(Chars))) /\ Len(rest) = r /\ r \in Nat
      /\ \A i \in 1 .. r : rest[i] = lines[i + 2]
  <2> DEFINE Tokens == Seq(Seq(Chars))
  <2>1. \A i \in 3 .. n : lines[i] \in Tokens
    <3>1. lines \in Seq(Tokens) /\ DOMAIN lines = 1 .. n
      BY LenProperties DEF ParserInv, FileInv
    <3> HIDE DEF Tokens
    <3>2. \A i \in DOMAIN lines : lines[i] \in Tokens
      BY <3>1, ElementsOfSeq
    <3> QED BY <1>1, <3>1, <3>2
  <2> HIDE DEF Tokens
  <2>2. /\ rest \in Seq(Tokens) /\ Len(rest) = IF 3 <= n THEN n - 3 + 1 ELSE 0
        /\ \A i \in 1 .. n - 3 + 1 : rest[i] = lines[3 + i - 1]
    BY <1>1, <2>1, SubSeqProperties
  <2> HIDE DEF rest, n
  <2>3. Len(rest) = r /\ r \in Nat
    BY <1>1, <2>2
  <2>4. ASSUME NEW i \in 1 .. r PROVE rest[i] = lines[i + 2]
    <3>1. i \in 1 .. n - 3 + 1 /\ 3 + i - 1 = i + 2
      BY <1>1
    <3> QED BY <2>2, <3>1
  <2> QED BY <2>2, <2>3, <2>4 DEF Tokens
<1>3. m <= r
  BY <1>1
<1> DEFINE All == {ms[i] : i \in 1 .. m} \cup {rest[i] : i \in 1 .. r}
<1>4. IsPrefix(ms, rest)
  <2> HIDE DEF rest, r
  <2>1. m <= Len(rest)
    BY <1>2, <1>3
  <2>2. SubSeq(ms, 1, m) = SubSeq(rest, 1, m)
    <3>1. \A i \in 1 .. m : ms[i] \in All /\ rest[i] \in All /\ ms[i] = rest[i]
      <4> TAKE i \in 1 .. m
      <4>1. i \in 1 .. r
        BY <1>1, <1>2, <1>3
      <4>2. ms[i] = lines[i + 2]
        BY <1>1
      <4>3. rest[i] = lines[i + 2]
        BY <1>2, <4>1
      <4> HIDE DEF ms, m
      <4>4. ms[i] \in All /\ rest[i] \in All
        BY <4>1
      <4> QED BY <4>2, <4>3, <4>4
    <3> HIDE DEF All, ms, m
    <3>2. \A i \in 1 .. m : ms[i] \in All /\ rest[i] \in All
      BY <3>1
    <3> DEFINE a == SubSeq(ms, 1, m)
               c == SubSeq(rest, 1, m)
    <3>3. /\ a \in Seq(All) /\ Len(a) = IF 1 <= m THEN m - 1 + 1 ELSE 0
          /\ \A i \in 1 .. m - 1 + 1 : a[i] = ms[1 + i - 1]
      BY <1>1, <3>2, SubSeqProperties
    <3>4. /\ c \in Seq(All) /\ Len(c) = IF 1 <= m THEN m - 1 + 1 ELSE 0
          /\ \A i \in 1 .. m - 1 + 1 : c[i] = rest[1 + i - 1]
      BY <1>1, <3>2, SubSeqProperties
    <3> HIDE DEF a, c
    <3>5. m - 1 + 1 = m /\ (IF 1 <= m THEN m - 1 + 1 ELSE 0) = m /\ \A i \in 1 .. m : 1 + i - 1 = i
      BY <1>1
    <3>6. a = c
      BY <3>1, <3>3, <3>4, <3>5, SeqEqual
    <3> QED BY <3>6 DEF a, c
  <2> QED BY <2>1, <2>2 DEF IsPrefix
<1>5. ASSUME Parsed PROVE m = r
  <2>1. PICK off : LaidOut(off, lines, file)
    BY DEF ParserInv, FileInv
  <2>2. Len(file) \in Nat
    BY LenProperties DEF ParserInv, FileInv
  <2>3. current >= Len(file) + 1
    BY <1>5 DEF Parsed, End
  <2> DEFINE k == NextLine
  <2>4. /\ k = header_lines + m + 1 /\ k <= n + 1 /\ current = off[k] + 1
    <3>1. current # 0
      BY <2>2, <2>3
    <3> QED BY <2>1, <3>1 DEF ParserInv, CurrentInv, NextLine
  <2> HIDE DEF k
  <2>5. k \in 1 .. n + 1
    BY <1>1, <2>4
  <2>6. CASE k = n + 1
    BY <1>1, <2>4, <2>6
  <2>7. CASE k # n + 1
    <3>1. k \in 1 .. n
      BY <1>1, <2>5, <2>7
    <3> DEFINE w == Len(Line(lines[k]))
    <3>2. /\ off[k] \in Nat /\ off[k + 1] \in Nat /\ w \in Nat
          /\ off[k + 1] = off[k] + w + 1 /\ off[k + 1] <= Len(file) + 1
      BY <2>1, <3>1, LineAt DEF ParserInv
    <3>3. w = 0
      BY <2>2, <2>3, <2>4, <3>2
    <3>4. k < 3
      <4> SUFFICES ASSUME k \in 3 .. n PROVE FALSE
        BY <1>1, <3>1
      <4>1. lines[k] \in [1 .. Fields -> Seq(Digits) \ {<<>>}]
        BY DEF ParserInv, FileInv
      <4>2. Len(Line(lines[k])) # 0
        BY <4>1, FullLine
      <4> QED BY <3>3, <4>2
    <3>5. m = 0
      BY <1>1, <2>4, <3>4
    <3>6. k = n
      <4> SUFFICES ASSUME k # n PROVE FALSE
        OBVIOUS
      <4> DEFINE j == k + 1
                 v == Len(Line(lines[j]))
      <4>1. j \in 1 .. n
        BY <1>1, <3>1
      <4>2. v \in Nat /\ off[j + 1] = off[j] + v + 1 /\ off[j + 1] <= Len(file) + 1
        <5> HIDE DEF j
        <5> QED BY <2>1, <4>1, LineAt DEF ParserInv
      <4> HIDE DEF v
      <4>3. off[j] = off[k] + 1 /\ off[k] >= Len(file)
        BY <2>2, <2>3, <2>4, <3>2, <3>3
      <4> HIDE DEF j
      <4> QED BY <2>2, <3>2, <4>2, <4>3
    <3> QED BY <1>1, <3>4, <3>5, <3>6
  <2> QED BY <2>6, <2>7
<1>6. ASSUME Parsed PROVE ms = rest
  <2>1. SubSeq(ms, 1, m) = SubSeq(rest, 1, m) /\ m = Len(rest)
    BY <1>2, <1>4, <1>5, <1>6 DEF IsPrefix
  <2> HIDE DEF rest, ms
  <2> DEFINE D == Seq(Seq(Digits))
             C == Seq(Seq(Chars))
  <2>2. ms \in Seq(D) /\ rest \in Seq(C)
    BY <1>1, <1>2
  <2>3. m = Len(ms)
    OBVIOUS
  <2> HIDE DEF rest, ms, m, D, C
  <2>4. SubSeq(ms, 1, Len(ms)) = ms /\ SubSeq(rest, 1, Len(rest)) = rest
    BY <2>2, SubSeqFull
  <2> QED BY <2>1, <2>3, <2>4
<1> QED BY <1>4, <1>6 DEF ParsesEveryLine

\* The program's steps leave the parser alone, or are its steps.
LEMMA MainKeepsParser ==
  ASSUME ParserInv, [MainNext]_<<parser, vars>>
  PROVE  ParserInv'
<1>1. CASE Parse
  BY <1>1, SkipKeepsParser, ParseKeepsParser DEF Parse, ParseMappedData
<1>2. CASE Exec
  BY <1>2, UnchangedKeepsParser DEF Exec, parser
<1>3. CASE UNCHANGED <<parser, vars>>
  BY <1>3, UnchangedKeepsParser
<1> QED BY <1>1, <1>2, <1>3 DEF MainNext

\* At every moment of the program the messages are the lines behind the header, read so
\* far and in order, with the fields they were written with; when the parser is done, all.
THEOREM ParserCorrect == MainSpec => []ParsesEveryLine
<1>1. MainInit => ParserInv
  BY InitParser DEF MainInit
<1>2. ParserInv /\ [MainNext]_<<parser, vars>> => ParserInv'
  BY MainKeepsParser
<1>3. ParserInv => ParsesEveryLine
  BY ParserInvParses
<1> QED BY <1>1, <1>2, <1>3, PTL DEF MainSpec
=============================================================================
