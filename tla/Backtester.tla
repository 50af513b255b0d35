----------------------------- MODULE Backtester -----------------------------
(***************************************************************************)
(* Backtester (src/src/backtester.cpp) and the buttons of BookGui          *)
(* (src/src/book_gui.cpp).  Both live on the GUI thread and talk through   *)
(* its event queue: main.cpp connects them by queued signals.              *)
(*                                                                         *)
(* The thread is either in app.exec() or inside run_backtest, which lets   *)
(* events be handled between two statements (processEvents).  A timer that *)
(* was stopped and started again by such an event can then call            *)
(* run_backtest once more, inside the first call: frames is the stack of   *)
(* calls that have not returned.                                           *)
(*                                                                         *)
(* A message is its position in the file, and what matters of the book is  *)
(* the last message it has processed and whether calculate_vols has run.   *)
(***************************************************************************)
EXTENDS Integers, FiniteSets, SequencesExt

CONSTANTS
  N,              (* messages_.size()                                      *)
  Opens,          (* the first message at or after start_time_             *)
  Closings,       (* the first one at or after end_time_: the candidates,  *)
                  (* N if the file ends before                             *)
  Early,          (* 14000: calculate_vols runs once before this message   *)
  SnapshotEvery,  (* 100: and at every multiple of this                    *)
  MaxClicks       (* bound: clicks on a button                             *)

ASSUME BacktesterAssumption ==
  /\ N \in Nat \ {0}
  /\ Opens \in Nat
  /\ Closings \subseteq 0 .. N
  /\ Early \in Nat
  /\ SnapshotEvery \in Nat \ {0}
  /\ MaxClicks \in Nat

VARIABLES
  \* BookGui
  buttons,                  (* which of the three buttons are enabled      *)
  clicks,
  \* the thread
  posted,                   (* the queued signals, oldest first            *)
  timer,                    (* backtest_timer_: "busy" while its own event *)
                            (* is being handled, which it cannot interrupt *)
  frames,
  \* Backtester
  current_message_index_,
  running_,
  first_update_,
  book,
  closes                    (* where the file passes end_time_             *)

gui        == <<buttons, clicks>>
backtester == <<current_message_index_, running_, first_update_, book>>
vars       == <<gui, posted, timer, frames, backtester, closes>>

NewBook == [last |-> -1, update_possible |-> FALSE]

Ready   == [start |-> TRUE,  stop |-> FALSE, restart |-> TRUE]
Waiting == [start |-> FALSE, stop |-> TRUE,  restart |-> FALSE]

Init ==
  /\ buttons = [Ready EXCEPT !.restart = FALSE]
  /\ clicks = 0
  /\ posted = <<>>
  /\ timer = "off"
  /\ frames = <<>>
  /\ current_message_index_ = 0
  /\ running_ = FALSE
  /\ first_update_ = FALSE
  /\ book = NewBook
  /\ closes \in Closings

-----------------------------------------------------------------------------
(* The event loops: app.exec(), or processEvents in the innermost call of  *)
(* run_backtest.                                                           *)

HandlingEvents == frames # <<>> => Last(frames).pc = "events"

\* A click on an enabled button.
Click(button) ==
  /\ HandlingEvents
  /\ buttons[button]
  /\ clicks < MaxClicks
  /\ clicks' = clicks + 1
  /\ UNCHANGED <<timer, frames, backtester, closes>>

HandleStartButtonClick ==
  /\ Click("start")
  /\ buttons' = Waiting
  /\ posted' = Append(posted, "start")

HandleStopButtonClick ==
  /\ Click("stop")
  /\ buttons' = Ready
  /\ posted' = Append(posted, "stop")

ToGui(signal) == signal \in {"points", "finished"}

\* What clear_data leaves: it drops what is posted to the window.
NotToGui(signals) ==
  LET kept[n \in 0 .. Len(signals)] ==
        IF n = 0 THEN <<>>
        ELSE IF ToGui(signals[n]) THEN kept[n - 1] ELSE Append(kept[n - 1], signals[n])
  IN kept[Len(signals)]

HandleRestartButtonClick ==
  /\ Click("restart")
  /\ buttons' = Waiting
  /\ posted' = Append(NotToGui(posted), "restart")

\* The oldest queued signal reaches its slot.
Deliver(signal) ==
  /\ HandlingEvents
  /\ posted # <<>>
  /\ Head(posted) = signal
  /\ posted' = Tail(posted)
  /\ UNCHANGED <<clicks, frames, closes>>

\* add_data_point, log_trade
ShowPoints ==
  /\ Deliver("points")
  /\ UNCHANGED <<buttons, timer, backtester>>

OnBacktestFinished ==
  /\ Deliver("finished")
  /\ buttons' = Ready
  /\ UNCHANGED <<timer, backtester>>

\* The return for "Already completed" comes after running_ is set.
StartBacktest ==
  /\ Deliver("start")
  /\ running_' = TRUE
  /\ timer' = IF running_ \/ (current_message_index_ # 0 /\ current_message_index_ >= N)
              THEN timer ELSE "armed"
  /\ UNCHANGED <<buttons, current_message_index_, first_update_, book>>

StopBacktest ==
  /\ Deliver("stop")
  /\ running_' = FALSE
  /\ timer' = "off"
  /\ UNCHANGED <<buttons, current_message_index_, first_update_, book>>

\* Mutant: the new book is fed from where the old one was.
ResetStateKeepsIndex ==
  /\ first_update_' = FALSE
  /\ book' = NewBook
  /\ UNCHANGED current_message_index_

\* Mutant: the old book is kept.
ResetStateKeepsBook ==
  /\ current_message_index_' = 0
  /\ first_update_' = FALSE
  /\ UNCHANGED book

ResetState ==
  /\ current_message_index_' = 0
  /\ first_update_' = FALSE
  /\ book' = NewBook

\* stop_backtest, reset_state and start_backtest, which finds running_ not set.
RestartBacktest ==
  /\ Deliver("restart")
  /\ ResetState
  /\ running_' = TRUE
  /\ timer' = "armed"
  /\ UNCHANGED buttons

\* The timer calls run_backtest, in a frame of its own.
RunBacktest ==
  /\ HandlingEvents
  /\ timer = "armed"
  /\ timer' = "busy"
  /\ running_' = TRUE
  /\ first_update_' = FALSE
  /\ frames' = Append(frames, [pc |-> "loop", msg |-> 0])
  /\ UNCHANGED <<gui, posted, current_message_index_, book, closes>>

-----------------------------------------------------------------------------
(* run_backtest, in the innermost frame.  msg is the message of this turn  *)
(* of the loop: curr_time is its time, whatever happens to the index.      *)

At(pc) == frames # <<>> /\ Last(frames).pc = pc

GoTo(frame) == frames' = Append(Front(frames), frame)

\* Mutant: the window is not told.
FinishUntold(signals) ==
  /\ posted' = posted \o signals
  /\ running_' = FALSE
  /\ timer' = "off"
  /\ frames' = Front(frames)

\* Mutant: no stop_backtest, and the timer fires again.
FinishUnstopped(signals) ==
  /\ posted' = posted \o Append(signals, "finished")
  /\ running_' = FALSE
  /\ timer' = IF timer = "busy" THEN "armed" ELSE timer
  /\ frames' = Front(frames)

\* Behind the loop; signals are what the last turn has posted.
Finish(signals) ==
  /\ posted' = posted \o Append(signals, "finished")
  /\ running_' = FALSE
  /\ timer' = "off"
  /\ frames' = Front(frames)

LeaveLoop ==
  /\ At("loop")
  /\ ~(running_ /\ current_message_index_ < N)
  /\ Finish(<<>>)
  /\ UNCHANGED <<gui, current_message_index_, first_update_, book, closes>>

\* process_msg; then, if 20 ms have passed, update_gui and processEvents.
ProcessMessage ==
  /\ At("loop")
  /\ running_ /\ current_message_index_ < N
  /\ book' = [book EXCEPT !.last = current_message_index_]
  /\ \/ /\ GoTo([pc |-> "turn", msg |-> current_message_index_])
        /\ UNCHANGED posted
     \/ /\ current_message_index_ >= Opens
        /\ GoTo([pc |-> "events", msg |-> current_message_index_])
        /\ posted' = Append(posted, "points")
  /\ UNCHANGED <<gui, timer, current_message_index_, running_, first_update_, closes>>

ReturnFromEvents ==
  /\ At("events")
  /\ GoTo([Last(frames) EXCEPT !.pc = "turn"])
  /\ UNCHANGED <<gui, posted, timer, backtester, closes>>

FirstUpdateDue == current_message_index_ < Early /\ ~first_update_

VolsDue == FirstUpdateDue \/ current_message_index_ % SnapshotEvery = 0

\* What the strategy posts: a trade, or nothing.
Trades(msg) == IF msg >= Opens THEN {<<>>, <<"points">>} ELSE {<<>>}

\* Mutant: the loop goes on to the end of the file and past it.
IsLastPastTheEnd(msg) == msg >= closes

\* The two breaks.
IsLast(msg) == msg >= closes \/ current_message_index_ = N - 1

\* The rest of the turn.
EndTurn ==
  LET msg == Last(frames).msg
  IN /\ At("turn")
     /\ first_update_' = (first_update_ \/ FirstUpdateDue)
     /\ book' = [book EXCEPT !.update_possible = @ \/ VolsDue]
     /\ \E trades \in Trades(msg) :
          \/ /\ IsLast(msg)
             /\ Finish(trades)
             /\ UNCHANGED current_message_index_
          \/ /\ ~IsLast(msg)
             /\ current_message_index_' = current_message_index_ + 1
             /\ posted' = posted \o trades
             /\ GoTo([pc |-> "loop", msg |-> 0])
             /\ UNCHANGED <<timer, running_>>
     /\ UNCHANGED <<gui, closes>>

-----------------------------------------------------------------------------
User == HandleStartButtonClick \/ HandleStopButtonClick \/ HandleRestartButtonClick

Slots == ShowPoints \/ OnBacktestFinished \/ StartBacktest \/ StopBacktest \/ RestartBacktest

Loop == LeaveLoop \/ ProcessMessage \/ ReturnFromEvents \/ EndTurn

Thread == Slots \/ RunBacktest \/ Loop

Next == User \/ Thread

Spec == Init /\ [][Next]_vars

\* The thread goes on, whatever the user does.
FairSpec == Spec /\ WF_vars(Thread)

-----------------------------------------------------------------------------
(* Properties. *)

TypeOK ==
  /\ buttons \in [start : BOOLEAN, stop : BOOLEAN, restart : BOOLEAN]
  /\ clicks \in 0 .. MaxClicks
  /\ posted \in Seq({"start", "stop", "restart", "points", "finished"})
  /\ timer \in {"off", "armed", "busy"}
  /\ frames \in Seq([pc : {"loop", "events", "turn"}, msg : 0 .. N - 1])
  /\ current_message_index_ \in 0 .. N - 1
  /\ running_ \in BOOLEAN
  /\ first_update_ \in BOOLEAN
  /\ book \in [last : -1 .. N - 1, update_possible : BOOLEAN]
  /\ closes \in Closings

\* running_ never stays set with nobody to clear it, which would make start_backtest
\* answer "already running" for ever; and the timer fires only while it is set.
RunningIsDriven ==
  /\ running_ => timer # "off" \/ frames # <<>>
  /\ timer # "off" => running_

\* The window agrees with the backtester whenever nothing is going on: Start is
\* enabled, Stop is not, though signals cross clicks and clear_data drops some.
IdleIsReady ==
  posted = <<>> /\ frames = <<>> /\ timer = "off" =>
    ~running_ /\ buttons.start /\ ~buttons.stop

\* A book never processes an earlier message after a later one, however calls of
\* run_backtest nest.
BookGoesForward == [][book'.last # book.last => book' = NewBook \/ book'.last > book.last]_vars

\* When the strategy reads bid_vol_ and ask_vol_, calculate_vols has given them a
\* value on that very book.
VolsBeforeStrategy == [][EndTurn /\ Last(frames).msg >= Opens => book'.update_possible]_vars

\* Whatever the user clicks and when, the program comes to rest.
ComesToRest == <>[](posted = <<>> /\ frames = <<>> /\ timer = "off")

\* backtester.cpp:61, "Starting from the beginning...": a new book gets the first
\* message first.  But the loop that a restart interrupts advances the index.
StartsFromTheBeginning == [][ProcessMessage /\ book.last = -1 => book'.last = 0]_vars
=============================================================================
