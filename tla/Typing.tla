------------------------------- MODULE Typing -------------------------------
(***************************************************************************)
(* "Is typing": the Composer of one user, the events the gateway relays,   *)
(* and the page of another user of the room.  Time runs in steps of about  *)
(* a second; an event that is throttled, or sent by or to a socket that is *)
(* not in the channel, is lost.                                            *)
(***************************************************************************)
EXTENDS Integers, SequencesExt

CONSTANTS
    Idle,           \* TYPING_IDLE_MS, in steps
    Expiry,         \* the four seconds of a typing timer, in steps
    MaxKeys, MaxLost    \* bounds: keys pressed, events lost

ASSUME TypingAssumption == Idle \in Nat \ {0} /\ Expiry \in Nat \ {0}

VARIABLES
    composer,   \* isTypingRef, and the idle timer; -1 when it does not run
    wire,       \* the events of the user's socket, in order
    viewer,     \* whether the page shows the user as typing, its timer, and whether
                \* it has gone to another room
    typed       \* bounds: keys and losses left

typingVars == <<composer, wire, viewer, typed>>

TypingInit ==
    /\ composer = [typing |-> FALSE, idle |-> -1]
    /\ wire = <<>>
    /\ viewer = [shows |-> FALSE, timer |-> -1, away |-> FALSE]
    /\ typed = [keys |-> MaxKeys, lost |-> MaxLost]

-----------------------------------------------------------------------------
(* The composer *)

\* signalTyping: chat:typing is sent by the first key only.
Key ==
    /\ typed.keys > 0 /\ typed' = [typed EXCEPT !.keys = @ - 1]
    /\ wire' = IF composer.typing THEN wire ELSE Append(wire, "typing")
    /\ composer' = [typing |-> TRUE, idle |-> Idle]
    /\ UNCHANGED viewer

StopsTyping == composer' = [typing |-> FALSE, idle |-> -1]

\* The idle timer fires.
GoesIdle ==
    /\ composer.idle = 0
    /\ StopsTyping
    /\ wire' = Append(wire, "stop")
    /\ UNCHANGED <<viewer, typed>>

\* endTyping: the text is emptied or left; or sent, as a message before that.
Empties ==
    /\ composer.typing
    /\ StopsTyping
    /\ wire' = Append(wire, "stop")
    /\ UNCHANGED <<viewer, typed>>
Sends ==
    /\ composer.typing
    /\ StopsTyping
    /\ wire' = wire \o <<"message", "stop">>
    /\ UNCHANGED <<viewer, typed>>

\* The composer goes with its page: the timer is cleared and nothing is sent.
LeavesRoom ==
    /\ composer.typing /\ typed.keys > 0
    /\ typed' = [typed EXCEPT !.keys = 0]
    /\ StopsTyping
    /\ UNCHANGED <<wire, viewer>>

-----------------------------------------------------------------------------
(* The other page *)

\* Mutant: a user who is shown already gets no new timer.
HearsTypingOnce(v) ==
    IF v.shows THEN [v EXCEPT !.timer = -1] ELSE [v EXCEPT !.shows = TRUE, !.timer = Expiry]

\* onTyping: the old timer makes way for a new one.
HearsTyping(v) == [v EXCEPT !.shows = TRUE, !.timer = Expiry]

\* onStopTyping clears the timer too; a message leaves it to fire in vain.
HearsStop(v) == [v EXCEPT !.shows = FALSE, !.timer = -1]
HearsMessage(v) == [v EXCEPT !.shows = FALSE]

\* A message is stored before it is sent on, so what follows it may overtake it.
Relay ==
    \E i \in DOMAIN wire :
        /\ \A before \in 1 .. i - 1 : wire[before] = "message"
        /\ wire' = RemoveAt(wire, i)
        /\ viewer' = IF viewer.away THEN viewer
                     ELSE IF wire[i] = "typing" THEN HearsTyping(viewer)
                     ELSE IF wire[i] = "stop" THEN HearsStop(viewer)
                     ELSE HearsMessage(viewer)
        /\ UNCHANGED <<composer, typed>>

Lose ==
    /\ wire # <<>> /\ typed.lost > 0
    /\ typed' = [typed EXCEPT !.lost = @ - 1]
    /\ wire' = Tail(wire)
    /\ UNCHANGED <<composer, viewer>>

TypingExpires ==
    /\ viewer.timer = 0
    /\ viewer' = [viewer EXCEPT !.shows = FALSE, !.timer = -1]
    /\ UNCHANGED <<composer, wire, typed>>

\* Another room in the same component: the timers are cleared, the names are kept.
SwitchRoom ==
    /\ ~viewer.away
    /\ viewer' = [viewer EXCEPT !.timer = -1, !.away = TRUE]
    /\ UNCHANGED <<composer, wire, typed>>

\* A step of time; a timer that is due fires first.
Runs(timer) == IF timer > 0 THEN timer - 1 ELSE timer
TimePasses ==
    /\ composer.idle # 0 /\ viewer.timer # 0
    /\ composer' = [composer EXCEPT !.idle = Runs(@)]
    /\ viewer' = [viewer EXCEPT !.timer = Runs(@)]
    /\ UNCHANGED <<wire, typed>>

TypingNext ==
    \/ Key \/ GoesIdle \/ Empties \/ Sends \/ LeavesRoom
    \/ Relay \/ Lose \/ TypingExpires \/ SwitchRoom \/ TimePasses

\* Clocks run and timers fire.  Nothing is assumed of the network.
TypingFairness ==
    WF_typingVars(TimePasses) /\ WF_typingVars(GoesIdle) /\ WF_typingVars(TypingExpires)

-----------------------------------------------------------------------------

\* A page does not show someone as typing for ever, whether or not it hears that they
\* stopped, unless it went to another room while it showed that (useChatSocket.ts,
\* "Per-user timers that clear a stale typing if stop_typing never arrives").
TypingEnds == viewer.shows ~> (~viewer.shows \/ viewer.away)

=============================================================================
