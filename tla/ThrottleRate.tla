---------------------------- MODULE ThrottleRate ----------------------------
(***************************************************************************)
(* Throttle observed through a window that opens at any moment: how many   *)
(* throttled messages reached the wire since, and how often the one-second *)
(* event fired.  The observer adds history variables and changes nothing   *)
(* of the output path.                                                     *)
(***************************************************************************)
EXTENDS Throttle

CONSTANT MaxTicks   \* bound: the timer events observed in one window

ASSUME RateAssumption == MaxTicks \in Nat

VARIABLES
  stock,   \* the tokens in the bucket when the window opened
  ticks,   \* the calls of add_token() since
  served   \* the throttled messages put on the wire since

rvars == <<limit, tokens, message_queue, wire, accepted, stock, ticks, served>>

RInit ==
  /\ Init
  /\ stock = tokens
  /\ ticks = 0
  /\ served = 0

OpenWindow ==
  /\ stock' = tokens
  /\ ticks' = 0
  /\ served' = 0
  /\ UNCHANGED vars

ObservedSend ==
  /\ Send
  /\ served' = IF wire' # wire THEN served + 1 ELSE served
  /\ UNCHANGED <<stock, ticks>>

ObservedAddToken ==
  /\ ticks < MaxTicks
  /\ AddToken
  /\ ticks' = ticks + 1
  /\ served' = IF wire' # wire THEN served + 1 ELSE served
  /\ UNCHANGED stock

\* At the bound, the observer begins a new window.
LastTick ==
  /\ ticks = MaxTicks
  /\ AddToken
  /\ stock' = tokens'
  /\ ticks' = 0
  /\ served' = 0

ObservedOther ==
  /\ SendUnthrottled \/ SendRaw \/ \E n \in Limits : SetLimit(n)
  /\ UNCHANGED <<stock, ticks, served>>

RNext ==
  \/ OpenWindow
  \/ ObservedSend
  \/ ObservedAddToken
  \/ LastTick
  \/ ObservedOther

RSpec == RInit /\ [][RNext]_rvars

\* The timer of the bucket fires for as long as the client lives: see Fairness
\* in Throttle.
FairRSpec == RSpec /\ WF_rvars(ObservedAddToken \/ LastTick)

\* "When messages are throttled, only one command per second is sent"
\* (doc/user.rst): in every window, whatever the user does to a limit that is
\* not negative, the throttled messages that leave are at most
\* the tokens that were in the bucket plus one for each second.
RateBound == limit >= 0 => served <= stock + ticks
=============================================================================
