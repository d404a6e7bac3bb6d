------------------------------ MODULE Throttle ------------------------------
(***************************************************************************)
(* The output path of one IrcClient: send_message() asks the TokensBucket  *)
(* for a token, a message that gets none waits in message_queue, and a     *)
(* repetitive timed event of one second (add_token) either sends the front *)
(* of the queue or puts a token back.                                      *)
(*                                                                         *)
(* A message is its number in the order of acceptance.  The wire is the    *)
(* sequence of messages handed to the socket by actual_send()/send_raw().  *)
(***************************************************************************)
EXTENDS Integers, Sequences

CONSTANTS
  Limits,     \* the values the option throttle_limit takes (a long int)
  Toggles,    \* whether the user turns throttling off and on at run time
  Modulus,    \* the number of values of std::size_t, the type of tokens
  MaxMsgs     \* bound: the messages accepted in one behaviour

ASSUME ThrottleAssumption ==
  /\ Limits # {}
  /\ Modulus \in Nat \ {0, 1}
  /\ Limits \subseteq (-Modulus + 1) .. (Modulus - 1)
  /\ Toggles \in BOOLEAN
  /\ MaxMsgs \in Nat

VARIABLES
  limit,          \* TokensBucket::limit
  tokens,         \* TokensBucket::tokens, a size_t
  message_queue,  \* IrcClient::message_queue
  wire,           \* what was given to send_data(), oldest first
  accepted        \* how many messages were given to the client so far

vars == <<limit, tokens, message_queue, wire, accepted>>

Ids == 1 .. MaxMsgs

\* How a message reached the client: send_message() with its default
\* throttle = true, send_message(.., false) as QUIT does, or send_raw().
Ways == {"throttled", "unthrottled", "raw"}

Sent == [id : Ids, way : Ways]

(***************************************************************************)
(* The bucket                                                              *)
(***************************************************************************)
ToSize(n) == n % Modulus

BucketInit ==
  /\ limit \in Limits
  /\ tokens = ToSize(limit)


\* use_token() returns true ...
TokenGranted == limit < 0 \/ tokens > 0

\* ... and takes the token, unless there is no limit.
TokensAfterUse == IF limit >= 0 /\ tokens > 0 THEN tokens - 1 ELSE tokens

\* The end of add_token(), after a callback that returned true.
TokensAfterFill == IF tokens # ToSize(limit) THEN ToSize(tokens + 1) ELSE tokens

(***************************************************************************)
(* The operations                                                          *)
(***************************************************************************)
Init ==
  /\ BucketInit
  /\ message_queue = <<>>
  /\ wire = <<>>
  /\ accepted = 0

ActualSend(m, way) == wire' = Append(wire, [id |-> m, way |-> way])

Accept == accepted < MaxMsgs /\ accepted' = accepted + 1

\* send_message() with throttle = true: every command but QUIT.
Send ==
  /\ Accept
  /\ tokens' = TokensAfterUse
  /\ \/ /\ TokenGranted
        /\ ActualSend(accepted', "throttled")
        /\ UNCHANGED message_queue
     \/ /\ ~TokenGranted
        /\ message_queue' = Append(message_queue, accepted')
        /\ UNCHANGED wire
  /\ UNCHANGED limit

\* send_quit_command(): use_token() is evaluated first, so a QUIT takes a
\* token when there is one, and is sent whatever the answer.
SendUnthrottled ==
  /\ Accept
  /\ tokens' = TokensAfterUse
  /\ ActualSend(accepted', "unthrottled")
  /\ UNCHANGED <<limit, message_queue>>

SendRaw ==
  /\ Accept
  /\ ActualSend(accepted', "raw")
  /\ UNCHANGED <<limit, tokens, message_queue>>

\* Plausible bugs: the callback returns true after it sent the front of the
\* queue; a limit of 0 is taken for no limit.
MutAddTokenAlsoFills ==
  /\ limit >= 0
  /\ \/ message_queue = <<>> /\ UNCHANGED <<message_queue, wire>>
     \/ /\ message_queue # <<>>
        /\ ActualSend(Head(message_queue), "throttled")
        /\ message_queue' = Tail(message_queue)
  /\ tokens' = TokensAfterFill
  /\ UNCHANGED <<limit, accepted>>

MutAddTokenZero ==
  /\ limit > 0
  /\ \/ /\ message_queue # <<>>
        /\ ActualSend(Head(message_queue), "throttled")
        /\ message_queue' = Tail(message_queue)
        /\ UNCHANGED tokens
     \/ /\ message_queue = <<>>
        /\ tokens' = TokensAfterFill
        /\ UNCHANGED <<message_queue, wire>>
  /\ UNCHANGED <<limit, accepted>>

\* add_token(), run by the timed event every second.  The callback given by
\* IrcClient sends the front of the queue and returns false, or returns true
\* when the queue is empty.
AddToken ==
  \/ /\ limit < 0
     /\ UNCHANGED vars
  \/ /\ limit >= 0
     /\ message_queue # <<>>
     /\ ActualSend(Head(message_queue), "throttled")
     /\ message_queue' = Tail(message_queue)
     /\ UNCHANGED <<limit, tokens, accepted>>
  \/ /\ limit >= 0
     /\ message_queue = <<>>
     /\ tokens' = TokensAfterFill
     /\ UNCHANGED <<limit, message_queue, wire, accepted>>

\* ConfigureIrcServerStep2 changes the limit of a live client; the tokens
\* stay as they are.
SetLimit(n) ==
  /\ (n < 0) = (limit < 0) \/ Toggles
  /\ limit' = n
  /\ UNCHANGED <<tokens, message_queue, wire, accepted>>

Next ==
  \/ Send
  \/ SendUnthrottled
  \/ SendRaw
  \/ AddToken
  \/ \E n \in Limits : SetLimit(n)

\* The poll loop runs every expired timed event before it waits again, so
\* the repetitive event of the bucket fires for as long as the client lives.
Fairness == WF_vars(AddToken)

Spec == Init /\ [][Next]_vars

FairSpec == Spec /\ Fairness

(***************************************************************************)
(* Properties                                                              *)
(***************************************************************************)
\* The types; the tokens are a size_t whatever add_token() and the cast of a
\* negative limit do.
TypeOK ==
  /\ limit \in Limits
  /\ tokens \in 0 .. (Modulus - 1)
  /\ message_queue \in Seq(Ids)
  /\ wire \in Seq(Sent)
  /\ accepted \in 0 .. MaxMsgs

Throttled(i) == wire[i].way = "throttled"

\* Unless throttling is turned off, no message waits while a token is left:
\* send_message() cannot overtake the queue with a token that add_token() put
\* back, as add_token() puts none back before the queue is empty.
NoTokenWhileWaiting == message_queue # <<>> => tokens = 0

\* The throttled messages reach the wire in the order in which they were
\* given to send_message(), those that got a token at once and those that
\* went through message_queue together; whatever waits is younger than
\* everything throttled that was sent.
InOrder ==
  /\ \A i, j \in 1 .. Len(wire) :
       i < j /\ Throttled(i) /\ Throttled(j) => wire[i].id < wire[j].id
  /\ \A i, j \in 1 .. Len(message_queue) :
       i < j => message_queue[i] < message_queue[j]
  /\ \A i \in 1 .. Len(wire), j \in 1 .. Len(message_queue) :
       Throttled(i) => wire[i].id < message_queue[j]

\* Once the bucket holds no more tokens than its limit, only a change of the
\* limit to a lower value makes it hold more: add_token() does not overfill.
StaysWithinLimit ==
  [][limit >= 0 /\ tokens <= limit /\ limit' >= limit => tokens' <= limit']_vars

\* A message that waits is sent at last: add_token() empties the queue one
\* message at a time, "every n seconds, it executes the given callback".
WaitingIsSent ==
  \A m \in Ids :
    (\E i \in 1 .. Len(message_queue) : message_queue[i] = m)
      ~> (\E i \in 1 .. Len(wire) : wire[i].id = m)

(***************************************************************************)
(* The throttled output implements OrderedOutput.                          *)
(***************************************************************************)
Waiting == {message_queue[i] : i \in 1 .. Len(message_queue)}

Delivered == {wire[i].id : i \in {k \in 1 .. Len(wire) : Throttled(k)}}

Ordered == INSTANCE OrderedOutput WITH
             Messages <- Ids, waiting <- Waiting, delivered <- Delivered

\* Every step of the throttled output is a step of the ordered output, or
\* leaves it unchanged.
ImplementsOrderedOutput == Ordered!OSpec
=============================================================================
