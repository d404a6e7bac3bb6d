--------------------------- MODULE ThrottleProofs ---------------------------
(***************************************************************************)
(* Proofs about Throttle and ThrottleRate for every set of limits, every   *)
(* width of size_t and every number of messages.                           *)
(***************************************************************************)
EXTENDS ThrottleRate, TLAPS

\* The limits under which the output is ordered and bounded.
NonNegative == Limits \subseteq Nat

\* size_t arithmetic stays in its range: what add_token() stores, what
\* use_token() leaves and what the constructor casts.
LEMMA SizeRange ==
  ASSUME NEW n \in Int
  PROVE  ToSize(n) \in 0 .. (Modulus - 1)
BY ThrottleAssumption DEF ToSize

\* Taking and adding a token keep a size_t, and neither adds more than one:
\* use_token() and add_token().
LEMMA TokenSteps ==
  ASSUME tokens \in 0 .. (Modulus - 1), limit \in Limits
  PROVE  /\ TokensAfterUse \in 0 .. (Modulus - 1)
         /\ TokensAfterFill \in 0 .. (Modulus - 1)
         /\ tokens = 0 => TokensAfterUse = 0
         /\ TokensAfterFill <= tokens + 1
<1>1. limit \in Int /\ tokens \in Int /\ tokens + 1 \in Int
  BY ThrottleAssumption
<1>2. ToSize(tokens + 1) \in 0 .. (Modulus - 1)
  BY <1>1, SizeRange
<1>3. ToSize(tokens + 1) <= tokens + 1
  <2>1. CASE tokens + 1 = Modulus
    BY <2>1, <1>1, <1>2, ThrottleAssumption
  <2>2. CASE tokens + 1 < Modulus
    BY <2>2, <1>1, ThrottleAssumption DEF ToSize
  <2>3. QED
    BY <2>1, <2>2, <1>1, ThrottleAssumption
<1>4. QED
  BY <1>1, <1>2, <1>3, ThrottleAssumption DEF TokensAfterUse, TokensAfterFill

\* The initial tokens are a size_t, and so are all that follow; the queue and
\* the wire hold messages.
THEOREM TypeCorrect == Spec => []TypeOK
<1>1. Init => TypeOK
  <2>1. ASSUME NEW n \in Limits PROVE ToSize(n) \in 0 .. (Modulus - 1)
    BY SizeRange, ThrottleAssumption
  <2>2. QED
    BY <2>1, ThrottleAssumption DEF Init, BucketInit, TypeOK
<1>2. TypeOK /\ [Next]_vars => TypeOK'
  <2> SUFFICES ASSUME TypeOK, [Next]_vars PROVE TypeOK'
    OBVIOUS
  <2> USE ThrottleAssumption DEF TypeOK
  <2>0. ASSUME NEW m \in Ids, NEW way \in Ways, ActualSend(m, way)
        PROVE  wire' \in Seq(Sent)
    <3>1. [id |-> m, way |-> way] \in Sent
      BY DEF Sent
    <3>2. QED
      BY <2>0, <3>1 DEF ActualSend
  <2>a. Accept => accepted' \in Ids /\ accepted' \in 0 .. MaxMsgs
    BY DEF Accept, Ids
  <2>b. {"throttled", "unthrottled", "raw"} = Ways
    BY DEF Ways
  <2>1. CASE Send
    <3>1. accepted' \in Ids /\ accepted' \in 0 .. MaxMsgs
      BY <2>1, <2>a DEF Send
    <3>2. wire' \in Seq(Sent) /\ message_queue' \in Seq(Ids)
      <4>1. CASE ActualSend(accepted', "throttled") /\ UNCHANGED message_queue
        BY <2>0, <2>b, <3>1, <4>1
      <4>2. CASE message_queue' = Append(message_queue, accepted') /\ UNCHANGED wire
        BY <3>1, <4>2
      <4>3. QED
        BY <2>1, <4>1, <4>2 DEF Send
    <3>3. QED
      BY <2>1, <3>1, <3>2, TokenSteps DEF Send
  <2>2. CASE SendUnthrottled
    <3>1. accepted' \in Ids /\ accepted' \in 0 .. MaxMsgs
      BY <2>2, <2>a DEF SendUnthrottled
    <3>2. wire' \in Seq(Sent)
      BY <2>0, <2>b, <2>2, <3>1 DEF SendUnthrottled
    <3>3. QED
      BY <2>2, <3>1, <3>2, TokenSteps DEF SendUnthrottled
  <2>3. CASE SendRaw
    <3>1. accepted' \in Ids /\ accepted' \in 0 .. MaxMsgs
      BY <2>3, <2>a DEF SendRaw
    <3>2. wire' \in Seq(Sent)
      BY <2>0, <2>b, <2>3, <3>1 DEF SendRaw
    <3>3. QED
      BY <2>3, <3>1, <3>2 DEF SendRaw
  <2>4. CASE AddToken
    <3>1. message_queue # <<>> => /\ Head(message_queue) \in Ids
                                 /\ Tail(message_queue) \in Seq(Ids)
      OBVIOUS
    <3>2. wire' \in Seq(Sent) /\ message_queue' \in Seq(Ids)
      BY <2>0, <2>b, <2>4, <3>1 DEF AddToken, vars
    <3>3. QED
      BY <2>4, <3>2, TokenSteps DEF AddToken, vars
  <2>5. ASSUME NEW n \in Limits, SetLimit(n) PROVE TypeOK'
    BY <2>5 DEF SetLimit
  <2>6. CASE UNCHANGED vars
    BY <2>6 DEF vars
  <2>7. QED
    BY <2>1, <2>2, <2>3, <2>4, <2>5, <2>6 DEF Next
<1>3. QED
  BY <1>1, <1>2, PTL DEF Spec

(***************************************************************************)
(* Order.  InOrder alone is not inductive: a message accepted next must be *)
(* younger than everything before it (AcceptedBound), and a message can    *)
(* only be passed on at once when nothing waits (NoTokenWhileWaiting).     *)
(***************************************************************************)
AcceptedBound ==
  /\ \A i \in 1 .. Len(wire) : wire[i].id <= accepted
  /\ \A i \in 1 .. Len(message_queue) : message_queue[i] <= accepted

OrderInv == TypeOK /\ NoTokenWhileWaiting /\ InOrder /\ AcceptedBound

\* No message waits in a bucket that was just made.
LEMMA OrderInit == NonNegative /\ Init => OrderInv
<1> SUFFICES ASSUME NonNegative, Init PROVE OrderInv
  OBVIOUS
<1>1. TypeOK
  BY SizeRange, ThrottleAssumption DEF Init, BucketInit, TypeOK
<1>2. QED
  BY <1>1 DEF Init, OrderInv, NoTokenWhileWaiting, InOrder, AcceptedBound

\* What actual_send() does to the wire.
LEMMA WireGrows ==
  ASSUME wire \in Seq(Sent), NEW m, NEW way, ActualSend(m, way)
  PROVE  /\ Len(wire) \in Nat
         /\ Len(wire') = Len(wire) + 1
         /\ \A i \in 1 .. Len(wire) : wire'[i] = wire[i]
         /\ wire'[Len(wire) + 1].id = m
         /\ wire'[Len(wire) + 1].way = way
<1>1. wire' = Append(wire, [id |-> m, way |-> way])
  BY DEF ActualSend
<1>2. /\ Len(wire) \in Nat
      /\ Len(wire') = Len(wire) + 1
      /\ \A i \in 1 .. Len(wire) : wire'[i] = wire[i]
      /\ wire'[Len(wire) + 1] = [id |-> m, way |-> way]
  BY <1>1
<1>3. QED
  BY <1>2

\* TypeOK is preserved by itself (see TypeCorrect).
LEMMA OrderStep ==
  ASSUME NonNegative, OrderInv, [Next]_vars, TypeOK'
  PROVE  OrderInv'
<1> USE ThrottleAssumption DEF OrderInv
<1>0. /\ limit \in Nat /\ tokens \in Nat /\ accepted \in Nat
      /\ message_queue \in Seq(Ids) /\ wire \in Seq(Sent)
  BY DEF NonNegative, TypeOK
<1>1. \A i \in 1 .. Len(wire) : wire[i].id \in Nat
  <2>1. \A i \in 1 .. Len(wire) : wire[i] \in Sent
    BY <1>0
  <2>2. \A m \in Sent : m.id \in Nat
    BY DEF Sent, Ids
  <2>3. QED
    BY <2>1, <2>2
<1>2. \A i \in 1 .. Len(message_queue) : message_queue[i] \in Nat
  BY <1>0 DEF Ids
<1>3. CASE Send
  <2>0. accepted' = accepted + 1
    BY <1>3 DEF Send, Accept
  <2>1. CASE TokenGranted
    <3>0. message_queue = <<>>
      BY <1>0, <2>1 DEF TokenGranted, NoTokenWhileWaiting
    <3>1. message_queue = <<>> /\ message_queue' = <<>>
      BY <1>3, <2>1, <3>0 DEF Send
    <3>2. ActualSend(accepted', "throttled")
      BY <1>3, <2>1 DEF Send
    <3>a. /\ Len(wire) \in Nat
          /\ Len(wire') = Len(wire) + 1
          /\ \A i \in 1 .. Len(wire) : wire'[i] = wire[i]
          /\ wire'[Len(wire) + 1].id = accepted'
      BY <1>0, <3>2, WireGrows
    <3>b. \A i, j \in 1 .. Len(wire') :
             i < j /\ Throttled(i)' /\ Throttled(j)' => wire'[i].id < wire'[j].id
      <4>1. \A i \in 1 .. Len(wire) : wire'[i].id < accepted'
        BY <1>0, <1>1, <2>0, <3>a DEF AcceptedBound
      <4>2. SUFFICES ASSUME NEW i \in 1 .. Len(wire'), NEW j \in 1 .. Len(wire'),
                            i < j, Throttled(i)', Throttled(j)'
                     PROVE  wire'[i].id < wire'[j].id
        OBVIOUS
      <4>3. i \in 1 .. Len(wire) /\ (j \in 1 .. Len(wire) \/ j = Len(wire) + 1)
        BY <3>a, <4>2
      <4>4. CASE j = Len(wire) + 1
        BY <3>a, <4>1, <4>3, <4>4
      <4>5. CASE j \in 1 .. Len(wire)
        <5>1. wire'[i] = wire[i] /\ wire'[j] = wire[j]
          BY <3>a, <4>3, <4>5
        <5>2. Throttled(i) /\ Throttled(j)
          BY <4>2, <5>1 DEF Throttled
        <5>3. QED
          BY <4>2, <4>3, <4>5, <5>1, <5>2 DEF InOrder
      <4>6. QED
        BY <4>3, <4>4, <4>5
    <3>c. \A i \in 1 .. Len(wire') : wire'[i].id <= accepted'
      BY <1>0, <1>1, <2>0, <3>a DEF AcceptedBound
    <3>3. InOrder' /\ AcceptedBound'
      BY <3>1, <3>b, <3>c DEF InOrder, AcceptedBound
    <3>4. QED
      BY <3>1, <3>3 DEF NoTokenWhileWaiting
  <2>2. CASE ~TokenGranted
    <3>1. /\ message_queue' = Append(message_queue, accepted + 1)
          /\ UNCHANGED <<wire, tokens>> /\ tokens = 0
      BY <1>0, <1>3, <2>0, <2>2 DEF Send, TokenGranted, TokensAfterUse
    <3>2. InOrder' /\ AcceptedBound'
      BY <1>0, <1>1, <1>2, <2>0, <3>1 DEF InOrder, AcceptedBound, Throttled
    <3>3. QED
      BY <3>1, <3>2 DEF NoTokenWhileWaiting
  <2>3. QED
    BY <2>1, <2>2
<1>4. ASSUME Accept, NEW way \in {"unthrottled", "raw"},
             ActualSend(accepted', way), UNCHANGED message_queue,
             tokens = 0 => tokens' = 0
      PROVE  OrderInv'
  <2>1. accepted' = accepted + 1
    BY <1>4 DEF Accept
  <2>a. /\ Len(wire) \in Nat
        /\ Len(wire') = Len(wire) + 1
        /\ \A i \in 1 .. Len(wire) : wire'[i] = wire[i]
        /\ wire'[Len(wire) + 1].id = accepted'
        /\ wire'[Len(wire) + 1].way # "throttled"
    BY <1>0, <1>4, WireGrows
  <2>t. ASSUME NEW i \in 1 .. Len(wire'), Throttled(i)'
        PROVE  i \in 1 .. Len(wire) /\ wire'[i] = wire[i] /\ Throttled(i)
    <3>1. i # Len(wire) + 1
      BY <2>a, <2>t DEF Throttled
    <3>2. i \in 1 .. Len(wire)
      BY <2>a, <3>1
    <3> QED BY <2>a, <2>t, <3>2 DEF Throttled
  <2>b. \A i, j \in 1 .. Len(wire') :
           i < j /\ Throttled(i)' /\ Throttled(j)' => wire'[i].id < wire'[j].id
    <3> SUFFICES ASSUME NEW i \in 1 .. Len(wire'), NEW j \in 1 .. Len(wire'),
                        i < j, Throttled(i)', Throttled(j)'
                 PROVE  wire'[i].id < wire'[j].id
      OBVIOUS
    <3>1. i \in 1 .. Len(wire) /\ wire'[i] = wire[i] /\ Throttled(i)
      BY <2>t
    <3>2. j \in 1 .. Len(wire) /\ wire'[j] = wire[j] /\ Throttled(j)
      BY <2>t
    <3> QED BY <3>1, <3>2 DEF InOrder
  <2>c. \A i \in 1 .. Len(wire'), j \in 1 .. Len(message_queue') :
           Throttled(i)' => wire'[i].id < message_queue'[j]
    BY <1>4, <2>t DEF InOrder
  <2>d. \A i \in 1 .. Len(wire') : wire'[i].id <= accepted'
    BY <1>0, <1>1, <2>1, <2>a DEF AcceptedBound
  <2>e. \A i \in 1 .. Len(message_queue') : message_queue'[i] <= accepted'
    BY <1>0, <1>2, <1>4, <2>1 DEF AcceptedBound
  <2>2. InOrder' /\ AcceptedBound'
    BY <1>4, <2>b, <2>c, <2>d, <2>e DEF InOrder, AcceptedBound
  <2>3. QED
    BY <1>4, <2>2 DEF NoTokenWhileWaiting
<1>5. CASE SendUnthrottled
  BY <1>0, <1>4, <1>5 DEF SendUnthrottled, TokensAfterUse
<1>6. CASE SendRaw
  BY <1>4, <1>6 DEF SendRaw
<1>7. CASE AddToken
  <2>1. CASE message_queue # <<>>
    <3>1. /\ ActualSend(Head(message_queue), "throttled")
          /\ message_queue' = Tail(message_queue)
          /\ UNCHANGED <<tokens, accepted>>
      BY <1>0, <1>7, <2>1 DEF AddToken
    <3>2. /\ Head(message_queue) = message_queue[1]
          /\ Len(message_queue) \in Nat \ {0}
          /\ Len(message_queue') = Len(message_queue) - 1
          /\ \A i \in 1 .. Len(message_queue') : message_queue'[i] = message_queue[i + 1]
      BY <1>0, <2>1, <3>1
    <3>3. /\ \A i \in 1 .. Len(wire) : Throttled(i) => wire[i].id < message_queue[1]
          /\ \A i \in 1 .. Len(message_queue') : message_queue[1] < message_queue'[i]
      BY <1>0, <3>2 DEF InOrder
    <3>4. /\ \A i, j \in 1 .. Len(message_queue') :
               i < j => message_queue'[i] < message_queue'[j]
          /\ \A i \in 1 .. Len(message_queue') : message_queue'[i] <= accepted
      <4>1. \A i \in 1 .. Len(message_queue') : i + 1 \in 1 .. Len(message_queue)
        BY <1>0, <3>2
      <4>2. \A i, j \in 1 .. Len(message_queue') : i < j => i + 1 < j + 1
        OBVIOUS
      <4>3. QED
        BY <1>0, <3>2, <4>1, <4>2 DEF InOrder, AcceptedBound
    <3>5. /\ \A i \in 1 .. Len(wire), j \in 1 .. Len(message_queue') :
               Throttled(i) => wire[i].id < message_queue'[j]
          /\ message_queue[1] <= accepted
      BY <1>0, <3>2 DEF InOrder, AcceptedBound
    <3>a. /\ Len(wire') = Len(wire) + 1
          /\ \A i \in 1 .. Len(wire) : wire'[i] = wire[i]
          /\ wire'[Len(wire')].id = message_queue[1]
          /\ Len(wire) \in Nat
      BY <1>0, <3>1, <3>2, WireGrows
    <3>b. \A i, j \in 1 .. Len(wire') :
             i < j /\ Throttled(i)' /\ Throttled(j)' => wire'[i].id < wire'[j].id
      <4> SUFFICES ASSUME NEW i \in 1 .. Len(wire'), NEW j \in 1 .. Len(wire'),
                          i < j, Throttled(i)', Throttled(j)'
                   PROVE  wire'[i].id < wire'[j].id
        OBVIOUS
      <4>1. i \in 1 .. Len(wire) /\ wire'[i] = wire[i] /\ Throttled(i)
        BY <3>a DEF Throttled
      <4>2. CASE j \in 1 .. Len(wire)
        BY <1>0, <3>a, <4>1, <4>2 DEF InOrder, Throttled
      <4>3. CASE j = Len(wire')
        BY <1>0, <3>3, <3>a, <4>1, <4>3 DEF InOrder
      <4>4. QED
        BY <3>a, <4>2, <4>3
    <3>c. \A i \in 1 .. Len(wire'), j \in 1 .. Len(message_queue') :
             Throttled(i)' => wire'[i].id < message_queue'[j]
      BY <1>0, <3>3, <3>5, <3>a DEF Throttled
    <3>d. \A i \in 1 .. Len(wire') : wire'[i].id <= accepted'
      BY <1>0, <3>1, <3>5, <3>a DEF AcceptedBound
    <3>6. InOrder' /\ AcceptedBound'
      BY <3>1, <3>4, <3>b, <3>c, <3>d DEF InOrder, AcceptedBound
    <3>7. QED
      BY <2>1, <3>1, <3>6 DEF NoTokenWhileWaiting
  <2>2. CASE message_queue = <<>>
    BY <1>0, <1>7, <2>2
       DEF AddToken, vars, InOrder, AcceptedBound, Throttled, NoTokenWhileWaiting
  <2>3. QED
    BY <2>1, <2>2
<1>8. ASSUME NEW n \in Limits, SetLimit(n) PROVE OrderInv'
  BY <1>8 DEF SetLimit, InOrder, AcceptedBound, Throttled, NoTokenWhileWaiting
<1>9. CASE UNCHANGED vars
  BY <1>9 DEF vars, InOrder, AcceptedBound, Throttled, NoTokenWhileWaiting
<1>10. QED
  BY <1>3, <1>5, <1>6, <1>7, <1>8, <1>9 DEF Next

\* As long as no limit is negative, the throttled messages leave in the order
\* in which they were accepted, whatever the limit is changed to.
THEOREM OrderCorrect == NonNegative => (Spec => [](NoTokenWhileWaiting /\ InOrder))
<1> SUFFICES ASSUME NonNegative PROVE Spec => [](NoTokenWhileWaiting /\ InOrder)
  OBVIOUS
<1>1. Spec => []TypeOK
  BY TypeCorrect
<1>2. Init => OrderInv
  BY OrderInit
<1>3. OrderInv /\ [Next]_vars /\ TypeOK' => OrderInv'
  BY OrderStep
<1>4. OrderInv => NoTokenWhileWaiting /\ InOrder
  BY DEF OrderInv
<1>5. QED
  BY <1>1, <1>2, <1>3, <1>4, PTL DEF Spec

\* A bucket within its limit is not overfilled by any step that does not
\* lower the limit.
THEOREM LimitRespected == Spec => StaysWithinLimit
<1>1. TypeOK /\ [Next]_vars =>
        [limit >= 0 /\ tokens <= limit /\ limit' >= limit => tokens' <= limit']_vars
  <2> SUFFICES ASSUME TypeOK, [Next]_vars,
                      limit >= 0, tokens <= limit, limit' >= limit
               PROVE  tokens' <= limit'
    OBVIOUS
  <2> USE ThrottleAssumption
  <2>0. limit \in Nat /\ tokens \in Nat /\ limit < Modulus
    BY DEF TypeOK
  <2>1. TokensAfterUse <= tokens
    BY <2>0 DEF TokensAfterUse
  <2>2. TokensAfterFill <= limit
    <3>1. ToSize(limit) = limit
      BY <2>0 DEF ToSize
    <3>2. CASE tokens = limit
      BY <2>0, <3>1, <3>2 DEF TokensAfterFill
    <3>3. CASE tokens < limit
      BY <2>0, <3>1, <3>3, TokenSteps DEF TokensAfterFill, TypeOK
    <3>4. QED
      BY <2>0, <3>2, <3>3
  <2>3. TokensAfterUse \in Nat /\ TokensAfterFill \in Nat
    BY TokenSteps DEF TypeOK
  <2>4. CASE Send
    BY <2>0, <2>1, <2>3, <2>4 DEF Send
  <2>5. CASE SendUnthrottled
    BY <2>0, <2>1, <2>3, <2>5 DEF SendUnthrottled
  <2>6. CASE SendRaw
    BY <2>0, <2>6 DEF SendRaw
  <2>7. CASE AddToken
    BY <2>0, <2>2, <2>3, <2>7 DEF AddToken, vars
  <2>8. ASSUME NEW n \in Limits, SetLimit(n) PROVE tokens' <= limit'
    BY <2>0, <2>8 DEF SetLimit
  <2>9. CASE UNCHANGED vars
    BY <2>0, <2>9 DEF vars
  <2>10. QED
    BY <2>4, <2>5, <2>6, <2>7, <2>8, <2>9 DEF Next
<1>2. QED
  BY <1>1, TypeCorrect, PTL DEF Spec, StaysWithinLimit

(***************************************************************************)
(* The rate.                                                               *)
(***************************************************************************)
\* A token that is left is a message not yet sent.
RateInvariant == served + tokens <= stock + ticks

RateInv ==
  /\ TypeOK
  /\ stock \in Nat /\ ticks \in Nat /\ served \in Nat
  /\ RateInvariant

\* The arithmetic of a step: what is served and what is left in the bucket
\* grow together by no more than the ticks do.
LEMMA RateSum ==
  ASSUME NEW s \in Nat, NEW t \in Nat, NEW k \in Nat, NEW n \in Nat,
         NEW s1 \in Nat, NEW t1 \in Nat, NEW n1 \in Nat,
         s + t <= k + n, s1 + t1 <= s + t + n1 - n
  PROVE  s1 + t1 <= k + n1
OBVIOUS

\* In every window of observation the throttled messages that leave are at
\* most the tokens in stock plus one per second.
THEOREM RateCorrect == NonNegative => (RSpec => []RateBound)
<1> SUFFICES ASSUME NonNegative PROVE RSpec => []RateBound
  OBVIOUS
<1>1. RInit => RateInv
  <2> SUFFICES ASSUME RInit PROVE RateInv
    OBVIOUS
  <2>1. TypeOK
    BY SizeRange, ThrottleAssumption DEF RInit, Init, BucketInit, TypeOK
  <2>2. QED
    BY <2>1, ThrottleAssumption DEF RInit, RateInv, RateInvariant, TypeOK
<1>2. RSpec => Spec
  <2>1. RInit => Init
    BY DEF RInit
  <2>2. [RNext]_rvars => [Next]_vars
    BY DEF RNext, rvars, vars, OpenWindow, ObservedSend, ObservedAddToken,
           LastTick, ObservedOther, Next
  <2>3. QED
    BY <2>1, <2>2, PTL DEF RSpec, Spec
<1>3. RateInv /\ [RNext]_rvars /\ TypeOK' => RateInv'
  <2> SUFFICES ASSUME RateInv, [RNext]_rvars, TypeOK' PROVE RateInv'
    OBVIOUS
  <2>0. /\ limit \in Nat /\ tokens \in Nat /\ tokens' \in Nat
        /\ stock \in Nat /\ ticks \in Nat /\ served \in Nat
        /\ TokensAfterFill \in Nat /\ TokensAfterUse \in Nat
        /\ TokensAfterFill <= tokens + 1
    BY TokenSteps, ThrottleAssumption DEF RateInv, TypeOK, NonNegative
  <2>a. /\ ~TokenGranted => tokens = 0 /\ TokensAfterUse = 0
        /\ TokenGranted => TokensAfterUse = tokens - 1
        /\ TokensAfterUse <= tokens
    BY <2>0 DEF TokenGranted, TokensAfterUse
  <2>1. CASE OpenWindow
    BY <2>0, <2>1 DEF OpenWindow, RateInv, RateInvariant, vars
  <2>2. CASE ObservedSend
    <3>1. CASE TokenGranted
      BY <2>0, <2>a, <2>2, <3>1 DEF ObservedSend, Send, RateInv, RateInvariant
    <3>2. CASE ~TokenGranted
      BY <2>0, <2>a, <2>2, <3>2 DEF ObservedSend, Send, RateInv, RateInvariant
    <3>3. QED
      BY <3>1, <3>2
  <2>b. ASSUME NEW s1 \in Nat, NEW t1 \in Nat, NEW n1 \in Nat,
               served' = s1, tokens' = t1, ticks' = n1, stock' = stock,
               s1 + t1 <= served + tokens + n1 - ticks
        PROVE  RateInv'
    <3>1. s1 + t1 <= stock + n1
      BY <2>0, <2>b, RateSum DEF RateInv, RateInvariant
    <3>2. QED
      BY <2>0, <2>b, <3>1 DEF RateInv, RateInvariant
  <2>3. CASE ObservedAddToken
    <3>1. ticks' = ticks + 1 /\ stock' = stock
      BY <2>3 DEF ObservedAddToken
    <3>2. CASE message_queue # <<>>
      <4>1. tokens' = tokens
        BY <2>0, <2>3, <3>2 DEF ObservedAddToken, AddToken, vars
      <4>2. CASE served' = served
        BY <2>0, <2>b, <3>1, <4>1, <4>2
      <4>3. CASE served' = served + 1
        BY <2>0, <2>b, <3>1, <4>1, <4>3
      <4>4. QED
        BY <2>3, <4>2, <4>3 DEF ObservedAddToken
    <3>3. CASE message_queue = <<>>
      <4>1. wire' = wire /\ tokens' = TokensAfterFill
        BY <2>0, <2>3, <3>3 DEF ObservedAddToken, AddToken, vars
      <4>2. served' = served
        BY <2>3, <4>1 DEF ObservedAddToken
      <4>3. QED
        BY <2>0, <2>b, <3>1, <4>1, <4>2
    <3>4. QED
      BY <3>2, <3>3
  <2>4. CASE ObservedOther
    <3>1. tokens' = TokensAfterUse \/ tokens' = tokens
      BY <2>4 DEF ObservedOther, SendUnthrottled, SendRaw, SetLimit
    <3>2. /\ served' = served /\ ticks' = ticks /\ stock' = stock
      BY <2>4 DEF ObservedOther
    <3>3. CASE tokens' = TokensAfterUse
      BY <2>0, <2>a, <2>b, <3>2, <3>3
    <3>4. CASE tokens' = tokens
      BY <2>0, <2>b, <3>2, <3>4
    <3>5. QED
      BY <3>1, <3>3, <3>4
  <2>5. CASE LastTick
    <3>1. PICK t1 \in Nat : tokens' = t1
      BY <2>0
    <3>2. stock' = t1 /\ ticks' = 0 /\ served' = 0
      BY <2>5, <3>1 DEF LastTick
    <3>3. 0 + t1 <= t1 + 0
      OBVIOUS
    <3>4. QED
      BY <3>1, <3>2, <3>3 DEF RateInv, RateInvariant
  <2>6. CASE UNCHANGED rvars
    BY <2>6 DEF rvars, RateInv, RateInvariant
  <2>7. QED
    BY <2>1, <2>2, <2>3, <2>4, <2>5, <2>6 DEF RNext
<1>4. RateInv => RateBound
  BY ThrottleAssumption DEF RateInv, RateInvariant, RateBound, TypeOK
<1>5. QED
  BY <1>1, <1>2, <1>3, <1>4, TypeCorrect, PTL DEF RSpec

(***************************************************************************)
(* Refinement.  OrderInv gives what OrderedOutput asks of a step: nothing  *)
(* waits when a message is passed on, and the head of the queue is the     *)
(* oldest message that waits.                                              *)
(***************************************************************************)
LEMMA DeliveredGrows ==
  ASSUME wire \in Seq(Sent), NEW m, NEW way, ActualSend(m, way)
  PROVE  Delivered' = IF way = "throttled" THEN Delivered \cup {m} ELSE Delivered
<1>1. /\ Len(wire) \in Nat
      /\ Len(wire') = Len(wire) + 1
      /\ \A i \in 1 .. Len(wire) : wire'[i] = wire[i]
      /\ wire'[Len(wire) + 1].id = m
      /\ wire'[Len(wire) + 1].way = way
  BY WireGrows
<1>2. 1 .. Len(wire') = 1 .. Len(wire) \cup {Len(wire) + 1}
  BY <1>1
<1>3. QED
  BY <1>1, <1>2 DEF Delivered, Throttled

\* send_message() and add_token() each do what OrderedOutput allows, or nothing
\* that it sees.
LEMMA RefinementStep ==
  ASSUME OrderInv, NonNegative, [Next]_vars
  PROVE  [Ordered!ONext]_<<Waiting, Delivered>>
<1> USE ThrottleAssumption
<1>0. /\ limit \in Nat /\ tokens \in Nat /\ accepted \in 0 .. MaxMsgs
      /\ message_queue \in Seq(Ids) /\ wire \in Seq(Sent)
  BY DEF OrderInv, NonNegative, TypeOK
<1>1. \A k \in Waiting \cup Delivered : k \in Nat /\ k <= accepted
  <2>1. \A i \in 1 .. Len(message_queue) : message_queue[i] \in Nat
    BY <1>0 DEF Ids
  <2>2. \A i \in 1 .. Len(wire) : wire[i] \in Sent
    BY <1>0
  <2>3. \A x \in Sent : x.id \in Nat
    BY DEF Sent, Ids
  <2>4. QED
    BY <2>1, <2>2, <2>3 DEF OrderInv, AcceptedBound, Waiting, Delivered
<1>2. Accept => accepted' \in Ids /\ Ordered!Fresh(accepted')
  BY <1>0, <1>1 DEF Accept, Ids, Ordered!Fresh
<1>3. CASE Send
  <2>1. accepted' \in Ids /\ Ordered!Fresh(accepted')
    BY <1>2, <1>3 DEF Send
  <2>2. CASE TokenGranted
    <3>1. message_queue = <<>>
      BY <1>0, <2>2 DEF TokenGranted, OrderInv, NoTokenWhileWaiting
    <3>2. ActualSend(accepted', "throttled") /\ UNCHANGED message_queue
      BY <1>3, <2>2 DEF Send
    <3>3. Waiting = {} /\ Waiting' = Waiting
      BY <3>1, <3>2 DEF Waiting
    <3>4. Delivered' = Delivered \cup {accepted'}
      BY <1>0, <3>2, DeliveredGrows
    <3>5. Ordered!PassThrough(accepted')
      BY <2>1, <3>3, <3>4 DEF Ordered!PassThrough
    <3>6. QED
      BY <2>1, <3>5 DEF Ordered!ONext
  <2>3. CASE ~TokenGranted
    <3>1. message_queue' = Append(message_queue, accepted') /\ UNCHANGED wire
      BY <1>3, <2>3 DEF Send
    <3>2. /\ Len(message_queue) \in Nat
          /\ Len(message_queue') = Len(message_queue) + 1
          /\ \A i \in 1 .. Len(message_queue) : message_queue'[i] = message_queue[i]
          /\ message_queue'[Len(message_queue) + 1] = accepted'
      BY <1>0, <3>1
    <3>3. 1 .. Len(message_queue') = 1 .. Len(message_queue) \cup {Len(message_queue) + 1}
      BY <3>2
    <3>4. Waiting' = Waiting \cup {accepted'}
      BY <3>2, <3>3 DEF Waiting
    <3>5. Delivered' = Delivered
      BY <3>1 DEF Delivered, Throttled
    <3>6. Ordered!Wait(accepted')
      BY <2>1, <3>4, <3>5 DEF Ordered!Wait
    <3>7. QED
      BY <2>1, <3>6 DEF Ordered!ONext
  <2>4. QED
    BY <2>2, <2>3
<1>4. ASSUME UNCHANGED message_queue,
             NEW m, NEW way, way # "throttled", ActualSend(m, way)
      PROVE  UNCHANGED <<Waiting, Delivered>>
  BY <1>0, <1>4, DeliveredGrows DEF Waiting
<1>5. CASE SendUnthrottled \/ SendRaw
  <2>1. PICK way \in {"unthrottled", "raw"} : ActualSend(accepted', way)
    BY <1>5 DEF SendUnthrottled, SendRaw
  <2>2. UNCHANGED message_queue
    BY <1>5 DEF SendUnthrottled, SendRaw
  <2>3. QED
    BY <1>4, <2>1, <2>2
<1>6. CASE AddToken
  <2>1. CASE message_queue # <<>>
    <3>1. /\ ActualSend(Head(message_queue), "throttled")
          /\ message_queue' = Tail(message_queue)
      BY <1>0, <1>6, <2>1 DEF AddToken
    <3> DEFINE h == message_queue[1]
    <3>2. /\ Head(message_queue) = h /\ h \in Ids
          /\ Len(message_queue) \in Nat \ {0}
          /\ Len(message_queue') = Len(message_queue) - 1
          /\ \A i \in 1 .. Len(message_queue') : message_queue'[i] = message_queue[i + 1]
      BY <1>0, <2>1, <3>1
    <3>3. \A i \in 2 .. Len(message_queue) : h < message_queue[i]
      BY <3>2 DEF OrderInv, InOrder
    <3>4. h \in Waiting /\ \A k \in Waiting : h <= k
      <4>1. \A i \in 1 .. Len(message_queue) : i = 1 \/ i \in 2 .. Len(message_queue)
        BY <3>2
      <4>2. h \in Nat /\ \A i \in 2 .. Len(message_queue) : message_queue[i] \in Nat
        BY <1>0, <3>2 DEF Ids
      <4>3. QED
        BY <3>2, <3>3, <4>1, <4>2 DEF Waiting
    <3>5. Waiting' = Waiting \ {h}
      <4>1. Waiting' = {message_queue[i + 1] : i \in 1 .. (Len(message_queue) - 1)}
        BY <3>2 DEF Waiting
      <4>2. {message_queue[i + 1] : i \in 1 .. (Len(message_queue) - 1)}
              = {message_queue[i] : i \in 2 .. Len(message_queue)}
        <5>1. \A i \in 1 .. (Len(message_queue) - 1) : i + 1 \in 2 .. Len(message_queue)
          BY <3>2
        <5>2. \A i \in 2 .. Len(message_queue) :
                 i - 1 \in 1 .. (Len(message_queue) - 1) /\ (i - 1) + 1 = i
          BY <3>2
        <5>3. QED
          BY <5>1, <5>2
      <4>3. \A i \in 2 .. Len(message_queue) : message_queue[i] # h
        BY <1>0, <3>2, <3>3 DEF Ids
      <4>4. 1 .. Len(message_queue) = {1} \cup 2 .. Len(message_queue)
        BY <3>2
      <4>5. QED
        BY <4>1, <4>2, <4>3, <4>4 DEF Waiting
    <3>6. Delivered' = Delivered \cup {h}
      BY <1>0, <3>1, <3>2, DeliveredGrows
    <3>7. Ordered!DeliverOldest(h)
      BY <3>4, <3>5, <3>6 DEF Ordered!DeliverOldest
    <3>8. QED
      BY <3>2, <3>7 DEF Ordered!ONext
  <2>2. CASE message_queue = <<>>
    <3>1. UNCHANGED <<message_queue, wire>>
      BY <1>6, <2>2 DEF AddToken, vars
    <3>2. QED
      BY <3>1 DEF Waiting, Delivered, Throttled
  <2>3. QED
    BY <2>1, <2>2
<1>7. ASSUME UNCHANGED <<message_queue, wire>>
      PROVE  UNCHANGED <<Waiting, Delivered>>
  BY <1>7 DEF Waiting, Delivered, Throttled
<1>8. QED
  BY <1>3, <1>5, <1>6, <1>7 DEF Next, SetLimit, vars

\* As long as no limit is negative, the throttled output implements
\* OrderedOutput.
THEOREM ThrottleRefines == NonNegative => (Spec => ImplementsOrderedOutput)
<1> SUFFICES ASSUME NonNegative PROVE Spec => ImplementsOrderedOutput
  OBVIOUS
<1>1. Init => Ordered!OInit
  BY DEF Init, Ordered!OInit, Waiting, Delivered
<1>2. OrderInv /\ [Next]_vars => [Ordered!ONext]_<<Waiting, Delivered>>
  BY RefinementStep
<1>3. Init => OrderInv
  BY OrderInit
<1>4. OrderInv /\ [Next]_vars /\ TypeOK' => OrderInv'
  BY OrderStep
<1>5. QED
  BY <1>1, <1>2, <1>3, <1>4, TypeCorrect, PTL
     DEF Spec, ImplementsOrderedOutput, Ordered!OSpec, Ordered!ovars
=============================================================================
