--------------------------- MODULE RequestsProofs ---------------------------
(***************************************************************************)
(* Proofs about the iqs: every one leads to one answer, whatever its type, *)
(* its child and the JID it is for, unless a function of Bridge answers it *)
(* later or it is itself an answer (Dispatch); and one that is answered    *)
(* later is answered once at most, whatever the IRC server says and when   *)
(* (Requests).                                                             *)
(***************************************************************************)
EXTENDS RequestsInvariant, FilterProofs

-----------------------------------------------------------------------------
(* The dispatch.                                                           *)

\* What the outcomes of Dispatch amount to.
LEMMA Outcomes ==
  /\ \A r : OneAnswer(Sends(r))
  /\ \A op \in {"kick", "role", "version", "list", "ping", "participant"} : Deferred(Calls(op))
  /\ OneAnswer(Fails) /\ Silent(NoAnswer)
<1>1. ASSUME NEW r PROVE OneAnswer(Sends(r))
  BY DEF OneAnswer, Sends, Effect, Guarded
<1>2. ASSUME NEW op \in {"kick", "role", "version", "list", "ping", "participant"}
      PROVE  Deferred(Calls(op))
  BY DEF Deferred, Calls, Effect, Guarded
<1>3. OneAnswer(Fails)
  BY DEF OneAnswer, Fails, Effect, Guarded
<1>4. Silent(NoAnswer)
  BY DEF Silent, NoAnswer, Effect, Guarded
<1> QED BY <1>1, <1>2, <1>3, <1>4

\* The part of handle_iq() for the type "set".
LEMMA SetOutcome == ASSUME NEW q PROVE OneAnswer(HandleSet(q)) \/ Deferred(HandleSet(q))
<1>1. \/ \E r : HandleSet(q) = Sends(r)
      \/ \E op \in {"kick", "role"} : HandleSet(q) = Calls(op)
      \/ HandleSet(q) = Fails
  BY DEF HandleSet
<1> QED BY <1>1, Outcomes

\* The part of handle_iq() for the type "get".
LEMMA GetOutcome ==
  ASSUME NEW q, NEW connected \in BOOLEAN
  PROVE  OneAnswer(HandleGet(q, connected)) \/ Deferred(HandleGet(q, connected))
<1>0. \E r : OnGatewayPing(q.to, connected) = Sends(r)
  BY DEF OnGatewayPing
<1>1. HandleGet(q, connected) \in {Sends("result"), OnGatewayPing(q.to, connected),
        Calls("version"), Calls("list"), Calls("ping"), Calls("participant"), Fails}
  BY DEF HandleGet
<1> QED BY <1>0, <1>1, Outcomes

\* handle_iq() of an iq that has a "from" (the comment before it: "We MUST return
\* an iq, whatever happens, except if the type is result or error"): an iq of
\* any other type is answered exactly once, or is waiting for IRC without an
\* answer yet.
THEOREM IqAnswered ==
  ASSUME NEW q, NEW connected \in BOOLEAN, q.type \notin {"result", "error"}
  PROVE  OneAnswer(HandleIq(q, connected)) \/ Deferred(HandleIq(q, connected))
<1>1. CASE q.type = "set"
  BY <1>1, SetOutcome DEF HandleIq
<1>2. CASE q.type = "get"
  BY <1>2, GetOutcome DEF HandleIq
<1>3. CASE q.type = "incomplete"
  BY <1>3, Outcomes DEF HandleIq
<1>4. CASE q.type \notin {"set", "get", "incomplete"}
  BY <1>4, Outcomes DEF HandleIq
<1> QED BY <1>1, <1>2, <1>3, <1>4

\* What any stanza that is handled leads to.
LEMMA AnyOutcome ==
  ASSUME NEW h \in AllHandled
  PROVE  /\ h.kind \in {"iq", "answer", "relay", "message"}
         /\ OneAnswer(h.effect) \/ Deferred(h.effect) \/ Silent(h.effect)
         /\ h.kind = "iq" => ~Silent(h.effect)
         /\ h.kind = "answer" => Silent(h.effect)
<1> DEFINE Right(kind, d) == /\ kind \in {"iq", "answer", "relay", "message"}
                             /\ OneAnswer(d) \/ Deferred(d) \/ Silent(d)
                             /\ kind = "iq" => ~Silent(d)
                             /\ kind = "answer" => Silent(d)
<1>1. ASSUME NEW q, NEW c \in BOOLEAN PROVE Right(IqKind(q), HandleIq(q, c))
  <2>1. CASE q.type \notin {"result", "error"}
    <3>1. IqKind(q) = "iq"
      BY <2>1 DEF IqKind
    <3>2. OneAnswer(HandleIq(q, c)) \/ Deferred(HandleIq(q, c))
      BY <2>1, IqAnswered
    <3>3. ~Silent(HandleIq(q, c))
      BY <3>2 DEF OneAnswer, Deferred, Silent
    <3> QED BY <3>1, <3>2, <3>3
  <2>2. CASE q.type \in {"result", "error"}
    <3>1. IqKind(q) = IF q.child = "version" THEN "relay" ELSE "answer"
      BY <2>2 DEF IqKind
    <3>2. HandleIq(q, c) = NoAnswer \/ (q.child = "version" /\ HandleIq(q, c) = Sends("error"))
      BY <2>2 DEF HandleIq, Relays
    <3> QED BY <3>1, <3>2, Outcomes
  <2> QED BY <2>1, <2>2
<1>2. ASSUME NEW m, NEW c \in BOOLEAN, NEW inside \in BOOLEAN
      PROVE  Right(IF m.type = "error" THEN "answer" ELSE "message", HandleMessage(m, c, inside))
  <2>1. /\ HandleMessage(m, c, inside) \in {NoAnswer, Fails, Sends("error")}
        /\ m.type = "error" => HandleMessage(m, c, inside) = NoAnswer
    BY DEF HandleMessage, HandleGroupchat, HandleChat, Relays
  <2> QED BY <2>1, Outcomes
<1> HIDE DEF Right
<1>3. ASSUME h \in Handled PROVE Right(h.kind, h.effect)
  <2>1. PICK q \in Stanzas.iqs, c \in BOOLEAN :
          h = [connected |-> c, kind |-> IqKind(q), effect |-> HandleIq(q, c)]
    BY <1>3 DEF Handled
  <2>2. h.kind = IqKind(q) /\ h.effect = HandleIq(q, c)
    BY <2>1
  <2> QED BY <1>1, <2>2, Zenon
<1>4. ASSUME h \in Delivered PROVE Right(h.kind, h.effect)
  <2>1. PICK m \in Stanzas.messages, c \in BOOLEAN, inside \in BOOLEAN :
          h = [connected |-> c, kind |-> IF m.type = "error" THEN "answer" ELSE "message",
               effect |-> HandleMessage(m, c, inside)]
    BY <1>4 DEF Delivered
  <2>2. /\ h.kind = (IF m.type = "error" THEN "answer" ELSE "message")
        /\ h.effect = HandleMessage(m, c, inside)
    BY <2>1
  <2> QED BY <1>2, <2>2, Zenon
<1>5. Right(h.kind, h.effect)
  BY <1>3, <1>4 DEF AllHandled
<1> QED BY <1>5 DEF Right

-----------------------------------------------------------------------------
(* Sequences of anything.                                                  *)

-----------------------------------------------------------------------------
(* The answers.  An iq is answered, or a callback that will answer it      *)
(* waits, or neither; the ids are used in their order.                     *)

\* The id that Fresh() takes has not been used.
LEMMA FreshUnused ==
  ASSUME NEW i, Fresh(i)
  PROVE  i \in Iq /\ asked[i] = Nothing
<1>1. IqIds \in Seq(STRING) /\ Len(IqIds) \in Nat
  BY RequestsAssumptions
<1>2. PICK n \in 1 .. Len(IqIds) : i = IqIds[n] /\ i \notin Used
  BY DEF Fresh
<1>3. i \in Iq
  BY <1>1, <1>2, RangeSeq DEF Iq
<1> QED BY <1>2, <1>3 DEF Used

\* The number of callbacks that wait for an iq.
LEMMA WaitsNat == ASSUME AnswerInv, NEW i PROVE Waits(i) \in Nat
<1>1. Filter(waiting, AnswersTo(i)) \in Seq(Callbacks)
  BY FilterType DEF AnswerInv
<1> QED BY <1>1 DEF Waits

\* A callback that is added is of its own iq.
LEMMA CallbackIs ==
  ASSUME client \in Nat, NEW kind \in Kinds, NEW i \in Iq, NEW r \in Request \cup ListRequest
  PROVE  /\ Callback(kind, i, r) \in Callbacks
         /\ \A j : Callback(kind, i, r) \in AnswersTo(j) <=> j = i /\ kind # "fill"
<1>1. Callback(kind, i, r) \in Callbacks
  BY DEF Callback, Callbacks
<1>2. Callback(kind, i, r).iq = i /\ Callback(kind, i, r).kind = kind
  BY DEF Callback
<1> QED BY <1>1, <1>2 DEF AnswersTo

\* What a request asks is of one of the kinds that wait.
LEMMA RequestIs ==
  /\ \A r \in Request : r # Nothing /\ r.kind \in {"kick", "role", "ping", "version"}
  /\ \A r \in ListRequest : r # Nothing /\ r.kind = "list"
  /\ \A kind : kind # "nothing"
       => [Nothing EXCEPT !.kind = kind] # Nothing /\ [Nothing EXCEPT !.kind = kind].kind = kind
<1>1. ASSUME NEW r \in Request PROVE r # Nothing /\ r.kind \in {"kick", "role", "ping", "version"}
  <2>1. PICK a \in Asked : r = [kind |-> a.kind, nick |-> a.nick, after |-> Empty, max |-> 0]
    BY DEF Request
  <2>2. a.kind \in {"kick", "role", "ping", "version"} /\ r.kind = a.kind
    BY <2>1, RequestsAssumptions
  <2>3. Nothing.kind = "nothing"
    BY DEF Nothing
  <2> QED BY <2>2, <2>3
<1>2. ASSUME NEW r \in ListRequest PROVE r # Nothing /\ r.kind = "list"
  <2>1. Nothing.kind = "nothing"
    BY DEF Nothing
  <2> QED BY <2>1 DEF ListRequest
<1>3. ASSUME NEW kind, kind # "nothing"
      PROVE  [Nothing EXCEPT !.kind = kind] # Nothing /\ [Nothing EXCEPT !.kind = kind].kind = kind
  BY <1>3 DEF Nothing
<1> QED BY <1>1, <1>2, <1>3

\* A callback that answers is removed, and the one that fills the cache does not
\* answer.
LEMMA OutcomeIs ==
  ASSUME NEW cb \in Callbacks, NEW m, NEW l, Outcome(cb, m, l).reply # "none"
  PROVE  /\ Outcome(cb, m, l).done /\ cb.kind # "fill"
         /\ Outcome(cb, m, l).reply \in {"result", "error"}
<1> DEFINE o == Outcome(cb, m, l)
<1>1. /\ KickCallback(cb, m) \in {Stays, Leaves, Answers("result"), Answers("error")}
      /\ RoleCallback(cb, m) \in {Stays, Leaves, Answers("result"), Answers("error")}
      /\ PingCallback(cb, m) \in {Stays, Leaves, Answers("result"), Answers("error")}
      /\ VersionCallback(cb, m) \in {Stays, Leaves, Answers("result"), Answers("error")}
      /\ ListCallback(cb, m, l) \in {Stays, Leaves, Answers("result"), Answers("error")}
      /\ FillCallback(m) \in {Stays, Leaves}
  BY DEF KickCallback, RoleCallback, PingCallback, VersionCallback, ListCallback, FillCallback
<1>2. cb.kind \in Kinds
  BY DEF Callbacks
<1>3. o \in {Stays, Leaves, Answers("result"), Answers("error")} /\ (cb.kind = "fill" => o \in {Stays, Leaves})
  <2> HIDE DEF Kinds
  <2>1. /\ cb.kind = "kick" => o = KickCallback(cb, m)
        /\ cb.kind = "role" => o = RoleCallback(cb, m)
        /\ cb.kind = "ping" => o = PingCallback(cb, m)
        /\ cb.kind = "version" => o = VersionCallback(cb, m)
        /\ cb.kind = "list" => o = ListCallback(cb, m, l)
        /\ cb.kind = "fill" => o = FillCallback(m)
    BY DEF Outcome
  <2> HIDE DEF o
  <2> QED BY <1>1, <1>2, <2>1 DEF Kinds
<1> HIDE DEF o
<1>4. Stays.reply = "none" /\ Leaves.reply = "none"
  BY DEF Stays, Leaves
<1>5. \A x \in {"result", "error"} : Answers(x).done /\ Answers(x).reply = x
  BY DEF Answers
<1>6. o.reply # "none" => o.done /\ cb.kind # "fill" /\ o.reply \in {"result", "error"}
  BY <1>3, <1>4, <1>5
<1> QED BY <1>6 DEF o

\* The invariant holds at first, ...
LEMMA AnswerInit == Init => AnswerInv
<1> SUFFICES ASSUME Init PROVE AnswerInv
  OBVIOUS
<1>1. /\ waiting = <<>> /\ waiting \in Seq(Callbacks) /\ client \in Nat
      /\ replies = [i \in Iq |-> <<>>] /\ asked = [i \in Iq |-> Nothing]
  BY DEF Init
<1>2. ASSUME NEW i \in Iq PROVE Once(i)
  <2>1. Waits(i) = 0
    BY <1>1, FilterEmpty DEF Waits
  <2>2. replies[i] = <<>> /\ asked[i] = Nothing /\ Nothing.kind = "nothing"
    BY <1>1 DEF Nothing
  <2>3. IsSeq(<<>>) /\ Len(<<>>) = 0
    BY DEF IsSeq
  <2> HIDE DEF Waits
  <2> QED BY <2>1, <2>2, <2>3 DEF Once
<1> QED BY <1>1, <1>2 DEF AnswerInv

\* ... and every step keeps it.
LEMMA AnswerStep == AnswerInv /\ [Next]_vars => AnswerInv'
\* A sequence of elements of some set is one.
<1>IsSeqOf. ASSUME NEW A, NEW s \in Seq(A) PROVE IsSeq(s)
  <2> USE <1>IsSeqOf
  <2>1. \A k \in 1 .. Len(s) : s[k] \in Range(s)
    BY RangeSeq
  <2> QED BY <2>1 DEF IsSeq
\* What follows one another is a sequence, and its length the sum.
<1>IsSeqConcat. ASSUME NEW s, NEW t, IsSeq(s), IsSeq(t)
                PROVE  IsSeq(s \o t) /\ Len(s \o t) = Len(s) + Len(t)
  <2> USE <1>IsSeqConcat
  <2> DEFINE A == Range(s) \cup Range(t)
  <2>1. s \in Seq(A) /\ t \in Seq(A)
    BY DEF IsSeq
  <2> HIDE DEF A
  <2>2. s \o t \in Seq(A) /\ Len(s \o t) = Len(s) + Len(t)
    BY <2>1
  <2> QED BY <2>2, <1>IsSeqOf, Zenon
\* Such a step keeps the invariant.
<1>UsesOnce. ASSUME AnswerInv, NEW i, Fresh(i), NEW r, NEW sent, Uses(i, r, sent)
             PROVE  AnswerInv'
  <2> USE <1>UsesOnce
  <2>1. i \in Iq /\ asked[i] = Nothing
    BY FreshUnused
  <2>2. /\ asked = [j \in Iq |-> asked[j]] /\ replies = [j \in Iq |-> replies[j]]
        /\ \A j \in Iq : Once(j)
    BY DEF AnswerInv
  <2>3. /\ asked' = [j \in Iq |-> IF j = i THEN r ELSE asked[j]]
        /\ replies' = [j \in Iq |-> IF j = i THEN replies[i] \o sent ELSE replies[j]]
    BY <2>1, <2>2, Zenon DEF Uses, Replies
  <2>6. ASSUME NEW j \in Iq, j # i PROVE Once(j)'
    <3>1. replies'[j] = replies[j] /\ asked'[j] = asked[j] /\ Waits(j)' = Waits(j)
      BY <2>3, <2>6 DEF Uses
    <3>2. Once(j)
      BY <2>2
    <3> HIDE DEF Waits
    <3> QED BY <3>1, <3>2 DEF Once
  <2>7. Once(i)'
    <3>1. replies'[i] = replies[i] \o sent /\ asked'[i] = r
      BY <2>1, <2>3
    <3>2. IsSeq(replies[i]) /\ Len(replies[i]) = 0 /\ IsSeq(sent)
      BY <2>1, <2>2 DEF Once, Uses
    <3>3. IsSeq(replies'[i]) /\ Len(replies'[i]) = Len(sent) /\ Len(sent) \in Nat
      <4>1. Len(sent) \in Nat
        BY <3>2 DEF IsSeq
      <4>2. IsSeq(replies[i] \o sent) /\ Len(replies[i] \o sent) = Len(replies[i]) + Len(sent)
        BY <3>2, <1>IsSeqConcat
      <4> QED BY <3>1, <3>2, <4>1, <4>2
    <3> HIDE DEF Waits
    <3> QED BY <3>1, <3>3 DEF Once, Uses
  <2>8. /\ asked' = [j \in Iq |-> asked'[j]] /\ replies' = [j \in Iq |-> replies'[j]]
    BY <2>3
  <2>9. \A j \in Iq : Once(j)'
    BY <2>6, <2>7, Zenon
  <2> QED BY <2>8, <2>9 DEF AnswerInv, Uses
\* How many answers to an iq wait, when one more does.
<1>CountAppend. ASSUME NEW s \in Seq(Callbacks), NEW cb \in Callbacks, NEW j
                PROVE  /\ Append(s, cb) \in Seq(Callbacks)
                       /\ Count(s, j) \in Nat
                       /\ Count(Append(s, cb), j) = IF cb \in AnswersTo(j) THEN Count(s, j) + 1 ELSE Count(s, j)
  <2> USE <1>CountAppend
  <2>1. Filter(s, AnswersTo(j)) \in Seq(Callbacks)
    BY FilterType
  <2>2. Filter(Append(s, cb), AnswersTo(j)) =
          IF cb \in AnswersTo(j) THEN Append(Filter(s, AnswersTo(j)), cb) ELSE Filter(s, AnswersTo(j))
    BY FilterAppend
  <2>3. Append(s, cb) \in Seq(Callbacks)
    OBVIOUS
  <2>4. Len(Append(Filter(s, AnswersTo(j)), cb)) = Len(Filter(s, AnswersTo(j))) + 1
    BY <2>1
  <2> QED BY <2>1, <2>2, <2>3, <2>4 DEF Count
\* The functions of Bridge that answer at once, throw, say nothing, or wait.
<1>HandlerOnce. ASSUME AnswerInv, NEW i, Fresh(i), NEW d, ~d.guard, NEW r, r # Nothing,
                       r.kind \notin {"iq", "answer"}, asked' = [asked EXCEPT ![i] = r], client' = client,
                       \/ Throws(i) \/ Silence(i, d) \/ \E reply : Now(i, reply, d)
                       \/ r \in Request /\ Later(i, r, d)
                PROVE  AnswerInv'
  <2> USE <1>HandlerOnce
  <2>0. /\ waiting \in Seq(Callbacks) /\ client \in Nat /\ client' \in Nat
        /\ i \in Iq /\ \A j \in Iq : Waits(j) \in Nat /\ Waits(j) = Count(waiting, j)
    BY FreshUnused, WaitsNat DEF AnswerInv, Waits, Count
  <2>1. Waits(i) = 0
    BY <2>0, FreshUnused, Zenon DEF AnswerInv, Once
  <2>2. Guard(d) = <<>>
    BY DEF Guard
  <2>3. /\ IsSeq(<<>>) /\ Len(<<>>) = 0
        /\ \A x : IsSeq(<<x>>) /\ Len(<<x>>) = 1 /\ <<x>> \o <<>> = <<x>>
    <3>1. IsSeq(<<>>) /\ Len(<<>>) = 0
      BY DEF IsSeq
    <3>2. ASSUME NEW x PROVE IsSeq(<<x>>) /\ Len(<<x>>) = 1 /\ <<x>> \o <<>> = <<x>>
      <4>1. <<x>> \in Seq({x})
        OBVIOUS
      <4>2. IsSeq(<<x>>)
        BY <4>1, <1>IsSeqOf, Zenon
      <4> QED BY <4>1, <4>2
    <3> QED BY <3>1, <3>2
  <2>4. ASSUME waiting' = waiting, NEW x, Replies(i, <<x>>) PROVE AnswerInv'
    <3>1. \A j \in Iq : Waits(j)' = Waits(j)
      BY <2>4 DEF Waits
    <3> HIDE DEF Waits
    <3>2. Uses(i, r, <<x>>)
      BY <2>0, <2>1, <2>3, <2>4, <3>1 DEF Uses
    <3> QED BY <3>2, <1>UsesOnce
  <2>5. ASSUME waiting' = waiting, Replies(i, <<>>) PROVE AnswerInv'
    <3>1. \A j \in Iq : Waits(j)' = Waits(j)
      BY <2>5 DEF Waits
    <3> HIDE DEF Waits
    <3>2. Uses(i, r, <<>>)
      BY <2>0, <2>1, <2>3, <2>5, <3>1 DEF Uses
    <3> QED BY <3>2, <1>UsesOnce
  <2>6. ASSUME r \in Request, Later(i, r, d) PROVE AnswerInv'
    <3> DEFINE cb == Callback(r.kind, i, r)
    <3>1. r.kind \in Kinds /\ r.kind # "fill"
      BY <2>6, RequestIs DEF Kinds
    <3>2. cb \in Callbacks /\ \A j : cb \in AnswersTo(j) <=> j = i
      BY <2>0, <2>6, <3>1, CallbackIs
    <3>3. waiting' = Append(waiting, cb) /\ Replies(i, <<>>)
      BY <2>2, <2>6 DEF Later
    <3> HIDE DEF cb
    <3>4. \A j \in Iq : Waits(j)' = Count(Append(waiting, cb), j)
      BY <3>3 DEF Waits, Count
    <3>5. \A j \in Iq : Waits(j)' = IF j = i THEN Waits(j) + 1 ELSE Waits(j)
      BY <2>0, <3>2, <3>4, <1>CountAppend
    <3>6. waiting' \in Seq(Callbacks)
      BY <2>0, <3>2, <3>3
    <3> HIDE DEF Waits
    <3>7. Waits(i)' = 1 /\ \A j \in Iq : j # i => Waits(j)' = Waits(j)
      BY <2>0, <2>1, <3>5
    <3>8. Uses(i, r, <<>>)
      BY <2>0, <2>3, <3>3, <3>6, <3>7 DEF Uses
    <3> QED BY <3>8, <1>UsesOnce
  <2>7. CASE Throws(i)
    BY <2>4, <2>7 DEF Throws
  <2>8. CASE Silence(i, d)
    BY <2>2, <2>5, <2>8 DEF Silence
  <2>9. CASE \E reply : Now(i, reply, d)
    BY <2>2, <2>3, <2>4, <2>9 DEF Now
  <2> QED BY <2>6, <2>7, <2>8, <2>9
\* send_irc_channel_list_request()
<1>AskListOnce. ASSUME AnswerInv, NEW i, NEW d, ~d.guard, NEW r \in ListRequest, AskList(i, r, d)
                PROVE  AnswerInv'
  <2> USE <1>AskListOnce
  <2>0. /\ waiting \in Seq(Callbacks) /\ client \in Nat /\ client' = client /\ client' \in Nat
        /\ i \in Iq /\ \A j \in Iq : Waits(j) \in Nat /\ Waits(j) = Count(waiting, j)
        /\ Fresh(i) /\ asked' = [asked EXCEPT ![i] = r]
    BY FreshUnused, WaitsNat, Zenon DEF AnswerInv, Waits, Count, AskList
  <2>1. Waits(i) = 0
    BY <2>0, FreshUnused, Zenon DEF AnswerInv, Once
  <2>2. r # Nothing /\ r.kind = "list" /\ Guard(d) = <<>>
    BY RequestIs DEF Guard
  <2> DEFINE fill == Callback("fill", i, r)
             cb == Callback("list", i, r)
             sent == <<[type |-> "result", page |-> Page(list.channels, r.after, r.max)]>>
  <2>3. /\ fill \in Callbacks /\ \A j : fill \notin AnswersTo(j)
        /\ cb \in Callbacks /\ \A j : cb \in AnswersTo(j) <=> j = i
    BY <2>0, CallbackIs DEF Kinds
  <2>4. IsSeq(<<>>) /\ Len(<<>>) = 0 /\ IsSeq(sent) /\ Len(sent) = 1 /\ sent \o <<>> = sent
    <3>1. IsSeq(<<>>) /\ Len(<<>>) = 0
      BY DEF IsSeq
    <3> DEFINE x == [type |-> "result", page |-> Page(list.channels, r.after, r.max)]
    <3> HIDE DEF x
    <3>2. <<x>> \in Seq({x}) /\ Len(<<x>>) = 1 /\ <<x>> \o <<>> = <<x>>
      OBVIOUS
    <3>3. IsSeq(<<x>>)
      BY <3>2, <1>IsSeqOf, Zenon
    <3> QED BY <3>1, <3>2, <3>3 DEF x
  <2> HIDE DEF fill, cb, sent
  <2>5. ASSUME waiting' \in Seq(Callbacks), Replies(i, <<>>),
               \A j \in Iq : Waits(j)' = IF j = i THEN Waits(j) + 1 ELSE Waits(j)
        PROVE  AnswerInv'
    <3> HIDE DEF Waits
    <3>1. Waits(i)' = 1 /\ \A j \in Iq : j # i => Waits(j)' = Waits(j)
      BY <2>0, <2>1, <2>5
    <3>2. Uses(i, r, <<>>)
      BY <2>0, <2>2, <2>4, <2>5, <3>1 DEF Uses
    <3> QED BY <2>0, <3>2, <1>UsesOnce
  <2>6. CASE Throws(i)
    BY <2>0, <2>2, <2>6, <1>HandlerOnce, Zenon
  <2>7. CASE waiting' = waiting \o <<fill, cb>> /\ Replies(i, <<>>)
    <3> DEFINE s == Append(waiting, fill)
    <3>1. waiting' = Append(s, cb)
      BY <2>0, <2>3, <2>7
    <3>2. s \in Seq(Callbacks) /\ \A j \in Iq : Count(s, j) = Count(waiting, j)
      BY <2>0, <2>3, <1>CountAppend
    <3> HIDE DEF s
    <3>3. waiting' \in Seq(Callbacks)
      BY <2>3, <3>1, <3>2
    <3>4. \A j \in Iq : Waits(j)' = Count(Append(s, cb), j)
      BY <3>1 DEF Waits, Count
    <3>5. \A j \in Iq : Waits(j)' = IF j = i THEN Count(s, j) + 1 ELSE Count(s, j)
      BY <2>3, <3>2, <3>4, <1>CountAppend
    <3>6. \A j \in Iq : Waits(j)' = IF j = i THEN Waits(j) + 1 ELSE Waits(j)
      BY <2>0, <3>2, <3>5
    <3> QED BY <2>5, <2>7, <3>3, <3>6
  <2>8. CASE waiting' = waiting /\ Replies(i, sent)
    <3>1. \A j \in Iq : Waits(j)' = Waits(j)
      BY <2>8 DEF Waits
    <3> HIDE DEF Waits
    <3>2. Uses(i, r, sent)
      BY <2>0, <2>1, <2>2, <2>4, <2>8, <3>1 DEF Uses
    <3> QED BY <2>0, <3>2, <1>UsesOnce
  <2>9. CASE waiting' = Append(waiting, cb) /\ Replies(i, <<>>)
    <3>1. waiting' \in Seq(Callbacks)
      BY <2>0, <2>3, <2>9
    <3>2. \A j \in Iq : Waits(j)' = Count(Append(waiting, cb), j)
      BY <2>9 DEF Waits, Count
    <3>3. \A j \in Iq : Waits(j)' = IF j = i THEN Waits(j) + 1 ELSE Waits(j)
      BY <2>0, <2>3, <3>2, <1>CountAppend
    <3> QED BY <2>5, <2>9, <3>1, <3>3
  <2> QED BY <2>2, <2>4, <2>6, <2>7, <2>8, <2>9 DEF AskList, fill, cb, sent
\* handle_iq() and handle_message(), with the functions of Bridge.
<1>AsksOnce. ASSUME AnswerInv, Asks PROVE AnswerInv'
  <2> USE <1>AsksOnce
  <2>1. PICK i \in Iq, h \in AllHandled :
          /\ Fresh(i)
          /\ \/ h.effect.op = "none" /\ AskNow(i, h.kind, h.effect)
             \/ h.effect.op # "none" /\ AskIq(i, h.effect)
    BY DEF Asks
  <2> DEFINE d == h.effect
  <2>2. /\ h.kind \in {"iq", "answer", "relay", "message"}
        /\ OneAnswer(d) \/ Deferred(d) \/ Silent(d)
        /\ h.kind = "iq" => ~Silent(d)
        /\ h.kind = "answer" => Silent(d)
    BY AnyOutcome
  <2> HIDE DEF d
  <2>3. CASE d.op = "none" /\ AskNow(i, h.kind, d)
    <3> DEFINE r == [Nothing EXCEPT !.kind = h.kind]
               sent == [k \in 1..Len(Guarded(d)) |-> Answer(Guarded(d)[k])]
    <3>1. r # Nothing /\ r.kind = h.kind
      BY <2>2, RequestIs
    <3>2. /\ Len(Guarded(d)) \in {0, 1}
          /\ h.kind = "iq" => Len(Guarded(d)) = 1
          /\ h.kind = "answer" => Len(Guarded(d)) = 0
      BY <2>2, <2>3 DEF OneAnswer, Deferred, Silent
    <3>3. sent \in Seq({Answer(Guarded(d)[k]) : k \in 1..Len(Guarded(d))}) /\ Len(sent) = Len(Guarded(d))
      BY <3>2
    <3>4. asked' = [asked EXCEPT ![i] = r] /\ Replies(i, sent) /\ UNCHANGED <<client, waiting>>
      BY <2>3 DEF AskNow
    <3> HIDE DEF r, sent
    <3>5. IsSeq(sent)
      BY <3>3, <1>IsSeqOf
    <3>6. \A j \in Iq : Waits(j)' = Waits(j)
      BY <3>4 DEF Waits
    <3>7. Waits(i) = 0 /\ waiting' \in Seq(Callbacks) /\ client' \in Nat
      BY <2>1, <3>4, FreshUnused, Zenon DEF AnswerInv, Once
    <3> HIDE DEF Waits
    <3>8. Uses(i, r, sent)
      BY <3>1, <3>2, <3>3, <3>4, <3>5, <3>6, <3>7 DEF Uses
    <3> QED BY <2>1, <3>8, <1>UsesOnce
  <2>4. CASE d.op # "none" /\ AskIq(i, d)
    <3>1. ~d.guard
      BY <2>2, <2>4 DEF OneAnswer, Deferred, Silent
    <3>2. ASSUME NEW r \in Request,
                 asked' = [asked EXCEPT ![i] = r], client' = client,
                 \/ Throws(i) \/ Silence(i, d) \/ Now(i, "error", d) \/ Later(i, r, d)
          PROVE  AnswerInv'
      BY <2>1, <3>1, <3>2, RequestIs, <1>HandlerOnce, Zenon
    <3>3. ASSUME NEW r \in Request, Ask(i, r, d) PROVE AnswerInv'
      BY <3>2, <3>3, Zenon DEF Ask
    <3>4. ASSUME NEW r \in Request, AskRole(i, r, d) PROVE AnswerInv'
      BY <3>2, <3>4, Zenon DEF AskRole
    <3>5. ASSUME NEW r \in Request, AskParticipant(i, r, d) PROVE AnswerInv'
      BY <3>2, <3>5, Zenon DEF AskParticipant
    <3>6. ASSUME AskSelf(i, d) PROVE AnswerInv'
      <4> DEFINE r == [Nothing EXCEPT !.kind = "self"]
      <4>1. r # Nothing /\ r.kind \notin {"iq", "answer"}
        BY RequestIs
      <4>2. /\ asked' = [asked EXCEPT ![i] = r] /\ client' = client
            /\ Throws(i) \/ \E reply : Now(i, reply, d)
        BY <3>6 DEF AskSelf
      <4> HIDE DEF r
      <4> QED BY <2>1, <3>1, <4>1, <4>2, <1>HandlerOnce, Zenon
    <3>7. ASSUME NEW r \in ListRequest, AskList(i, r, d) PROVE AnswerInv'
      BY <3>1, <3>7, <1>AskListOnce
    <3> QED BY <2>4, <3>3, <3>4, <3>5, <3>6, <3>7 DEF AskIq
  <2> QED BY <2>1, <2>3, <2>4 DEF d
\* trigger_on_irc_message(): what an iq has, answers and callbacks together,
\* does not grow.
<1>TriggerOnce. ASSUME AnswerInv, NEW m, Trigger(m), asked' = asked, client' = client
                PROVE  AnswerInv'
  <2> USE <1>TriggerOnce
  <2>0. /\ waiting \in Seq(Callbacks) /\ client \in Nat
        /\ asked = [i \in Iq |-> asked[i]] /\ replies = [i \in Iq |-> replies[i]]
        /\ \A i \in Iq : Once(i)
    BY DEF AnswerInv
  <2> DEFINE l == IF \E k \in 1..Len(waiting) : waiting[k].kind = "fill" THEN Filled(m) ELSE list
             Kept == {cb \in Range(waiting) : ~Outcome(cb, m, l).done}
             Answered(i) == {cb \in Range(waiting) : cb.iq = i /\ Outcome(cb, m, l).reply # "none"}
             For(i) == Filter(waiting, Answered(i))
             Sent(i) == [k \in 1..Len(For(i)) |-> Reply(For(i)[k], Outcome(For(i)[k], m, l).reply, l)]
  <2>1. /\ waiting' = Filter(waiting, Kept)
        /\ replies' = [i \in Iq |-> replies[i] \o Sent(i)]
    BY Zenon DEF Trigger
  <2>2. \A cb \in Range(waiting) : cb \in Callbacks
    BY <2>0, RangeSeq
  <2>3. \A i : Answered(i) \cap (Kept \cap AnswersTo(i)) = {}
               /\ Answered(i) \cup (Kept \cap AnswersTo(i)) \subseteq AnswersTo(i)
    <3> HIDE DEF l
    <3> QED BY <2>2, OutcomeIs DEF AnswersTo
  <2> HIDE DEF Kept, Answered
  <2>4. waiting' \in Seq(Callbacks)
    BY <2>0, <2>1, FilterType
  <2>5. ASSUME NEW i \in Iq PROVE Once(i)'
    <3>1. For(i) \in Seq(Callbacks)
      BY <2>0, FilterType, Zenon
    <3>2. Len(Sent(i)) = Len(For(i)) /\ IsSeq(Sent(i)) /\ Len(For(i)) \in Nat
      <4> DEFINE x(k) == Reply(For(i)[k], Outcome(For(i)[k], m, l).reply, l)
                 n == Len(For(i))
      <4>1. n \in Nat /\ Sent(i) = [k \in 1..n |-> x(k)]
        <5>1. n \in Nat
          BY <3>1
        <5> QED BY <5>1, Zenon
      <4> HIDE DEF n, x
      <4>2. [k \in 1..n |-> x(k)] \in Seq({x(k) : k \in 1..n}) /\ Len([k \in 1..n |-> x(k)]) = n
        BY <4>1
      <4>3. IsSeq([k \in 1..n |-> x(k)])
        BY <4>2, <1>IsSeqOf
      <4> QED BY <4>1, <4>2, <4>3, Zenon DEF n
    <3>3. Filter(waiting', AnswersTo(i)) = Filter(waiting, Kept \cap AnswersTo(i))
      BY <2>0, <2>1, FilterTwice
    <3>4. Len(For(i)) + Len(Filter(waiting, Kept \cap AnswersTo(i))) <= Len(Filter(waiting, AnswersTo(i)))
      BY <2>0, <2>3, FilterSplit
    <3>5. Waits(i)' = Len(Filter(waiting, Kept \cap AnswersTo(i)))
      BY <3>3 DEF Waits, AnswersTo, Callbacks
    <3>6. Waits(i) = Len(Filter(waiting, AnswersTo(i))) /\ Waits(i) \in Nat
      BY WaitsNat DEF Waits
    <3>7. Waits(i)' \in Nat
      <4>1. Filter(waiting, Kept \cap AnswersTo(i)) \in Seq(Callbacks)
        BY <2>0, FilterType, Zenon
      <4> QED BY <3>5, <4>1
    <3>8. replies'[i] = replies[i] \o Sent(i) /\ Once(i) /\ asked'[i] = asked[i]
      BY <2>0, <2>1
    <3>9. IsSeq(replies'[i]) /\ Len(replies'[i]) = Len(replies[i]) + Len(For(i)) /\ Len(replies[i]) \in Nat
      <4>1. IsSeq(replies[i])
        BY <3>8 DEF Once
      <4>2. Len(replies[i]) \in Nat
        BY <4>1 DEF IsSeq
      <4> HIDE DEF Sent
      <4>3. IsSeq(replies[i] \o Sent(i)) /\ Len(replies[i] \o Sent(i)) = Len(replies[i]) + Len(Sent(i))
        BY <3>2, <4>1, <1>IsSeqConcat
      <4> QED BY <3>2, <3>8, <4>2, <4>3, Zenon
    <3>10. Len(For(i)) + Waits(i)' <= Waits(i)
      BY <3>4, <3>5, <3>6
    <3> HIDE DEF Waits, For
    <3>11. Once(i) /\ asked'[i] = asked[i] /\ IsSeq(replies'[i])
      BY <3>8, <3>9
    <3> DEFINE w == Waits(i)
               n == Len(replies[i])
               w1 == Waits(i)'
               n1 == Len(replies'[i])
               k == Len(For(i))
    <3>12. /\ w \in Nat /\ n \in Nat /\ w1 \in Nat /\ k \in Nat /\ n1 = n + k /\ k + w1 <= w
           /\ w + n <= 1
      BY <3>2, <3>6, <3>7, <3>9, <3>10, <3>11 DEF Once
    <3>13. /\ asked[i] = Nothing \/ asked[i].kind = "answer" => w = 0 /\ n = 0
           /\ asked[i].kind = "iq" => n = 1
      BY ONLY <3>11 DEF Once
    <3> HIDE DEF w, n, w1, n1, k
    <3>14. w1 + n1 <= 1 /\ (w = 0 /\ n = 0 => w1 = 0 /\ n1 = 0) /\ (n = 1 => n1 = 1)
      BY ONLY <3>12, SMTT(20)
    <3> QED BY ONLY <3>11, <3>13, <3>14, Zenon DEF Once, w1, n1
  <2>6. replies' = [i \in Iq |-> replies'[i]]
    BY <2>1
  <2> QED BY <2>0, <2>4, <2>5, <2>6 DEF AnswerInv
\* A step that leaves the requests and their callbacks alone.
<1>AnswersSame. ASSUME AnswerInv, UNCHANGED <<waiting, asked, replies>>, client' \in Nat
                PROVE  AnswerInv'
  <2> USE <1>AnswersSame
  <2>1. \A i \in Iq : Once(i)'
    <3>1. \A i : Once(i)' <=> Once(i)
      BY DEF Once, Waits
    <3> QED BY <3>1 DEF AnswerInv
  <2> QED BY <2>1 DEF AnswerInv
<1> SUFFICES ASSUME AnswerInv, [Next]_vars PROVE AnswerInv'
  OBVIOUS
<1>0. client \in Nat
  BY DEF AnswerInv
<1>1. CASE Asks
  BY <1>1, <1>AsksOnce
<1>2. CASE Receive
  <2>1. Trigger(Head(say)) /\ asked' = asked /\ client' = client
    BY <1>2 DEF Receive
  <2> QED BY <2>1, <1>TriggerOnce
<1>3. CASE Lost
  BY <1>0, <1>3, <1>AnswersSame DEF Lost
<1>4. CASE Reconnected
  BY <1>0, <1>4, <1>AnswersSame DEF Reconnected
<1>5. ASSUME NEW n, NEW p, OnPingResult(n, p) PROVE AnswerInv'
  BY <1>0, <1>5, <1>AnswersSame DEF OnPingResult
<1>6. CASE ServerAnswers
  BY <1>0, <1>6, <1>AnswersSame DEF ServerAnswers
<1>7. CASE ServerJoins
  BY <1>0, <1>7, <1>AnswersSame DEF ServerJoins
<1>8. CASE ServerNoise
  BY <1>0, <1>8, <1>AnswersSame DEF ServerNoise
<1>9. CASE UNCHANGED vars
  BY <1>0, <1>9, <1>AnswersSame DEF vars
<1> QED BY <1>1, <1>2, <1>3, <1>4, <1>5, <1>6, <1>7, <1>8, <1>9 DEF Next

\* "We MUST return an iq, whatever happens": handle_iq(), the functions of Bridge
\* it calls and the callbacks of waiting_irc together answer an iq at most once,
\* at once or later, and none that is itself an answer, for any number of
\* requests and any messages of the IRC server.
THEOREM AlwaysAnsweredOnce == Spec => []AnsweredOnce
<1>1. AnswerInv => AnsweredOnce
  <2> SUFFICES ASSUME AnswerInv, NEW i \in Iq
               PROVE  /\ Len(replies[i]) <= 1
                      /\ asked[i].kind = "iq" => Len(replies[i]) = 1
                      /\ asked[i].kind = "answer" => replies[i] = <<>>
                      /\ (\E k \in 1..Len(waiting) : waiting[k].iq = i /\ waiting[k].kind # "fill")
                           => replies[i] = <<>>
    BY DEF AnsweredOnce
  <2>1. /\ waiting \in Seq(Callbacks) /\ Once(i) /\ Waits(i) \in Nat
        /\ IsSeq(replies[i]) /\ Len(replies[i]) \in Nat
    BY WaitsNat DEF AnswerInv, Once, IsSeq
  <2>2. Len(replies[i]) = 0 => replies[i] = <<>>
    BY <2>1 DEF IsSeq
  <2>3. ASSUME NEW k \in 1..Len(waiting), waiting[k].iq = i, waiting[k].kind # "fill"
        PROVE  Waits(i) >= 1
    <3>1. waiting[k] \in Range(waiting) \cap AnswersTo(i)
      BY <2>1, <2>3, RangeSeq DEF AnswersTo
    <3>2. Range(Filter(waiting, AnswersTo(i))) # {} /\ Filter(waiting, AnswersTo(i)) \in Seq(Callbacks)
      BY <2>1, <3>1, FilterRange, FilterType, Zenon
    <3>3. \E n \in 1..Len(Filter(waiting, AnswersTo(i))) : TRUE
      BY <3>2, RangeSeq
    <3> QED BY <3>2, <3>3 DEF Waits
  <2> HIDE DEF Waits
  <2> QED BY <2>1, <2>2, <2>3 DEF Once
<1> QED BY <1>1, AnswerInit, AnswerStep, PTL DEF Spec

-----------------------------------------------------------------------------
(* The pages of a list, and a client that asks for one after the other.    *)

\* Index() is where the channel is, 0 where it is not.
LEMMA IndexIs ==
  ASSUME NEW l, IsListing(l)
  PROVE  /\ \A c : Index(l, c) \in 0 .. Len(l)
         /\ \A k \in 1 .. Len(l) : Index(l, l[k]) = k
         /\ \A c : Index(l, c) > 0 => l[Index(l, c)] = c
         /\ Index(l, Empty) = 0 /\ Len(l) \in Nat
<1>1. l \in Seq(STRING \ {Empty}) /\ \A j, k \in 1 .. Len(l) : l[j] = l[k] => j = k
  BY DEF IsListing, IsInjective
<1>2. ASSUME NEW c PROVE Index(l, c) \in 0 .. Len(l) /\ (Index(l, c) > 0 => l[Index(l, c)] = c)
  BY <1>1 DEF Index
<1>3. ASSUME NEW k \in 1 .. Len(l) PROVE Index(l, l[k]) = k
  BY <1>1 DEF Index
<1>4. ~\E k \in 1 .. Len(l) : l[k] = Empty
  BY <1>1
<1>5. Index(l, Empty) = 0
  BY <1>4 DEF Index
<1> QED BY <1>1, <1>2, <1>3, <1>5

\* A part of a sequence, in two.
LEMMA SubSeqSplit ==
  ASSUME NEW A, NEW l \in Seq(A), NEW i \in Nat, NEW j \in Nat, NEW n \in Nat,
         i <= j, j <= n, n <= Len(l)
  PROVE  SubSeq(l, i + 1, j) \o SubSeq(l, j + 1, n) = SubSeq(l, i + 1, n)
<1>1. i + 1 \in 1 .. Len(l) + 1 /\ j \in (i + 1) - 1 .. Len(l) /\ n \in j .. Len(l)
  OBVIOUS
<1> QED BY <1>1

-----------------------------------------------------------------------------
(* The cache of the list.  There is one LIST at a time, and what comes in  *)
(* answer to it is, with what the cache holds, what the server answered.   *)

\* Filter, from the front.
LEMMA FilterHead ==
  ASSUME NEW A, NEW s \in Seq(A), s # <<>>, NEW S
  PROVE  /\ Head(s) \in A /\ Tail(s) \in Seq(A) /\ Filter(Tail(s), S) \in Seq(A)
         /\ Filter(s, S) = IF Head(s) \in S THEN <<Head(s)>> \o Filter(Tail(s), S)
                           ELSE Filter(Tail(s), S)
<1> DEFINE x == Head(s)
           t == Tail(s)
<1>1. x \in A /\ t \in Seq(A) /\ s = <<x>> \o t /\ <<x>> \in Seq(A)
  OBVIOUS
<1> HIDE DEF x, t
<1>2. Filter(s, S) = Filter(<<x>>, S) \o Filter(t, S) /\ Filter(t, S) \in Seq(A)
  <2> DEFINE u == <<x>>
  <2>1. s = u \o t /\ u \in Seq(A) /\ t \in Seq(A)
    BY <1>1
  <2> HIDE DEF u
  <2>2. Filter(u \o t, S) = Filter(u, S) \o Filter(t, S)
    BY ONLY <2>1, FilterConcat
  <2>3. Filter(t, S) \in Seq(A)
    BY ONLY <2>1, FilterType
  <2> QED BY <2>1, <2>2, <2>3, Zenon DEF u
<1>3. Filter(<<x>>, S) = IF x \in S THEN <<x>> ELSE <<>>
  <2> DEFINE e == <<>>
  <2>1. e \in Seq(A) /\ Append(e, x) = <<x>> /\ Filter(e, S) = e
    BY <1>1, FilterEmpty
  <2> HIDE DEF e
  <2>2. Filter(Append(e, x), S) = IF x \in S THEN Append(Filter(e, S), x) ELSE Filter(e, S)
    BY ONLY <1>1, <2>1, FilterAppend, Zenon
  <2>3. Filter(Append(e, x), S) = IF x \in S THEN <<x>> ELSE e
    BY ONLY <2>1, <2>2, SMTT(20)
  <2> QED BY <2>1, <2>3 DEF e
<1>4. <<>> \o Filter(t, S) = Filter(t, S)
  BY <1>2
<1> QED BY <1>1, <1>2, <1>3, <1>4, Zenon DEF x, t

\* Messages and commands are of their sets.
LEMMA MessageIs ==
  /\ \A cmd, nick, arg : /\ Message(cmd, nick, arg).cmd = cmd
                         /\ Message(cmd, nick, arg).nick = nick
                         /\ Message(cmd, nick, arg).arg = arg
  /\ \A cmd \in Numerics \cup Verbs, nick \in Nick \cup {Own, Empty}, arg \in Seq(STRING) \cup PingId \cup {Nick} :
       Message(cmd, nick, arg) \in Messages
  /\ \A cmd \in {"kick", "role", "ping", "version", "LIST"}, nick \in Nick \cup {Empty}, i \in Iq :
       Message(cmd, nick, <<i>>) \in Commands
  /\ \A i \in Iq : <<i>> \in Seq(STRING)
  /\ <<>> \in Seq(STRING)
<1>1. \A cmd, nick, arg : /\ Message(cmd, nick, arg).cmd = cmd
                          /\ Message(cmd, nick, arg).nick = nick
                          /\ Message(cmd, nick, arg).arg = arg
  BY DEF Message
<1>2. \A cmd \in Numerics \cup Verbs, nick \in Nick \cup {Own, Empty}, arg \in Seq(STRING) \cup PingId \cup {Nick} :
        Message(cmd, nick, arg) \in Messages
  BY DEF Message, Messages
<1>3. \A cmd \in {"kick", "role", "ping", "version", "LIST"}, nick \in Nick \cup {Empty}, i \in Iq :
        Message(cmd, nick, <<i>>) \in Commands
  BY DEF Message, Commands
<1>4. ASSUME NEW i \in Iq PROVE <<i>> \in Seq(STRING)
  <2>1. IqIds \in Seq(STRING)
    BY RequestsAssumptions
  <2>2. i \in STRING
    BY <2>1, RangeSeq DEF Iq
  <2> DEFINE A == STRING
  <2>3. i \in A
    BY <2>2, Zenon
  <2> HIDE DEF A
  <2>4. <<i>> \in Seq(A)
    BY <2>3
  <2> QED BY <2>4 DEF A
<1>5. <<>> \in Seq(STRING)
  <2> DEFINE A == STRING
  <2> HIDE DEF A
  <2>1. <<>> \in Seq(A)
    OBVIOUS
  <2> QED BY <2>1 DEF A
<1> QED BY <1>1, <1>2, <1>3, <1>4, <1>5

\* The callback that fills the cache, among those that wait.
LEMMA FillsIs ==
  ASSUME waiting \in Seq(Callbacks)
  PROVE  Fills <=> \E cb \in Range(waiting) : cb.kind = "fill"
BY RangeSeq DEF Fills

\* A step that leaves the cache and what is on its way to it alone.
LEMMA ListSame ==
  ASSUME ListInv, list' = list, LISTs' = LISTs, Coming' = Coming, Fills' <=> Fills,
         todo' \in Seq(Commands), say' \in Seq(Messages),
         phase' = "out" => todo' = <<>> /\ say' = <<>>
  PROVE  ListInv'
<1>1. (Cached \/ Broken \/ Requested \/ Refused \/ Arriving)'
  <2>1. Cached \/ Broken \/ Requested \/ Refused \/ Arriving
    BY DEF ListInv
  <2> HIDE DEF LISTs, Coming, Lines
  <2>2. Cached => Cached'
    BY DEF Cached
  <2>3. Broken => Broken'
    BY DEF Broken
  <2>4. Requested => Requested'
    BY DEF Requested
  <2>5. Refused => Refused'
    BY DEF Refused
  <2>6. Arriving => Arriving'
    BY Zenon DEF Arriving, Lines, Message
  <2> QED BY <2>1, <2>2, <2>3, <2>4, <2>5, <2>6
<1> HIDE DEF Fills
<1> QED BY <1>1 DEF ListInv

\* What is on its way from the server.
LEMMA ComingIs ==
  ASSUME ListInv, say # <<>>
  PROVE  /\ Head(say) \in Messages /\ Tail(say) \in Seq(Messages)
         /\ Head(say) \notin ListMessages => Filter(Tail(say), ListMessages) = Coming
         /\ Head(say) \in ListMessages =>
              /\ Refused \/ Arriving
              /\ Coming # <<>> /\ Coming[1] = Head(say) /\ Filter(Tail(say), ListMessages) = Tail(Coming)
<1>1. say \in Seq(Messages)
  BY DEF ListInv
<1> DEFINE x == Head(say)
           t == Filter(Tail(say), ListMessages)
<1>2. /\ x \in Messages /\ Tail(say) \in Seq(Messages) /\ t \in Seq(Messages)
      /\ Coming = IF x \in ListMessages THEN <<x>> \o t ELSE t
  BY <1>1, FilterHead DEF Coming
<1> HIDE DEF x, t
<1>3. CASE x \notin ListMessages
  BY <1>2, <1>3 DEF x, t
<1>4. CASE x \in ListMessages
  <2>1. Coming = <<x>> \o t
    BY <1>2, <1>4
  <2> HIDE DEF Coming
  <2>2. Coming # <<>> /\ Coming[1] = x /\ Tail(Coming) = t
    BY <1>2, <2>1
  <2>3. Refused \/ Arriving
    BY <2>2 DEF ListInv, Cached, Broken, Requested
  <2> QED BY <1>2, <1>4, <2>2, <2>3 DEF x, t
<1> QED BY <1>3, <1>4

\* The lines that follow, and what the cache holds with the first of them.
LEMMA LinesIs ==
  ASSUME NEW l \in Listings, NEW n \in 0 .. Len(l)
  PROVE  /\ IsListing(l) /\ l \in Seq(STRING) /\ Lines(l, n) \in Seq(ListMessages) /\ Lines(l, n) # <<>>
         /\ n < Len(l) => /\ Lines(l, n)[1] = Message("322", Empty, <<l[n + 1]>>)
                          /\ Tail(Lines(l, n)) = Lines(l, n + 1)
                          /\ SubSeq(l, 1, n) \o <<l[n + 1]>> = SubSeq(l, 1, n + 1)
         /\ n = Len(l) => /\ Lines(l, n)[1] = Message("323", Empty, <<>>)
                          /\ Tail(Lines(l, n)) = <<>> /\ SubSeq(l, 1, n) = l
<1>1. IsListing(l) /\ l \in Seq(STRING) /\ Len(l) \in Nat
  BY RequestsAssumptions DEF IsListing
<1> DEFINE s == Lines(l, n)
           N == Len(l)
           a(k) == Message("322", Empty, <<l[n + k]>>)
           e == Message("323", Empty, <<>>)
<1>2. \A k \in 1 .. N - n : a(k) \in ListMessages
  <2> SUFFICES ASSUME NEW k \in 1 .. N - n PROVE a(k) \in ListMessages
    OBVIOUS
  <2>1. n + k \in 1 .. N
    BY <1>1
  <2>2. l[n + k] \in STRING
    BY <1>1, <2>1
  <2> DEFINE A == STRING
             x == l[n + k]
  <2>3. <<x>> \in Seq(A)
    <3>1. x \in A
      BY <2>2
    <3> HIDE DEF A, x
    <3> QED BY <3>1
  <2>4. a(k) \in Messages /\ a(k).cmd = "322"
    BY <2>3, MessageIs, Zenon DEF Numerics
  <2> QED BY <2>4 DEF ListMessages
<1>3. e \in ListMessages
  <2>1. e \in Messages /\ e.cmd = "323"
    BY MessageIs, Zenon DEF Numerics
  <2> QED BY <2>1 DEF ListMessages
<1>4. s = [k \in 1 .. N - n + 1 |-> IF k <= N - n THEN a(k) ELSE e]
  BY DEF Lines
<1> HIDE DEF a, e, s
<1>5. s \in Seq(ListMessages) /\ Len(s) = N - n + 1
  <2>1. N - n + 1 \in Nat /\ \A k \in 1 .. N - n + 1 : (IF k <= N - n THEN a(k) ELSE e) \in ListMessages
    BY <1>1, <1>2, <1>3
  <2> HIDE DEF N
  <2> QED BY <1>4, <2>1
<1>6. s # <<>>
  BY <1>1, <1>5
<1>7. ASSUME n < N
      PROVE  /\ s[1] = a(1) /\ Tail(s) = Lines(l, n + 1)
             /\ SubSeq(l, 1, n) \o <<l[n + 1]>> = SubSeq(l, 1, n + 1)
  <2>1. s[1] = a(1)
    BY <1>1, <1>4, <1>7
  <2>2. Tail(s) = Lines(l, n + 1)
    <3> DEFINE t == Lines(l, n + 1)
               M == N - n
    <3>1. M \in Nat /\ N - (n + 1) + 1 = M /\ N - (n + 1) = M - 1 /\ N - n + 1 = M + 1
      BY <1>1, <1>7
    <3>2. t = [k \in 1 .. M |-> IF k <= M - 1 THEN Message("322", Empty, <<l[(n + 1) + k]>>)
                                ELSE Message("323", Empty, <<>>)]
      BY <3>1 DEF Lines
    <3>3. \A k \in 1 .. M : (n + 1) + k = n + (k + 1) /\ (k <= M - 1 <=> k + 1 <= M) /\ k + 1 \in 1 .. M + 1
      BY <1>1, <3>1
    <3>4. \A k \in 1 .. M : t[k] = s[k + 1]
      BY <1>4, <3>1, <3>2, <3>3 DEF a, e
    <3> HIDE DEF M, N
    <3>5. Len(Tail(s)) = M /\ Tail(s) \in Seq(ListMessages) /\ \A k \in 1 .. M : Tail(s)[k] = s[k + 1]
      BY <1>5, <1>6, <3>1
    <3>6. \A k \in 1 .. M : t[k] \in ListMessages
      <4>1. \A k \in 1 .. M : s[k + 1] \in ListMessages
        BY <1>5, <3>1, <3>3
      <4> QED BY <3>4, <4>1
    <3>7. t \in Seq(ListMessages) /\ Len(t) = M
      <4>1. \E f : t = [k \in 1 .. M |-> f[k]]
        <5>1. t = [k \in 1 .. M |-> [j \in 1 .. M |-> IF j <= M - 1 THEN Message("322", Empty, <<l[(n + 1) + j]>>)
                                                      ELSE Message("323", Empty, <<>>)][k]]
          BY <3>2, Zenon
        <5> QED BY <5>1, Zenon
      <4> HIDE DEF t
      <4> QED BY <3>1, <3>6, <4>1
    <3> HIDE DEF t
    <3>8. Tail(s) = t
      BY ONLY <3>4, <3>5, <3>7
    <3> QED BY <3>8 DEF t
  <2>3. SubSeq(l, 1, n) \o <<l[n + 1]>> = SubSeq(l, 1, n + 1)
    <3>1. SubSeq(l, n + 1, n + 1) = <<l[n + 1]>>
      <4> DEFINE m == n + 1
      <4>1. m \in 1 .. Len(l)
        BY <1>1, <1>7
      <4> HIDE DEF m
      <4>2. SubSeq(l, m, m) \in Seq(STRING) /\ Len(SubSeq(l, m, m)) = 1 /\ SubSeq(l, m, m)[1] = l[m]
        BY <1>1, <4>1
      <4>3. SubSeq(l, m, m) = <<SubSeq(l, m, m)[1]>>
        <5> DEFINE u == SubSeq(l, m, m)
                   A == STRING
        <5>1. u \in Seq(A) /\ Len(u) = 1
          BY <4>2
        <5> HIDE DEF u, A
        <5>2. u = <<u[1]>>
          BY <5>1
        <5> QED BY <5>2, Zenon DEF u
      <4> QED BY <4>2, <4>3, Zenon DEF m
    <3>2. SubSeq(l, 0 + 1, n) \o SubSeq(l, n + 1, n + 1) = SubSeq(l, 0 + 1, n + 1)
      <4>1. n \in Nat /\ n + 1 \in Nat /\ 0 <= n /\ n <= n + 1 /\ n + 1 <= Len(l)
        BY <1>1, <1>7
      <4> QED BY <1>1, <4>1, SubSeqSplit
    <3> QED BY <3>1, <3>2
  <2> QED BY <2>1, <2>2, <2>3
<1>8. ASSUME n = N PROVE s[1] = e /\ Tail(s) = <<>> /\ SubSeq(l, 1, n) = l
  <2>1. N - n = 0 /\ N - n + 1 = 1
    BY <1>1, <1>8
  <2>2. Len(s) = 1 /\ s[1] = e
    BY <1>4, <1>5, <2>1
  <2>3. Tail(s) = <<>>
    <3>1. Tail(s) \in Seq(ListMessages) /\ Len(Tail(s)) = 0
      BY <1>5, <1>6, <2>2
    <3> DEFINE u == Tail(s)
    <3> HIDE DEF u
    <3>2. u \in Seq(ListMessages) /\ Len(u) = 0 => u = <<>>
      OBVIOUS
    <3> QED BY <3>1, <3>2 DEF u
  <2> QED BY <1>1, <1>8, <2>2, <2>3
<1> QED BY <1>1, <1>5, <1>6, <1>7, <1>8 DEF s, a, e

\* trigger_on_irc_message(): the cache and the callback that fills it.
LEMMA TriggerFills ==
  ASSUME AnswerInv, ListInv, NEW m, Trigger(m)
  PROVE  /\ list' = IF list.complete THEN list ELSE Filled(m)
         /\ Fills' <=> ~list.complete /\ m.cmd \notin {"263", "323"}
<1>1. waiting \in Seq(Callbacks) /\ (Fills <=> ~list.complete)
  BY Zenon DEF AnswerInv, ListInv
<1>2. list' = IF Fills THEN Filled(m) ELSE list
  BY Zenon DEF Trigger, Fills
<1> DEFINE l == IF Fills THEN Filled(m) ELSE list
           Kept == {cb \in Range(waiting) : ~Outcome(cb, m, l).done}
<1>3. waiting' = Filter(waiting, Kept)
  BY Zenon DEF Trigger, Fills
<1>4. ASSUME NEW cb, cb.kind = "fill" PROVE Outcome(cb, m, l).done <=> m.cmd \in {"263", "323"}
  <2> HIDE DEF l
  <2>1. Outcome(cb, m, l) = FillCallback(m)
    BY <1>4 DEF Outcome
  <2>2. FillCallback(m).done <=> m.cmd \in {"263", "323"}
    BY DEF FillCallback, Leaves, Stays
  <2> QED BY <2>1, <2>2
<1> HIDE DEF l
<1>5. Range(waiting') = Kept /\ waiting' \in Seq(Callbacks)
  <2> HIDE DEF Kept
  <2>1. Range(waiting') = Range(waiting) \cap Kept /\ waiting' \in Seq(Callbacks)
    BY <1>1, <1>3, FilterRange, FilterType
  <2> QED BY <2>1 DEF Kept
<1>6. Fills' <=> \E cb \in Kept : cb.kind = "fill"
  <2> HIDE DEF Kept
  <2>1. Fills' <=> \E cb \in Range(waiting') : cb.kind = "fill"
    BY <1>5, RangeSeq DEF Fills
  <2> QED BY <1>5, <2>1
<1>7. Fills <=> \E cb \in Range(waiting) : cb.kind = "fill"
  BY <1>1, FillsIs
<1>8. Fills' <=> Fills /\ m.cmd \notin {"263", "323"}
  <2> HIDE DEF Fills
  <2> QED BY <1>4, <1>6, <1>7
<1> HIDE DEF Fills
<1> QED BY <1>1, <1>2, <1>8

\* A line of the list, or its end, or a refusal, takes the cache on.
LEMMA ReceiveList == ASSUME AnswerInv, ListInv, Receive PROVE ListInv'
<1> DEFINE m == Head(say)
           t == Filter(Tail(say), ListMessages)
<1>1. /\ say # <<>> /\ phase # "out" /\ say' = Tail(say) /\ phase' # "out" /\ todo' = todo
      /\ Trigger(m)
  BY DEF Receive
<1>2. /\ m \in Messages /\ say' \in Seq(Messages) /\ todo' \in Seq(Commands)
      /\ m \notin ListMessages => t = Coming
      /\ m \in ListMessages => /\ Refused \/ Arriving
                               /\ Coming # <<>> /\ Coming[1] = m /\ t = Tail(Coming)
  BY <1>1, ComingIs, Zenon DEF ListInv
<1>3. Coming' = t /\ LISTs' = LISTs
  BY <1>1 DEF Coming, LISTs, ListMessages, Messages, ListCommands, Commands
<1>4. /\ list' = IF list.complete THEN list ELSE Filled(m)
      /\ Fills' <=> ~list.complete /\ m.cmd \notin {"263", "323"}
  BY <1>1, TriggerFills
<1>5. /\ Fills <=> ~list.complete
      /\ list = [complete |-> list.complete, channels |-> list.channels] /\ list.complete \in BOOLEAN
  BY DEF ListInv
<1> HIDE DEF m, t, Coming, LISTs, Fills
<1>6. CASE m \notin ListMessages
  <2>1. m.cmd \notin {"263", "322", "323"}
    BY <1>2, <1>6 DEF ListMessages
  <2>2. Filled(m) = list
    BY <2>1, Zenon DEF Filled
  <2> QED BY <1>1, <1>2, <1>3, <1>4, <1>5, <1>6, <2>1, <2>2, ListSame, Zenon
<1>7. CASE m \in ListMessages /\ Refused
  <2>1. ~list.complete /\ LISTs = <<>> /\ m.cmd = "263" /\ Len(Coming) = 1 /\ list.channels = <<>>
    BY <1>2, <1>7 DEF Refused
  <2>2. list' = [complete |-> TRUE, channels |-> <<>>]
    BY <1>4, <1>5, <2>1, Zenon DEF Filled
  <2>3. t = <<>>
    <3>1. Coming \in Seq(Messages)
      BY FilterType DEF ListInv, Coming
    <3> QED BY <1>2, <1>7, <2>1, <3>1
  <2>4. list'.complete = TRUE /\ list'.channels = <<>> /\ ~Fills'
    BY <1>4, <2>1, <2>2
  <2>5. Cached'
    BY <1>3, <2>1, <2>3, <2>4 DEF Cached
  <2> QED BY <1>1, <1>2, <2>2, <2>4, <2>5 DEF ListInv
<1>8. CASE m \in ListMessages /\ Arriving
  <2>1. ~list.complete /\ LISTs = <<>>
    BY <1>8 DEF Arriving
  <2>2. PICK l \in Listings : \E n \in 0 .. Len(l) : list.channels = SubSeq(l, 1, n) /\ Coming = Lines(l, n)
    BY <1>8 DEF Arriving
  <2>2a. PICK n \in 0 .. Len(l) : list.channels = SubSeq(l, 1, n) /\ Coming = Lines(l, n)
    BY <2>2
  <2>3. list' = Filled(m) /\ m = Lines(l, n)[1] /\ t = Tail(Lines(l, n))
    BY <1>2, <1>4, <1>8, <2>1, <2>2a
  <2>4. Len(l) \in Nat
    BY LinesIs
  <2>5. CASE n < Len(l)
    <3>1. /\ m = Message("322", Empty, <<l[n + 1]>>) /\ t = Lines(l, n + 1)
          /\ SubSeq(l, 1, n) \o <<l[n + 1]>> = SubSeq(l, 1, n + 1)
      BY <2>3, <2>5, LinesIs, Zenon
    <3>2. m.cmd = "322" /\ m.arg = <<l[n + 1]>>
      BY <3>1, MessageIs
    <3>3. list' = [complete |-> FALSE, channels |-> list.channels \o m.arg]
      BY <1>5, <2>1, <2>3, <3>2, Zenon DEF Filled
    <3>4. list'.complete = FALSE /\ list'.channels = SubSeq(l, 1, n + 1) /\ Fills'
      <4>1. list'.complete = FALSE /\ list'.channels = list.channels \o m.arg
        BY <3>3, Zenon
      <4>2. list.channels \o m.arg = SubSeq(l, 1, n + 1)
        BY ONLY <2>2a, <3>1, <3>2, Zenon
      <4>3. Fills'
        BY <1>4, <2>1, <3>2
      <4> QED BY <4>1, <4>2, <4>3, Zenon
    <3>5. n + 1 \in 0 .. Len(l)
      BY <2>4, <2>5
    <3>6. /\ ~list'.complete /\ LISTs' = <<>>
          /\ list'.channels = SubSeq(l, 1, n + 1) /\ Coming' = Lines(l, n + 1)
      BY <1>3, <2>1, <3>1, <3>4, Zenon
    <3> HIDE DEF Lines
    <3>7. Arriving'
      <4>1. \A k : Lines(l, k)' = Lines(l, k)
        BY DEF Lines, Message
      <4> QED BY <3>5, <3>6, <4>1, SMTT(20) DEF Arriving, Lines, Message
    <3> QED BY <1>1, <1>2, <3>3, <3>4, <3>7, Zenon DEF ListInv
  <2>6. CASE n = Len(l)
    <3>1. m = Message("323", Empty, <<>>) /\ t = <<>> /\ SubSeq(l, 1, n) = l
      BY <2>3, <2>6, LinesIs, Zenon
    <3>2. m.cmd = "323"
      BY <3>1, MessageIs
    <3>3. list' = [complete |-> TRUE, channels |-> l]
      BY <1>5, <2>1, <2>2a, <2>3, <3>1, <3>2, Zenon DEF Filled
    <3>4. list'.complete = TRUE /\ list'.channels = l /\ ~Fills'
      BY <1>4, <3>2, <3>3
    <3>5. Cached'
      BY <1>3, <2>1, <3>1, <3>4 DEF Cached
    <3> QED BY <1>1, <1>2, <3>3, <3>4, <3>5, Zenon DEF ListInv
  <2> QED BY <2>4, <2>5, <2>6
<1> QED BY <1>2, <1>6, <1>7, <1>8, Zenon

\* The invariant holds at first, ...
LEMMA ListInit == Init => ListInv
<1> SUFFICES ASSUME Init PROVE ListInv
  OBVIOUS
<1>1. /\ todo = <<>> /\ say = <<>> /\ waiting = <<>>
      /\ list = [complete |-> TRUE, channels |-> <<>>]
  BY DEF Init
<1>2. LISTs = <<>> /\ Coming = <<>>
  BY <1>1, FilterEmpty DEF LISTs, Coming
<1>3. ~Fills
  BY <1>1 DEF Fills
<1>4. todo \in Seq(Commands) /\ say \in Seq(Messages)
  BY <1>1
<1> HIDE DEF LISTs, Coming, Fills
<1>5. Cached
  BY <1>1, <1>2 DEF Cached
<1> QED BY <1>1, <1>3, <1>4, <1>5 DEF ListInv

\* ... and every step keeps it.
LEMMA ListStep == AnswerInv /\ ListInv /\ [Next]_vars => ListInv'
\* What waits after a callback has been added.
<1>FillsAppend. ASSUME NEW s \in Seq(Callbacks), NEW cb \in Callbacks, waiting' = Append(s, cb)
                PROVE  Fills' <=> (\E x \in Range(s) : x.kind = "fill") \/ cb.kind = "fill"
  <2> USE <1>FillsAppend
  <2>1. Range(waiting') = Range(s) \cup {cb} /\ waiting' \in Seq(Callbacks)
    BY RangeAppend
  <2>2. Fills' <=> \E x \in Range(waiting') : x.kind = "fill"
    BY <2>1, RangeSeq DEF Fills
  <2> QED BY <2>1, <2>2
\* The functions of Bridge other than the one for lists.
<1>HandlerList. ASSUME AnswerInv, ListInv, NEW i \in Iq, NEW d,
                       UNCHANGED <<phase, client, list, say>>,
                       \/ UNCHANGED <<waiting, todo>>
                       \/ phase # "out" /\ \E r \in Request : Later(i, r, d)
                PROVE  ListInv'
  <2> USE <1>HandlerList
  <2>1. /\ waiting \in Seq(Callbacks) /\ client \in Nat /\ todo \in Seq(Commands) /\ say \in Seq(Messages)
        /\ phase = "out" => todo = <<>> /\ say = <<>>
    BY DEF AnswerInv, ListInv
  <2>2. CASE UNCHANGED <<waiting, todo>>
    <3>1. LISTs' = LISTs /\ Coming' = Coming /\ (Fills' <=> Fills)
      BY <2>2 DEF LISTs, Coming, Fills
    <3> QED BY <2>1, <2>2, <3>1, ListSame
  <2>3. ASSUME phase # "out", NEW r \in Request, Later(i, r, d) PROVE ListInv'
    <3> DEFINE c == Message(r.kind, r.nick, <<i>>)
               cb == Callback(r.kind, i, r)
    <3>1. r.kind \in {"kick", "role", "ping", "version"} /\ r.nick \in Nick
      <4>1. PICK a \in Asked : r = [kind |-> a.kind, nick |-> a.nick, after |-> Empty, max |-> 0]
        BY Zenon DEF Request
      <4> QED BY <4>1, RequestsAssumptions, Zenon
    <3>2. c \in Commands /\ c.cmd # "LIST"
      BY <3>1, MessageIs
    <3>3. cb \in Callbacks /\ cb.kind # "fill"
      <4>1. r.kind \in Kinds
        BY <3>1 DEF Kinds
      <4>2. cb \in Callbacks
        BY <2>1, <4>1, CallbackIs
      <4> QED BY <3>1, <4>2 DEF Callback
    <3>4. todo' = Append(todo, c) /\ waiting' = Append(waiting, cb)
      BY <2>3, Zenon DEF Later
    <3> HIDE DEF c, cb
    <3>5. LISTs' = LISTs
      <4>1. Filter(Append(todo, c), ListCommands) = Filter(todo, ListCommands)
        BY <2>1, <3>2, FilterAppend DEF ListCommands
      <4> QED BY <3>4, <4>1 DEF LISTs, ListCommands, Commands
    <3>6. Fills' <=> Fills
      BY <2>1, <3>3, <3>4, FillsIs, <1>FillsAppend, Zenon
    <3>7. Coming' = Coming
      BY DEF Coming, ListMessages, Messages
    <3>8. todo' \in Seq(Commands)
      BY <2>1, <3>2, <3>4
    <3> QED BY <2>1, <2>3, <3>5, <3>6, <3>7, <3>8, ListSame, Zenon
  <2> QED BY <2>2, <2>3
\* send_irc_channel_list_request(): a LIST is sent only when no other is under
\* way.
<1>AskListList. ASSUME AnswerInv, ListInv, NEW i \in Iq, NEW d, NEW r \in ListRequest, AskList(i, r, d)
                PROVE  ListInv'
  <2> USE <1>AskListList
  <2>1. /\ waiting \in Seq(Callbacks) /\ client \in Nat /\ todo \in Seq(Commands) /\ say \in Seq(Messages)
        /\ phase = "out" => todo = <<>> /\ say = <<>>
        /\ UNCHANGED <<phase, client, say>>
    BY DEF AnswerInv, ListInv, AskList
  <2> DEFINE fill == Callback("fill", i, r)
             cb == Callback("list", i, r)
             c == Message("LIST", Empty, <<i>>)
  <2>2. fill \in Callbacks /\ cb \in Callbacks
    BY <2>1, CallbackIs DEF Kinds
  <2>3. fill.kind = "fill" /\ cb.kind = "list"
    BY ZenonT(30) DEF Callback
  <2>4. c \in Commands /\ c.cmd = "LIST"
    BY MessageIs
  <2>5. Coming' = Coming
    BY <2>1 DEF Coming, ListMessages, Messages
  <2> HIDE DEF fill, cb, c
  <2>6. CASE UNCHANGED <<waiting, todo, list>>
    BY <2>1, <2>6, <1>HandlerList, Zenon
  <2>7. CASE /\ list.complete /\ phase # "out" /\ todo' = Append(todo, c)
             /\ list' = [complete |-> FALSE, channels |-> <<>>]
             /\ waiting' = waiting \o <<fill, cb>>
    <3>1. LISTs = <<>> /\ Coming = <<>>
      BY <2>7 DEF ListInv, Cached, Broken, Requested, Refused, Arriving
    <3>2. Len(LISTs') = 1
      <4>1. Filter(Append(todo, c), ListCommands) = Append(Filter(todo, ListCommands), c)
        BY <2>1, <2>4, FilterAppend, SMTT(20) DEF ListCommands
      <4>2. LISTs' = Append(LISTs, c)
        BY <2>7, <4>1 DEF LISTs, ListCommands, Commands
      <4> HIDE DEF LISTs
      <4> QED BY <3>1, <4>2
    <3>3. Fills'
      <4> DEFINE s == Append(waiting, fill)
      <4>1. s \in Seq(Callbacks) /\ waiting' = Append(s, cb) /\ fill \in Range(s)
        BY <2>1, <2>2, <2>7, RangeAppend
      <4> HIDE DEF s
      <4> QED BY <2>2, <2>3, <4>1, <1>FillsAppend, Zenon
    <3>4. todo' \in Seq(Commands) /\ say' \in Seq(Messages) /\ phase' # "out"
      BY <2>1, <2>4, <2>7
    <3>5. list'.complete = FALSE /\ list'.channels = <<>>
      BY <2>7
    <3> HIDE DEF LISTs, Coming, Fills
    <3>6. Requested'
      BY <2>5, <3>1, <3>2, <3>5 DEF Requested
    <3> QED BY <2>7, <3>3, <3>4, <3>5, <3>6, Zenon DEF ListInv
  <2>8. CASE waiting' = Append(waiting, cb) /\ UNCHANGED <<todo, list>>
    <3>1. Fills' <=> Fills
      BY <2>1, <2>2, <2>3, <2>8, FillsIs, <1>FillsAppend
    <3>2. LISTs' = LISTs
      BY <2>8 DEF LISTs, ListCommands, Commands
    <3> QED BY <2>1, <2>5, <2>8, <3>1, <3>2, ListSame
  <2>9. NeedsList(r) => list.complete
    BY DEF NeedsList
  <2> QED BY <2>6, <2>7, <2>8, <2>9, Zenon DEF AskList, Throws, fill, cb, c
\* handle_iq() and handle_message().
<1>AsksList. ASSUME AnswerInv, ListInv, Asks PROVE ListInv'
  <2> USE <1>AsksList
  <2>1. PICK i \in Iq, h \in AllHandled :
          \/ AskNow(i, h.kind, h.effect)
          \/ AskIq(i, h.effect)
    BY DEF Asks
  <2> DEFINE d == h.effect
  <2> HIDE DEF d
  <2>2. ASSUME UNCHANGED <<phase, client, list, say>>,
               \/ UNCHANGED <<waiting, todo>>
               \/ phase # "out" /\ \E r \in Request : Later(i, r, d)
        PROVE  ListInv'
    BY <2>2, <1>HandlerList
  <2>3. CASE AskNow(i, h.kind, d)
    BY <2>2, <2>3 DEF AskNow
  <2>4. ASSUME NEW r \in Request, Ask(i, r, d) PROVE ListInv'
    BY <2>2, <2>4 DEF Ask, Throws
  <2>5. ASSUME NEW r \in Request, AskRole(i, r, d) PROVE ListInv'
    BY <2>2, <2>5 DEF AskRole, Throws, Silence, Now
  <2>6. ASSUME NEW r \in Request, AskParticipant(i, r, d) PROVE ListInv'
    BY <2>2, <2>6 DEF AskParticipant, Throws, Now
  <2>7. CASE AskSelf(i, d)
    BY <2>2, <2>7 DEF AskSelf, Throws, Now
  <2>8. ASSUME NEW r \in ListRequest, AskList(i, r, d) PROVE ListInv'
    BY <2>8, <1>AskListList
  <2>9. CASE AskIq(i, d)
    BY <2>4, <2>5, <2>6, <2>7, <2>8, <2>9, Zenon DEF AskIq
  <2> QED BY <2>1, <2>3, <2>9, Zenon DEF d
\* A message that is not part of a list is sent.
<1>SaysOther. ASSUME ListInv, NEW x \in Messages, x.cmd \notin {"263", "322", "323"},
                     say' = Append(say, x)
              PROVE  say' \in Seq(Messages) /\ Coming' = Coming
  <2> USE <1>SaysOther
  <2>1. say \in Seq(Messages) /\ x \notin ListMessages
    BY DEF ListInv, ListMessages
  <2>2. Filter(Append(say, x), ListMessages) = Filter(say, ListMessages)
    BY <2>1, FilterAppend
  <2> QED BY <2>1, <2>2 DEF Coming, ListMessages, Messages
\* The server takes a command and answers it; a LIST with the list that it has,
\* or a refusal.
<1>ServerAnswersList. ASSUME ListInv, ServerAnswers PROVE ListInv'
  <2> USE <1>ServerAnswersList
  <2> DEFINE c == Head(todo)
             t == Filter(Tail(todo), ListCommands)
  <2>1. /\ todo # <<>> /\ todo' = Tail(todo) /\ UNCHANGED <<phase, list, waiting>>
        /\ todo \in Seq(Commands) /\ say \in Seq(Messages) /\ phase # "out"
        /\ list = [complete |-> list.complete, channels |-> list.channels] /\ list.complete \in BOOLEAN
        /\ Fills <=> ~list.complete
    BY DEF ServerAnswers, ListInv
  <2>2. /\ c \in Commands /\ todo' \in Seq(Commands) /\ t \in Seq(Commands)
        /\ LISTs = IF c \in ListCommands THEN <<c>> \o t ELSE t
    BY <2>1, FilterHead DEF LISTs
  <2>3. LISTs' = t /\ (Fills' <=> Fills)
    BY <2>1 DEF LISTs, ListCommands, Commands, Fills
  <2>4. /\ c.nick \in Nick \cup {Empty} /\ c.arg \in Seq(STRING)
        /\ c.cmd \in {"kick", "role", "ping", "version", "LIST"}
    <3> HIDE DEF c
    <3>1. /\ c.nick \in Nick \cup {Empty} /\ c.arg \in {<<i>> : i \in Iq}
          /\ c.cmd \in {"kick", "role", "ping", "version", "LIST"}
      BY <2>2 DEF Commands
    <3>2. PICK i \in Iq : c.arg = <<i>>
      BY <3>1, Zenon
    <3> QED BY <3>1, <3>2, MessageIs, Zenon
  <2>5. /\ c.cmd # "LIST" =>
             \E cmd \in {"401", "482", "472", "KICK", "MODE", "PING", "VERSION"}, nick \in Nick \cup {Own, Empty},
                arg \in Seq(STRING) : say' = Append(say, Message(cmd, nick, arg))
        /\ c.cmd = "LIST" =>
             \/ say' = Append(say, Message("263", c.nick, c.arg))
             \/ \E l \in Listings :
                  say' = say \o [k \in 1..Len(l) |-> Message("322", Empty, <<l[k]>>)]
                             \o <<Message("323", Empty, <<>>)>>
    <3>1. <<>> \in Seq(STRING)
      BY MessageIs
    <3> QED BY <2>4, <3>1, Zenon DEF ServerAnswers
  <2> HIDE DEF c, t, LISTs, Fills
  <2>6. CASE c.cmd # "LIST"
    <3>1. PICK cmd \in {"401", "482", "472", "KICK", "MODE", "PING", "VERSION"}, nick \in Nick \cup {Own, Empty},
               arg \in Seq(STRING) : say' = Append(say, Message(cmd, nick, arg))
      BY <2>5, <2>6, Zenon
    <3>2. Message(cmd, nick, arg) \in Messages /\ Message(cmd, nick, arg).cmd \notin {"263", "322", "323"}
      BY MessageIs DEF Numerics, Verbs
    <3>3. say' \in Seq(Messages) /\ Coming' = Coming
      BY <3>1, <3>2, <1>SaysOther
    <3>4. LISTs' = LISTs
      BY <2>2, <2>3, <2>6 DEF ListCommands
    <3> QED BY <2>1, <2>2, <2>3, <3>3, <3>4, ListSame
  <2>7. CASE c.cmd = "LIST"
    <3>1. LISTs = <<c>> \o t
      BY <2>2, <2>7 DEF ListCommands
    <3>2. LISTs # <<>>
      BY <2>2, <3>1
    <3>3. Requested
      BY <3>2 DEF ListInv, Cached, Broken, Refused, Arriving
    <3>4. ~list.complete /\ Coming = <<>> /\ list.channels = <<>> /\ Len(LISTs) = 1
      BY <3>3 DEF Requested
    <3>5. t = <<>>
      BY <2>2, <3>1, <3>4
    <3>6. ~list'.complete /\ list'.channels = <<>> /\ LISTs' = <<>> /\ Fills'
      BY <2>1, <2>3, <3>4, <3>5
    <3>7. CASE say' = Append(say, Message("263", c.nick, c.arg))
      <4> DEFINE x == Message("263", c.nick, c.arg)
      <4>1. x \in Messages /\ x.cmd = "263"
        BY <2>4, MessageIs DEF Numerics
      <4>2. say' = Append(say, x) /\ x \in ListMessages
        BY <3>7, <4>1 DEF ListMessages
      <4> HIDE DEF x
      <4>3. Filter(Append(say, x), ListMessages) = Append(Filter(say, ListMessages), x)
        BY <2>1, <4>1, <4>2, FilterAppend
      <4>4. Coming' = Append(Coming, x)
        BY <4>2, <4>3 DEF Coming, ListMessages, Messages
      <4> HIDE DEF Coming
      <4>5. Len(Coming') = 1 /\ Coming'[1] = x
        BY <3>4, <4>4
      <4>6. Refused'
        BY <3>6, <4>1, <4>5 DEF Refused
      <4>7. say' \in Seq(Messages)
        BY <2>1, <4>1, <4>2, SMTT(20)
      <4> QED BY <2>1, <2>2, <3>6, <4>6, <4>7, Zenon DEF ListInv
    <3>8. ASSUME NEW l \in Listings,
                 say' = say \o [k \in 1..Len(l) |-> Message("322", Empty, <<l[k]>>)]
                            \o <<Message("323", Empty, <<>>)>>
          PROVE  ListInv'
      <4> DEFINE a == [k \in 1..Len(l) |-> Message("322", Empty, <<l[k]>>)]
                 e == Message("323", Empty, <<>>)
                 u == Lines(l, 0)
                 N == Len(l)
      <4>1. 0 \in 0 .. N /\ N \in Nat /\ SubSeq(l, 1, 0) = <<>>
        <5>1. l \in Seq(STRING)
          BY RequestsAssumptions
        <5> QED BY <5>1
      <4>2. u \in Seq(ListMessages)
        BY <4>1, LinesIs, Zenon
      <4>3. u = [k \in 1 .. N + 1 |-> IF k <= N THEN Message("322", Empty, <<l[k]>>) ELSE e]
        <5>1. N - 0 = N /\ \A k \in 1 .. N : 0 + k = k
          BY <4>1
        <5> QED BY <5>1 DEF Lines
      <4>4. Len(u) = N + 1 /\ u[N + 1] = e /\ \A k \in 1 .. N : u[k] = a[k]
        <5>1. \A k \in 1 .. N : a[k] = Message("322", Empty, <<l[k]>>)
          OBVIOUS
        <5> HIDE DEF a, e, u, N
        <5>2. Len(u) = N + 1
          BY <4>1, <4>2, <4>3
        <5>3. N + 1 \in 1 .. N + 1 /\ ~(N + 1 <= N) /\ \A k \in 1 .. N : k \in 1 .. N + 1 /\ k <= N
          BY <4>1
        <5>4. u[N + 1] = e
          BY <4>3, <5>3, Zenon
        <5>5. \A k \in 1 .. N : u[k] = Message("322", Empty, <<l[k]>>)
          BY <4>3, <5>3
        <5> QED BY <5>1, <5>2, <5>4, <5>5, Zenon
      <4>5. a \in Seq(ListMessages) /\ Len(a) = N /\ e \in ListMessages
        <5>1. \A k \in 1 .. N + 1 : u[k] \in ListMessages
          BY <4>2, <4>4
        <5>2. \A k \in 1 .. N : a[k] \in ListMessages
          BY <4>1, <4>4, <5>1
        <5>3. e \in ListMessages
          BY <4>1, <4>4, <5>1
        <5>4. a = [k \in 1 .. N |-> a[k]]
          OBVIOUS
        <5> HIDE DEF a, N
        <5> QED BY <4>1, <5>2, <5>3, <5>4
      <4> HIDE DEF a, e, u, N
      <4>6. a \o <<e>> = u
        <5>1. <<e>> \in Seq(ListMessages) /\ Len(<<e>>) = 1 /\ <<e>>[1] = e
          BY <4>5
        <5>2. /\ a \o <<e>> \in Seq(ListMessages) /\ Len(a \o <<e>>) = N + 1
              /\ \A k \in 1 .. N : (a \o <<e>>)[k] = a[k]
              /\ (a \o <<e>>)[N + 1] = e
          BY <4>1, <4>5, <5>1
        <5>3. \A k \in 1 .. N + 1 : (a \o <<e>>)[k] = u[k]
          BY <4>1, <4>4, <5>2
        <5> QED BY <4>2, <4>4, <5>2, <5>3
      <4>7. ListMessages \subseteq Messages
        BY DEF ListMessages
      <4>8. a \in Seq(Messages) /\ <<e>> \in Seq(Messages) /\ u \in Seq(Messages)
        BY <4>2, <4>5, <4>7
      <4>9. say' = say \o u
        <5>1. say' = (say \o a) \o <<e>>
          BY <3>8 DEF a, e
        <5>2. (say \o a) \o <<e>> = say \o (a \o <<e>>)
          BY ONLY <2>1, <4>8, SMTT(20)
        <5> QED BY <4>6, <5>1, <5>2, Zenon
      <4>10. Filter(say \o u, ListMessages) = Filter(say, ListMessages) \o u
        <5>1. Filter(say \o u, ListMessages) = Filter(say, ListMessages) \o Filter(u, ListMessages)
          BY ONLY <2>1, <4>8, FilterConcat, SMTT(20)
        <5>2. Range(u) \subseteq ListMessages
          BY <4>2, RangeSeq
        <5>3. Filter(u, ListMessages) = u
          BY ONLY <4>8, <5>2, FilterAll
        <5> QED BY <5>1, <5>3
      <4>11. Coming' = u
        <5>1. Coming' = Coming \o u
          BY <4>9, <4>10 DEF Coming, ListMessages, Messages
        <5> HIDE DEF Coming
        <5>2. <<>> \o u = u
          BY <4>8
        <5> QED BY <3>4, <5>1, <5>2
      <4>12. Arriving'
        <5>1. /\ ~list'.complete /\ LISTs' = <<>> /\ 0 \in 0 .. Len(l)
              /\ list'.channels = SubSeq(l, 1, 0) /\ Coming' = Lines(l, 0)
          BY <3>6, <4>1, <4>11 DEF u, N
        <5> HIDE DEF Coming
        <5> QED BY <5>1 DEF Arriving, Lines, Message
      <4>13. say' \in Seq(Messages)
        BY <2>1, <4>8, <4>9, SMTT(20)
      <4> QED BY <2>1, <2>2, <3>6, <4>12, <4>13 DEF ListInv
    <3> QED BY <2>5, <2>7, <3>7, <3>8, Zenon
  <2> QED BY <2>6, <2>7, Zenon
\* Nothing is on its way: the connection has been lost, or is new.
<1>LostList. ASSUME ListInv, Lost PROVE ListInv'
  <2> USE <1>LostList
  <2>1. /\ todo' = <<>> /\ say' = <<>> /\ list' = list /\ waiting' = waiting
        /\ list = [complete |-> list.complete, channels |-> list.channels] /\ list.complete \in BOOLEAN
        /\ Fills <=> ~list.complete
    BY DEF Lost, ListInv
  <2>2. LISTs' = <<>> /\ Coming' = <<>>
    BY <2>1, FilterEmpty DEF LISTs, Coming
  <2>3. Fills' <=> Fills
    BY <2>1 DEF Fills
  <2>4. todo' \in Seq(Commands) /\ say' \in Seq(Messages)
    BY <2>1
  <2>5. list.complete => list.channels = <<>> \/ list.channels \in Listings
    BY DEF ListInv, Cached, Broken, Requested, Refused, Arriving
  <2> HIDE DEF LISTs, Coming, Fills
  <2>6. Cached' \/ Broken'
    BY <2>1, <2>2, <2>5 DEF Cached, Broken
  <2> QED BY <2>1, <2>3, <2>4, <2>6, Zenon DEF ListInv
\* The connection is made again.
<1>ReconnectedList. ASSUME ListInv, Reconnected PROVE ListInv'
  <2> USE <1>ReconnectedList
  <2> DEFINE x == Message("001", Empty, <<>>)
  <2>1. /\ todo = <<>> /\ say = <<>> /\ say' = <<x>> /\ phase' # "out"
        /\ UNCHANGED <<list, waiting, todo>> /\ todo \in Seq(Commands)
    BY DEF Reconnected, ListInv
  <2>2. x \in Messages /\ x.cmd \notin {"263", "322", "323"}
    <3>1. "001" \in Numerics \cup Verbs
      BY Zenon DEF Numerics
    <3>2. x \in Messages
      BY <3>1, MessageIs, Zenon
    <3>3. x.cmd = "001"
      BY DEF Message
    <3> HIDE DEF x
    <3> QED BY <3>2, <3>3
  <2> HIDE DEF x
  <2>3. say' = Append(say, x)
    BY <2>1
  <2>4. say' \in Seq(Messages) /\ Coming' = Coming
    BY <2>2, <2>3, <1>SaysOther
  <2>5. LISTs' = LISTs /\ (Fills' <=> Fills)
    BY <2>1 DEF LISTs, ListCommands, Commands, Fills
  <2> QED BY <2>1, <2>4, <2>5, ListSame, Zenon
\* The user joins the channel again: three messages, none of a list.
<1>ServerJoinsList. ASSUME ListInv, ServerJoins PROVE ListInv'
  <2> USE <1>ServerJoinsList
  <2> DEFINE x == Message("JOIN", Own, <<>>)
             y == Message("353", Empty, Nick)
             z == Message("366", Empty, <<>>)
             t == <<x, y, z>>
  <2>1. /\ say = <<>> /\ say' = t /\ phase' # "out"
        /\ UNCHANGED <<list, waiting, todo>> /\ todo \in Seq(Commands)
    BY DEF ServerJoins, ListInv
  <2>2. x \in Messages /\ y \in Messages /\ z \in Messages
    BY MessageIs, Zenon DEF Numerics, Verbs
  <2>3. x \notin ListMessages /\ y \notin ListMessages /\ z \notin ListMessages
    BY MessageIs DEF ListMessages
  <2> HIDE DEF x, y, z
  <2>4. t \in Seq(Messages) /\ Len(t) = 3 /\ \A k \in 1 .. 3 : t[k] \notin ListMessages
    BY <2>2, <2>3
  <2> HIDE DEF t
  <2>5. Range(t) \cap ListMessages = {}
    BY <2>4, RangeSeq
  <2>6. Filter(t, ListMessages) = <<>>
    BY <2>4, <2>5, FilterNone
  <2>7. Coming = <<>>
    BY <2>1, FilterEmpty, Zenon DEF Coming
  <2>8. Coming' = Coming
    BY <2>1, <2>6, <2>7, Zenon DEF Coming, ListMessages, Messages
  <2>9. LISTs' = LISTs /\ (Fills' <=> Fills)
    BY <2>1 DEF LISTs, ListCommands, Commands, Fills
  <2> QED BY <2>1, <2>4, <2>8, <2>9, ListSame, Zenon
\* What the server sends unasked is not part of a list.
<1>ServerNoiseList. ASSUME ListInv, ServerNoise PROVE ListInv'
  <2> USE <1>ServerNoiseList
  <2>1. PICK m \in Unasked : say' = Append(say, m)
    BY DEF ServerNoise
  <2>2. /\ phase' = phase /\ phase # "out" /\ UNCHANGED <<list, waiting, todo>>
        /\ todo \in Seq(Commands)
    BY DEF ServerNoise, ListInv
  <2>3. m \in Messages /\ m.cmd \notin {"263", "322", "323"}
    <3>1. \E cmd \in {"PRIVMSG", "MODE", "KICK", "CTCP"}, nick \in Nick \cup {Empty},
             arg \in {<<>>} \cup PingId : m = Message(cmd, nick, arg)
      BY DEF Unasked
    <3>2. PICK cmd \in {"PRIVMSG", "MODE", "KICK", "CTCP"}, nick \in Nick \cup {Empty},
               arg \in {<<>>} \cup PingId : m = Message(cmd, nick, arg)
      BY <3>1, Zenon
    <3>3. cmd \in Verbs /\ arg \in Seq(STRING) \cup PingId
      BY MessageIs, Zenon DEF Verbs
    <3>4. m \in Messages
      BY <3>2, <3>3, MessageIs
    <3>5. m.cmd = cmd
      BY <3>2, MessageIs
    <3> QED BY <3>4, <3>5
  <2>4. say' \in Seq(Messages) /\ Coming' = Coming
    BY <2>1, <2>3, <1>SaysOther
  <2>5. LISTs' = LISTs /\ (Fills' <=> Fills)
    BY <2>2 DEF LISTs, ListCommands, Commands, Fills
  <2> QED BY <2>2, <2>4, <2>5, ListSame
<1> SUFFICES ASSUME AnswerInv, ListInv, [Next]_vars PROVE ListInv'
  OBVIOUS
<1>1. ASSUME UNCHANGED <<phase, list, waiting, todo, say>> PROVE ListInv'
  <2>1. LISTs' = LISTs /\ Coming' = Coming /\ (Fills' <=> Fills)
    BY <1>1 DEF LISTs, ListCommands, Commands, Coming, ListMessages, Messages, Fills
  <2>2. /\ todo' \in Seq(Commands) /\ say' \in Seq(Messages) /\ list' = list
        /\ phase' = "out" => todo' = <<>> /\ say' = <<>>
    BY <1>1 DEF ListInv
  <2> QED BY <2>1, <2>2, ListSame, ZenonT(30)
<1>2. ASSUME NEW n, NEW p, OnPingResult(n, p) PROVE ListInv'
  BY <1>1, <1>2 DEF OnPingResult, srvVars
<1>3. CASE UNCHANGED vars
  BY <1>1, <1>3 DEF vars, srvVars
<1> QED BY <1>2, <1>3, <1>AsksList, ReceiveList, <1>LostList, <1>ReconnectedList, <1>ServerAnswersList,
           <1>ServerJoinsList, <1>ServerNoiseList, Zenon DEF Next

\* send_matching_channel_list(), from the cache that send_irc_channel_list_request()
\* fills: once the list is complete it is one that the server gave, and a client
\* that asks page after page is given every channel of it once, whatever the size
\* of its pages, the losses of the connection and the other requests.
THEOREM PagesAlwaysCover == Spec => []PagesCoverList
\* A page that is not empty ends later than it starts, and what follows its last
\* channel is the rest of the list.
<1>PageStep. ASSUME NEW l, IsListing(l), NEW max \in Nat \ {0}, NEW c
             PROVE  LET p == Page(l, c, max)
                        rest == SubSeq(l, Index(l, c) + 1, Len(l))
                    IN  /\ Index(l, c) = Len(l) => p = <<>> /\ rest = <<>>
                        /\ Index(l, c) < Len(l) =>
                             /\ p # <<>> /\ Last(p) \in Range(l) /\ Index(l, Last(p)) > Index(l, c)
                             /\ p \o SubSeq(l, Index(l, Last(p)) + 1, Len(l)) = rest
  <2> USE <1>PageStep
  <2> DEFINE i == Index(l, c)
             n == Len(l)
             last == IF n - (i + 1) + 1 >= max THEN i + 1 + max - 1 ELSE n
             p == Page(l, c, max)
  <2>1. /\ l \in Seq(STRING) /\ n \in Nat /\ i \in 0 .. n
        /\ \A k \in 1 .. n : Index(l, l[k]) = k
    BY IndexIs DEF IsListing
  <2>2. p = SubSeq(l, i + 1, last)
    BY DEF Page
  <2> HIDE DEF i, p
  <2>3. CASE i = n
    <3>1. last = n
      BY <2>1, <2>3
    <3> HIDE DEF last
    <3>2. SubSeq(l, n + 1, n) = <<>>
      BY <2>1
    <3>3. p = <<>> /\ SubSeq(l, i + 1, n) = <<>> /\ ~(i < n)
      BY <2>1, <2>2, <2>3, <3>1, <3>2, SMTT(20)
    <3> QED BY <3>3 DEF i, p
  <2>4. CASE i < n
    <3>1. last \in i + 1 .. n /\ last \in Nat /\ i <= last /\ last <= n
      BY <2>1, <2>4
    <3> HIDE DEF last
    <3>2. Len(p) = last - i /\ p \in Seq(STRING) /\ \A k \in 1 .. last - i : p[k] = l[i + k]
      BY <2>1, <2>2, <3>1
    <3>3. p # <<>> /\ Last(p) = l[last]
      <4>1. last - i \in 1 .. last - i /\ i + (last - i) = last
        BY <2>1, <3>1
      <4> QED BY <3>2, <4>1 DEF Last
    <3>4. last \in 1 .. n /\ Index(l, Last(p)) = last /\ last > i
      BY <2>1, <3>1, <3>3
    <3>5. Last(p) \in Range(l)
      BY <2>1, <3>3, <3>4, RangeSeq
    <3>6. p \o SubSeq(l, last + 1, n) = SubSeq(l, i + 1, n)
      <4>1. i \in Nat /\ n <= Len(l)
        BY <2>1
      <4> QED BY <2>1, <2>2, <3>1, <4>1, SubSeqSplit
    <3>7. i # n
      BY <2>1, <2>4
    <3> QED BY <3>3, <3>4, <3>5, <3>6, <3>7, Zenon DEF i, p
  <2>5. i = n \/ i < n
    BY <2>1
  <2> QED BY <2>3, <2>4, <2>5, Zenon
\* Page after page, the whole list is read, once, whatever the size of a page.
<1>WalkIs. ASSUME NEW l, IsListing(l), NEW max \in Nat \ {0}
           PROVE  Walk(l, max) = l
  <2> USE <1>WalkIs
  <2> DEFINE D == Range(l) \cup {Empty}
             Rest(c) == SubSeq(l, Index(l, c) + 1, Len(l))
             g == CHOOSE f : Pages(f, l, max)
  <2>1. /\ \A c : Index(l, c) \in 0 .. Len(l)
        /\ Index(l, Empty) = 0 /\ Len(l) \in Nat /\ l \in Seq(STRING)
    BY IndexIs DEF IsListing
  <2>2. ASSUME NEW c
        PROVE  /\ Index(l, c) = Len(l) => Page(l, c, max) = <<>> /\ Rest(c) = <<>>
               /\ Index(l, c) < Len(l) =>
                    /\ Page(l, c, max) # <<>> /\ Last(Page(l, c, max)) \in D
                    /\ Index(l, Last(Page(l, c, max))) > Index(l, c)
                    /\ Page(l, c, max) \o Rest(Last(Page(l, c, max))) = Rest(c)
    BY <1>PageStep, Zenon
  <2>3. \A c : Index(l, c) = Len(l) \/ Index(l, c) < Len(l)
    BY <2>1
  <2> HIDE DEF Rest, D
  <2>4. Pages([c \in D |-> Rest(c)], l, max)
    <3> DEFINE f == [c \in D |-> Rest(c)]
               e == [c \in D |-> LET p == Page(l, c, max) IN IF p = <<>> THEN <<>> ELSE p \o f[Last(p)]]
    <3>1. ASSUME NEW c \in D
          PROVE  f[c] = LET p == Page(l, c, max) IN IF p = <<>> THEN <<>> ELSE p \o f[Last(p)]
      BY <2>2, <2>3
    <3>2. f = e
      BY <3>1, Zenon
    <3> QED BY <3>2, Zenon DEF Pages, D
  <2>5. Pages(g, l, max)
    BY <2>4
  <2> HIDE DEF g
  <2>6. ASSUME NEW c \in D
        PROVE  g[c] = LET p == Page(l, c, max) IN IF p = <<>> THEN <<>> ELSE p \o g[Last(p)]
    BY <2>5, Zenon DEF Pages, D
  <2>7. ASSUME NEW c \in D PROVE g[c] = Rest(c)
    <3> DEFINE T == {n \in Nat : \E x \in D : Len(l) - Index(l, x) = n /\ g[x] # Rest(x)}
    <3> SUFFICES ASSUME g[c] # Rest(c) PROVE FALSE
      OBVIOUS
    <3>1. T # {} /\ T \in SUBSET Nat
      <4>1. Len(l) - Index(l, c) \in Nat
        BY <2>1
      <4> QED BY <4>1
    <3>2. PICK n \in T : \A m \in T : n <= m
      <4> HIDE DEF T
      <4> QED BY <3>1, LeastNumber
    <3>3. PICK x \in D : Len(l) - Index(l, x) = n /\ g[x] # Rest(x)
      BY <3>2
    <3>4. Index(l, x) < Len(l)
      <4>1. Index(l, x) = Len(l) => g[x] = Rest(x)
        BY <2>2, <2>6, Zenon
      <4> QED BY <2>3, <3>3, <4>1, Zenon
    <3> DEFINE y == Last(Page(l, x, max))
    <3>5. y \in D /\ Index(l, y) > Index(l, x) /\ g[x] = Page(l, x, max) \o g[y]
          /\ Page(l, x, max) \o Rest(y) = Rest(x)
      BY <2>2, <2>6, <3>4, Zenon
    <3> HIDE DEF y
    <3>6. g[y] # Rest(y)
      BY <3>3, <3>5, Zenon
    <3>7. Len(l) - Index(l, y) \in Nat /\ Len(l) - Index(l, y) < n
      BY <2>1, <3>3, <3>5
    <3>8. Len(l) - Index(l, y) \in T
      BY <3>5, <3>6, <3>7
    <3> HIDE DEF T
    <3> QED BY <2>1, <3>1, <3>2, <3>7, <3>8
  <2>8. Walk(l, max) = g[Empty]
    BY DEF Walk, Pages, g
  <2>9. Rest(Empty) = l
    BY <2>1 DEF Rest
  <2>10. g[Empty] = Rest(Empty)
    BY <2>7 DEF D
  <2> QED BY <2>8, <2>9, <2>10
<1>1. ListInv => PagesCoverList
  <2> SUFFICES ASSUME ListInv, list.complete, NEW max \in Maxes \ {0}
               PROVE  Walk(list.channels, max) = list.channels
    BY DEF PagesCoverList
  <2>1. list.channels = <<>> \/ list.channels \in Listings
    BY DEF ListInv, Cached, Broken, Requested, Refused, Arriving
  <2>2. IsListing(<<>>)
    BY DEF IsListing, IsInjective
  <2>3. IsListing(list.channels)
    BY <2>1, <2>2, RequestsAssumptions, Zenon DEF IsListing
  <2>4. max \in Nat /\ max >= 1
    BY RequestsAssumptions
  <2> QED BY <2>3, <2>4, <1>WalkIs
<1>2. AnswerInv /\ ListInv /\ [Next]_vars => (AnswerInv /\ ListInv)'
  BY AnswerStep, ListStep
<1> QED BY <1>1, <1>2, AnswerInit, ListInit, PTL DEF Spec

-----------------------------------------------------------------------------
(* The answers say what happened.  A callback answers the iq that asked    *)
(* for it, and a NOTICE that answers a ping is on its way only when the    *)
(* nick has sent it.                                                       *)

\* A request, and the callbacks that wait for it.
LEMMA AskedTrue ==
  ASSUME AnswerInv, TrueInv, NEW i, Fresh(i), NEW r, asked' = [asked EXCEPT ![i] = r],
         UNCHANGED <<say, seen>>,
         \/ waiting' = waiting
         \/ r \in Request \cup ListRequest /\ waiting' = Append(waiting, Callback(r.kind, i, r))
         \/ r \in ListRequest /\ waiting' = waiting \o <<Callback("fill", i, r), Callback("list", i, r)>>
  PROVE  TrueInv'
<1>1. i \in Iq /\ asked[i] = Nothing /\ waiting \in Seq(Callbacks) /\ client \in Nat
      /\ asked = [j \in Iq |-> asked[j]]
  BY FreshUnused, Zenon DEF AnswerInv
<1>2. asked'[i] = r /\ \A j \in Iq : j # i => asked'[j] = asked[j]
  BY <1>1
<1>3. ASSUME NEW cb \in Range(waiting) PROVE Due(cb, asked')
  <2>1. cb \in Callbacks /\ Due(cb, asked)
    BY <1>1, RangeSeq DEF TrueInv
  <2>2. cb.iq \in Iq /\ cb.req # Nothing
    BY <2>1, RequestIs DEF Callbacks
  <2>3. cb.iq # i
    BY <1>1, <2>1, <2>2, ZenonT(30) DEF Due
  <2> QED BY <1>2, <2>1, <2>2, <2>3 DEF Due
<1>4. ASSUME NEW kind, kind = r.kind \/ (kind = "fill" /\ r.kind = "list")
      PROVE  Due(Callback(kind, i, r), asked')
  <2> DEFINE cb == Callback(kind, i, r)
  <2>1. cb.iq = i /\ cb.req = r /\ cb.kind = kind
    BY Zenon DEF Callback
  <2> HIDE DEF cb
  <2>2. asked'[cb.iq] = cb.req /\ (cb.kind = cb.req.kind \/ (cb.kind = "fill" /\ cb.req.kind = "list"))
    BY <1>2, <1>4, <2>1
  <2> QED BY <2>2 DEF Due, cb
<1>5. \A cb \in Range(waiting') : Due(cb, asked')
  <2>1. CASE waiting' = waiting
    BY <1>3, <2>1, Zenon
  <2>2. CASE r \in Request \cup ListRequest /\ waiting' = Append(waiting, Callback(r.kind, i, r))
    <3> DEFINE cb == Callback(r.kind, i, r)
    <3>1. r.kind \in Kinds
      BY <2>2, RequestIs DEF Kinds
    <3>2. cb \in Callbacks
      BY <1>1, <2>2, <3>1, CallbackIs
    <3>3. Due(cb, asked')
      BY <1>4, Zenon
    <3>4. waiting' = Append(waiting, cb)
      BY <2>2
    <3> HIDE DEF cb
    <3>5. Range(waiting') = Range(waiting) \cup {cb}
      BY <1>1, <3>2, <3>4, RangeAppend
    <3> HIDE DEF Due
    <3> QED BY <1>3, <3>3, <3>5, Zenon
  <2>3. CASE r \in ListRequest /\ waiting' = waiting \o <<Callback("fill", i, r), Callback("list", i, r)>>
    <3> DEFINE fill == Callback("fill", i, r)
               cb == Callback("list", i, r)
               s == Append(waiting, fill)
    <3>1. fill \in Callbacks /\ cb \in Callbacks
      BY <1>1, <2>3, CallbackIs DEF Kinds
    <3>2. Due(fill, asked') /\ Due(cb, asked')
      BY <1>4, <2>3, RequestIs, Zenon
    <3>3. waiting' = waiting \o <<fill, cb>>
      BY <2>3
    <3> HIDE DEF cb, fill
    <3>4. s \in Seq(Callbacks) /\ waiting' = Append(s, cb) /\ Range(s) = Range(waiting) \cup {fill}
      BY <1>1, <3>1, <3>3, RangeAppend
    <3> HIDE DEF s
    <3>5. Range(waiting') = Range(s) \cup {cb}
      BY <3>1, <3>4, RangeAppend
    <3> HIDE DEF Due
    <3> QED BY <1>3, <3>2, <3>4, <3>5, Zenon
  <2> QED BY <2>1, <2>2, <2>3, Zenon
<1> HIDE DEF Due
<1> QED BY <1>5, Zenon DEF TrueInv

\* What is sent for a request when it comes.
LEMMA SentTrue ==
  ASSUME AnswerInv, ListInv, NEW i, Fresh(i), NEW r, NEW sent,
         asked' = [asked EXCEPT ![i] = r], Replies(i, sent), pongs' = pongs,
         \/ r.kind \notin {"kick", "ping", "list"}
         \/ sent = <<>>
         \/ sent = <<Answer("error")>>
         \/ /\ r.kind = "list" /\ list' = list /\ list.complete
            /\ sent = <<[type |-> "result", page |-> Page(list.channels, r.after, r.max)]>>
  PROVE  TrueResults
<1>1. /\ i \in Iq /\ asked = [j \in Iq |-> asked[j]] /\ replies = [j \in Iq |-> replies[j]]
      /\ IsSeq(replies[i]) /\ Len(replies[i]) = 0
  BY FreshUnused, Zenon DEF AnswerInv, Once
<1>2. replies[i] = <<>>
  BY <1>1 DEF IsSeq
<1>3. replies'[i] = <<>> \o sent /\ asked'[i] = r /\ \A j \in Iq : j # i => replies'[j] = replies[j]
  BY <1>1, <1>2, ZenonT(30) DEF Replies
<1>4. ASSUME replies'[i] # replies[i], Last(replies'[i]).type = "result"
      PROVE  /\ asked'[i].kind = "kick" => asked'[i].nick \notin users'
             /\ asked'[i].kind = "ping" => i \in seen
             /\ asked'[i].kind = "list" => StablePage(i)
  <2>1. CASE r.kind \notin {"kick", "ping", "list"}
    BY <1>3, <2>1, Zenon
  <2>2. CASE sent = <<>>
    <3>1. <<>> \o <<>> = <<>>
      BY ONLY SMT
    <3>2. replies'[i] = replies[i]
      BY ONLY <1>2, <1>3, <2>2, <3>1, Zenon
    <3> QED BY <1>4, <3>2, Zenon
  <2>3. CASE sent = <<Answer("error")>>
    <3>1. Last(<<>> \o <<Answer("error")>>) = Answer("error")
      BY DEF Last
    <3>2. Answer("error").type = "error"
      BY ZenonT(30) DEF Answer
    <3> QED BY <1>3, <1>4, <2>3, <3>1, <3>2, Zenon
  <2>4. CASE /\ r.kind = "list" /\ list' = list /\ list.complete
             /\ sent = <<[type |-> "result", page |-> Page(list.channels, r.after, r.max)]>>
    <3> DEFINE P == Page(list.channels, r.after, r.max)
               x == [type |-> "result", page |-> P]
    <3>1. sent = <<x>> /\ x.page = P
      BY <2>4
    <3> HIDE DEF x
    <3>2. Last(<<>> \o <<x>>) = x
      BY DEF Last
    <3>3. Last(replies'[i]).page = P
      BY <1>3, <3>1, <3>2, Zenon
    <3>4. list.channels \in Seq(STRING)
      <4>1. list.channels = <<>> \/ list.channels \in Listings
        BY <2>4, ZenonT(30) DEF ListInv, Cached, Broken, Requested, Refused, Arriving
      <4>2. <<>> \in Seq(STRING)
        BY MessageIs, Zenon
      <4>3. \A l \in Listings : l \in Seq(STRING)
        BY RequestsAssumptions, SMTT(20)
      <4> QED BY <4>1, <4>2, <4>3, Zenon
    <3>5. list'.channels \o <<>> = list.channels /\ list'.complete
      <4> DEFINE A == STRING
      <4>1. list.channels \in Seq(A)
        BY <3>4, ZenonT(30)
      <4> HIDE DEF A
      <4> QED BY <2>4, <4>1
    <3>6. P = Page(list'.channels \o <<>>, asked'[i].after, asked'[i].max)
      BY <1>3, <3>5, SMTT(20)
    <3> HIDE DEF P
    <3>7. StablePage(i)
      BY <3>3, <3>5, <3>6, SMTT(20) DEF StablePage
    <3> QED BY <1>3, <2>4, <3>7, SMTT(20)
  <2> QED BY <2>1, <2>2, <2>3, <2>4
<1> QED BY <1>3, <1>4, Zenon DEF TrueResults

\* The functions of Bridge other than the one for lists.
LEMMA HandlerTrue ==
  ASSUME AnswerInv, ListInv, TrueInv, NEW i, Fresh(i), NEW d, ~d.guard, NEW r,
         asked' = [asked EXCEPT ![i] = r], UNCHANGED <<say, seen, pongs>>,
         \/ Throws(i) \/ Silence(i, d) \/ Now(i, "error", d)
         \/ r.kind \notin {"kick", "ping", "list"} /\ \E reply : Now(i, reply, d)
         \/ r \in Request /\ Later(i, r, d)
  PROVE  TrueInv' /\ TrueResults
<1>1. Guard(d) = <<>>
  BY DEF Guard
<1>2. \A x : <<x>> \o <<>> = <<x>>
  OBVIOUS
<1>3. CASE Throws(i)
  BY <1>3, AskedTrue, SentTrue, Zenon DEF Throws
<1>4. CASE Silence(i, d)
  <2>1. Replies(i, <<>>) /\ waiting' = waiting
    BY <1>1, <1>4 DEF Silence
  <2> QED BY <2>1, AskedTrue, SentTrue, Zenon
<1>5. CASE Now(i, "error", d)
  <2>1. Replies(i, <<Answer("error")>>) /\ waiting' = waiting
    BY <1>1, <1>2, <1>5 DEF Now
  <2> QED BY <2>1, AskedTrue, SentTrue, Zenon
<1>6. CASE r.kind \notin {"kick", "ping", "list"} /\ \E reply : Now(i, reply, d)
  <2>1. waiting' = waiting /\ \E sent : Replies(i, sent)
    BY <1>6 DEF Now
  <2> QED BY <1>6, <2>1, AskedTrue, SentTrue, Zenon
<1>7. CASE r \in Request /\ Later(i, r, d)
  <2>1. Replies(i, <<>>) /\ waiting' = Append(waiting, Callback(r.kind, i, r))
    BY <1>1, <1>7 DEF Later
  <2> QED BY <1>7, <2>1, AskedTrue, SentTrue, Zenon
<1> QED BY <1>3, <1>4, <1>5, <1>6, <1>7

\* send_irc_channel_list_request()
LEMMA AskListTrue ==
  ASSUME AnswerInv, ListInv, TrueInv, NEW i, NEW d, ~d.guard, NEW r \in ListRequest, AskList(i, r, d)
  PROVE  TrueInv' /\ TrueResults
<1>1. Fresh(i) /\ asked' = [asked EXCEPT ![i] = r] /\ UNCHANGED <<say, seen, pongs>>
  BY DEF AskList, iqVars
<1>2. Guard(d) = <<>> /\ r.kind = "list"
  BY RequestIs, SMTT(20) DEF Guard
<1> DEFINE x == [type |-> "result", page |-> Page(list.channels, r.after, r.max)]
<1>3. \/ Throws(i)
      \/ /\ Replies(i, <<>>)
         /\ waiting' = waiting \o <<Callback("fill", i, r), Callback("list", i, r)>>
      \/ list' = list /\ list.complete /\ waiting' = waiting /\ Replies(i, <<x>> \o <<>>)
      \/ Replies(i, <<>>) /\ waiting' = Append(waiting, Callback("list", i, r))
  BY <1>2 DEF AskList
<1>4. <<x>> \o <<>> = <<x>>
  <2> HIDE DEF x
  <2> QED OBVIOUS
<1>5. CASE Throws(i)
  BY <1>1, <1>5, HandlerTrue, Zenon
<1>6. CASE /\ Replies(i, <<>>)
           /\ waiting' = waiting \o <<Callback("fill", i, r), Callback("list", i, r)>>
  BY <1>1, <1>6, AskedTrue, SentTrue, Zenon
<1>7. CASE list' = list /\ list.complete /\ waiting' = waiting /\ Replies(i, <<x>> \o <<>>)
  <2>1. Replies(i, <<x>>)
    BY <1>4, <1>7
  <2>2. TrueInv'
    BY <1>1, <1>7, AskedTrue, Zenon
  <2>3. TrueResults
    BY <1>1, <1>2, <1>7, <2>1, SentTrue, Zenon DEF x
  <2> QED BY <2>2, <2>3
<1>8. CASE Replies(i, <<>>) /\ waiting' = Append(waiting, Callback("list", i, r))
  BY <1>1, <1>2, <1>8, AskedTrue, SentTrue, ZenonT(30)
<1> QED BY <1>3, <1>5, <1>6, <1>7, <1>8, ZenonT(30)

\* handle_iq() and handle_message().
LEMMA AsksTrue == ASSUME AnswerInv, ListInv, TrueInv, Asks PROVE TrueInv' /\ TrueResults
<1>1. PICK i \in Iq, h \in AllHandled :
        /\ Fresh(i)
        /\ \/ h.effect.op = "none" /\ AskNow(i, h.kind, h.effect)
           \/ h.effect.op # "none" /\ AskIq(i, h.effect)
  BY DEF Asks
<1> DEFINE d == h.effect
<1>2. /\ h.kind \in {"iq", "answer", "relay", "message"}
      /\ OneAnswer(d) \/ Deferred(d) \/ Silent(d)
  BY AnyOutcome, Zenon
<1> HIDE DEF d
<1>3. CASE d.op = "none" /\ AskNow(i, h.kind, d)
  <2> DEFINE r == [Nothing EXCEPT !.kind = h.kind]
  <2>1. r.kind \notin {"kick", "ping", "list"}
    BY <1>2, RequestIs
  <2>2. /\ asked' = [asked EXCEPT ![i] = r] /\ UNCHANGED <<waiting, say, seen, pongs>>
        /\ \E sent : Replies(i, sent)
    BY <1>3 DEF AskNow, iqVars
  <2> HIDE DEF r
  <2> QED BY <1>1, <2>1, <2>2, AskedTrue, SentTrue, Zenon
<1>4. CASE d.op # "none" /\ AskIq(i, d)
  <2>1. ~d.guard
    BY <1>2, <1>4, Zenon DEF OneAnswer, Deferred, Silent
  <2>2. ASSUME NEW r \in Request,
               asked' = [asked EXCEPT ![i] = r], UNCHANGED <<say, seen, pongs>>,
               \/ Throws(i) \/ Silence(i, d) \/ Now(i, "error", d) \/ Later(i, r, d)
        PROVE  TrueInv' /\ TrueResults
    BY <1>1, <2>1, <2>2, HandlerTrue, Zenon
  <2>3. ASSUME NEW r \in Request, Ask(i, r, d) PROVE TrueInv' /\ TrueResults
    BY <2>2, <2>3, Zenon DEF Ask, iqVars
  <2>4. ASSUME NEW r \in Request, AskRole(i, r, d) PROVE TrueInv' /\ TrueResults
    BY <2>2, <2>4, Zenon DEF AskRole, iqVars
  <2>5. ASSUME NEW r \in Request, AskParticipant(i, r, d) PROVE TrueInv' /\ TrueResults
    BY <2>2, <2>5, Zenon DEF AskParticipant, iqVars
  <2>6. ASSUME AskSelf(i, d) PROVE TrueInv' /\ TrueResults
    <3> DEFINE r == [Nothing EXCEPT !.kind = "self"]
    <3>1. r.kind \notin {"kick", "ping", "list"}
      BY RequestIs
    <3>2. /\ asked' = [asked EXCEPT ![i] = r] /\ UNCHANGED <<say, seen, pongs>>
          /\ Throws(i) \/ \E reply : Now(i, reply, d)
      BY <2>6 DEF AskSelf, iqVars
    <3> HIDE DEF r
    <3> QED BY <1>1, <2>1, <3>1, <3>2, HandlerTrue, Zenon
  <2>7. ASSUME NEW r \in ListRequest, AskList(i, r, d) PROVE TrueInv' /\ TrueResults
    BY <2>1, <2>7, AskListTrue
  <2> QED BY <1>4, <2>3, <2>4, <2>5, <2>6, <2>7 DEF AskIq
<1> QED BY <1>1, <1>3, <1>4, SMTT(20) DEF d

\* The page of a list that is there in full is a page of the whole list.
LEMMA PageStable ==
  ASSUME NEW l, IsListing(l), NEW n \in 0 .. Len(l), NEW after, NEW max \in Nat,
         PageReady(SubSeq(l, 1, n), after, max)
  PROVE  Page(SubSeq(l, 1, n), after, max) = Page(l, after, max)
<1> DEFINE s == SubSeq(l, 1, n)
           A == STRING \ {Empty}
<1>1. l \in Seq(A) /\ \A j, k \in 1 .. Len(l) : l[j] = l[k] => j = k
  BY DEF IsListing, IsInjective
<1> HIDE DEF A
<1>2. s \in Seq(A) /\ Len(s) = n /\ \A k \in 1 .. n : s[k] = l[k]
  BY <1>1, SMTT(20)
<1> HIDE DEF s
<1>3. IsListing(s)
  BY <1>1, <1>2 DEF IsListing, IsInjective, A
<1> DEFINE i == Index(s, after)
<1>4. i \in 0 .. n /\ n \in 0 .. Len(l) /\ Len(l) \in Nat /\ n - i >= max
  BY <1>2, <1>3, IndexIs, Zenon DEF PageReady, s
<1>5. Index(l, after) = i
  <2>1. CASE after = Empty
    BY <1>3, <2>1, IndexIs
  <2>2. CASE after # Empty
    <3>1. i > 0
      BY <2>2 DEF PageReady, s
    <3>2. i \in 1 .. n /\ i \in 1 .. Len(l)
      BY <1>4, <3>1
    <3>3. s[i] = after
      BY <1>3, <3>1, IndexIs
    <3>4. l[i] = after
      BY <1>2, <3>2, <3>3
    <3> HIDE DEF i
    <3> QED BY <3>2, <3>4, IndexIs
  <2> QED BY <2>1, <2>2
<1> HIDE DEF i
<1>6. /\ n - (i + 1) + 1 >= max /\ Len(l) - (i + 1) + 1 >= max
      /\ i + max <= n /\ (i + 1) + max - 1 = i + max
  BY <1>4, SMTT(20)
<1>7. Page(s, after, max) = SubSeq(s, i + 1, i + max)
  BY <1>2, <1>6, Zenon DEF Page, i
<1>8. Page(l, after, max) = SubSeq(l, i + 1, i + max)
  BY <1>5, <1>6, Zenon DEF Page
<1>9. SubSeq(s, i + 1, i + max) = SubSeq(l, i + 1, i + max)
  <2> DEFINE u == SubSeq(s, i + 1, i + max)
             v == SubSeq(l, i + 1, i + max)
  <2>1. /\ i + 1 \in Int /\ i + max \in Int /\ (i + max) - (i + 1) + 1 = max
        /\ (IF i + 1 <= i + max THEN (i + max) - (i + 1) + 1 ELSE 0) = max
        /\ \A k \in i + 1 .. i + max : k \in 1 .. n /\ k \in 1 .. Len(l)
        /\ \A k \in 1 .. max : (i + 1) + k - 1 = i + k
    BY <1>4, <1>6
  <2>2. u \in Seq(A) /\ Len(u) = max /\ \A k \in 1 .. max : u[k] = s[i + k]
    <3>1. \A k \in i + 1 .. i + max : s[k] \in A
      BY <1>2, <2>1, SMTT(20)
    <3> QED BY ONLY <2>1, <3>1, SMTT(20) DEF u
  <2>3. v \in Seq(A) /\ Len(v) = max /\ \A k \in 1 .. max : v[k] = l[i + k]
    <3>1. \A k \in i + 1 .. i + max : l[k] \in A
      BY <1>1, <2>1
    <3> QED BY ONLY <2>1, <3>1, SMTT(20) DEF v
  <2>4. \A k \in 1 .. max : i + k \in 1 .. n
    BY <1>4, <1>6, SMTT(20)
  <2> HIDE DEF u, v
  <2>5. \A k \in 1 .. max : u[k] = v[k]
    BY <1>2, <2>2, <2>3, <2>4, Zenon
  <2>6. u = v
    BY <2>2, <2>3, <2>5
  <2> QED BY <2>6, Zenon DEF u, v
<1> QED BY <1>7, <1>8, <1>9, Zenon DEF s

\* A line of the list: what the cache holds, and the lines that follow.
LEMMA Arrives ==
  ASSUME AnswerInv, ListInv, Receive, Head(say).cmd = "322"
  PROVE  /\ ~list'.complete
         /\ \E l \in Listings : \E n \in 0 .. Len(l) :
              list'.channels = SubSeq(l, 1, n) /\ Coming' = Lines(l, n)
<1> DEFINE m == Head(say)
           t == Filter(Tail(say), ListMessages)
<1>1. say # <<>> /\ say' = Tail(say) /\ Trigger(m) /\ m.cmd = "322"
  BY Zenon DEF Receive
<1>2. m \in ListMessages
  BY <1>1, ComingIs DEF ListMessages
<1>3. (Refused \/ Arriving) /\ Coming[1] = m /\ t = Tail(Coming)
  BY <1>1, <1>2, ComingIs
<1>4. Coming' = t
  BY <1>1 DEF Coming, ListMessages, Messages
<1>5. list' = IF list.complete THEN list ELSE Filled(m)
  BY <1>1, TriggerFills
<1>6. list = [complete |-> list.complete, channels |-> list.channels]
  BY DEF ListInv
<1> HIDE DEF m, t, Coming
<1>7. Arriving
  BY <1>1, <1>3 DEF Refused
<1>8. PICK l \in Listings : \E n \in 0 .. Len(l) : list.channels = SubSeq(l, 1, n) /\ Coming = Lines(l, n)
  BY <1>7 DEF Arriving
<1>9. PICK n \in 0 .. Len(l) : list.channels = SubSeq(l, 1, n) /\ Coming = Lines(l, n)
  BY <1>8
<1>10. m = Lines(l, n)[1] /\ t = Tail(Lines(l, n)) /\ Len(l) \in Nat
  <2>1. m = Lines(l, n)[1] /\ t = Tail(Lines(l, n))
    BY ONLY <1>3, <1>9
  <2>2. l \in Seq(STRING)
    BY LinesIs, Zenon
  <2> QED BY <2>1, <2>2
<1>11. n < Len(l)
  <2>1. n = Len(l) => m = Message("323", Empty, <<>>)
    BY <1>10, LinesIs, Zenon
  <2>2. Message("323", Empty, <<>>).cmd = "323"
    BY MessageIs
  <2> QED BY <1>1, <1>10, <2>1, <2>2
<1>12. /\ m = Message("322", Empty, <<l[n + 1]>>) /\ t = Lines(l, n + 1)
       /\ SubSeq(l, 1, n) \o <<l[n + 1]>> = SubSeq(l, 1, n + 1)
  BY <1>10, <1>11, LinesIs, Zenon
<1>13. m.arg = <<l[n + 1]>>
  BY <1>12, MessageIs, SMTT(20)
<1>14. list' = [complete |-> FALSE, channels |-> list.channels \o m.arg]
  <2>1. ~list.complete
    BY <1>7 DEF Arriving
  <2>2. list.complete \in BOOLEAN
    BY DEF ListInv
  <2> QED BY <1>1, <1>5, <1>6, <2>1, <2>2, Zenon DEF Filled
<1>15. list'.complete = FALSE /\ list'.channels = list.channels \o m.arg
  BY <1>14, Zenon
<1>16. list.channels \o m.arg = SubSeq(l, 1, n + 1)
  BY ONLY <1>9, <1>12, <1>13, Zenon
<1>17. n + 1 \in 0 .. Len(l)
  BY <1>10, <1>11
<1> HIDE DEF Lines
<1> QED BY <1>4, <1>12, <1>15, <1>16, <1>17, ZenonT(30)

\* The channels of the lines that follow are the rest of the list.
LEMMA LinesRest ==
  ASSUME NEW l \in Listings, NEW n \in 0 .. Len(l), NEW s \in Seq(Messages),
         Filter(s, ListMessages) = Lines(l, n)
  PROVE  LET coming == Filter(s, {m \in Range(s) : m.cmd = "322"})
         IN  SubSeq(l, 1, n) \o [k \in 1 .. Len(coming) |-> coming[k].arg[1]] = l
<1> DEFINE X == {m \in Range(s) : m.cmd = "322"}
           Y == {m \in Messages : m.cmd = "322"}
           M == Len(l) - n
           a == [k \in 1 .. M |-> Message("322", Empty, <<l[n + k]>>)]
           e == Message("323", Empty, <<>>)
           u == Lines(l, n)
<1>1. l \in Seq(STRING) /\ u \in Seq(ListMessages) /\ Len(l) \in Nat /\ M \in Nat
  <2>1. l \in Seq(STRING) /\ u \in Seq(ListMessages)
    BY LinesIs, Zenon
  <2>2. Len(l) \in Nat
    BY <2>1
  <2> QED BY <2>1, <2>2
<1>2. u = [k \in 1 .. M + 1 |-> IF k <= M THEN Message("322", Empty, <<l[n + k]>>) ELSE e]
  BY DEF Lines
<1>3. \A k \in 1 .. M : a[k] = Message("322", Empty, <<l[n + k]>>)
  OBVIOUS
<1>4. Len(u) = M + 1 /\ u[M + 1] = e /\ \A k \in 1 .. M : u[k] = a[k]
  <2> HIDE DEF a, e, u, M
  <2>1. Len(u) = M + 1
    BY <1>1, <1>2
  <2>2. M + 1 \in 1 .. M + 1 /\ ~(M + 1 <= M) /\ \A k \in 1 .. M : k \in 1 .. M + 1 /\ k <= M
    BY <1>1
  <2> QED BY <1>2, <1>3, <2>1, <2>2
<1>5. \A k \in 1 .. M : a[k].cmd = "322" /\ a[k].arg = <<l[n + k]>>
  <2> HIDE DEF a, M
  <2> SUFFICES ASSUME NEW k \in 1 .. M PROVE a[k].cmd = "322" /\ a[k].arg = <<l[n + k]>>
    OBVIOUS
  <2> DEFINE x == <<l[n + k]>>
  <2>1. a[k] = Message("322", Empty, x)
    BY <1>3, Zenon
  <2> HIDE DEF x
  <2>2. a[k].cmd = "322" /\ a[k].arg = x
    BY <2>1, MessageIs, SMTT(20)
  <2> QED BY <2>2 DEF x
<1>6. e.cmd = "323"
  BY MessageIs
<1>7. a = [k \in 1 .. M |-> a[k]]
  OBVIOUS
<1>8. ListMessages \subseteq Messages
  BY DEF ListMessages
<1> HIDE DEF a, e, u, M
<1>9. a \in Seq(Messages) /\ Len(a) = M /\ e \in Messages /\ \A k \in 1 .. M : a[k] \in Messages
  <2>1. \A k \in 1 .. M + 1 : u[k] \in Messages
    BY <1>1, <1>4, <1>8
  <2>2. \A k \in 1 .. M : a[k] \in Messages
    BY <1>1, <1>4, <2>1
  <2>3. e \in Messages
    BY <1>1, <1>4, <2>1
  <2> QED BY <1>1, <1>7, <2>2, <2>3, SMTT(20)
<1>10. u = Append(a, e)
  <2>1. /\ Append(a, e) \in Seq(Messages) /\ Len(Append(a, e)) = M + 1 /\ Append(a, e)[M + 1] = e
        /\ \A k \in 1 .. M : Append(a, e)[k] = a[k]
    BY <1>1, <1>9
  <2>2. \A k \in 1 .. M + 1 : Append(a, e)[k] = u[k]
    BY <1>1, <1>4, <2>1
  <2>3. u \in Seq(Messages)
    BY <1>1, <1>8
  <2> QED BY <1>4, <2>1, <2>2, <2>3, SMTT(20)
<1>11. Filter(s, X) = Filter(u, Y)
  <2>1. Filter(Filter(s, ListMessages), Y) = Filter(s, ListMessages \cap Y)
    <3> HIDE DEF Y
    <3> QED BY FilterTwice
  <2>2. \A y \in Range(s) : y \in ListMessages \cap Y <=> y \in X
    <3>1. \A y \in Range(s) : y \in Messages
      BY RangeSeq
    <3> QED BY <3>1 DEF ListMessages
  <2> HIDE DEF X, Y
  <2>3. Filter(s, ListMessages \cap Y) = Filter(s, X)
    BY <2>2, FilterSame
  <2>4. Filter(s, ListMessages) = u
    BY DEF u
  <2> QED BY <2>1, <2>3, <2>4
<1>12. Filter(u, Y) = a
  <2>1. e \notin Y
    BY <1>6
  <2>2. Range(a) \subseteq Y
    BY <1>5, <1>9, RangeSeq
  <2> HIDE DEF Y
  <2>3. Filter(Append(a, e), Y) = Filter(a, Y)
    BY <1>9, <2>1, FilterAppend
  <2>4. Filter(a, Y) = a
    BY <1>9, <2>2, FilterAll
  <2> QED BY <1>10, <2>3, <2>4
<1> DEFINE c == [k \in 1 .. Len(a) |-> a[k].arg[1]]
<1>13. c = SubSeq(l, n + 1, Len(l))
  <2> DEFINE A == STRING
             v == SubSeq(l, n + 1, Len(l))
  <2>1. /\ n + 1 \in Int /\ Len(l) \in Int /\ Len(l) - (n + 1) + 1 = M
        /\ (IF n + 1 <= Len(l) THEN Len(l) - (n + 1) + 1 ELSE 0) = M
        /\ \A k \in n + 1 .. Len(l) : k \in 1 .. Len(l)
        /\ \A k \in 1 .. M : (n + 1) + k - 1 = n + k /\ n + k \in 1 .. Len(l)
    BY <1>1 DEF M
  <2>2. l \in Seq(A)
    BY <1>1
  <2> HIDE DEF A
  <2>3. \A k \in n + 1 .. Len(l) : l[k] \in A
    BY <2>1, <2>2
  <2>4. v \in Seq(A) /\ Len(v) = M /\ \A k \in 1 .. M : v[k] = l[n + k]
    BY ONLY <2>1, <2>3 DEF v
  <2>5. \A k \in 1 .. M : c[k] = l[n + k]
    <3>1. ASSUME NEW k \in 1 .. M PROVE a[k].arg[1] = l[n + k]
      <4>1. a[k].arg = <<l[n + k]>>
        BY <1>5
      <4> QED BY <4>1, SMTT(20)
    <3> QED BY <1>9, <3>1, Zenon
  <2>6. c \in Seq(A) /\ Len(c) = M
    <3>1. c = [k \in 1 .. M |-> c[k]]
      BY <1>9
    <3> HIDE DEF c
    <3>2. \A k \in 1 .. M : l[n + k] \in A
      BY ONLY <2>1, <2>2
    <3>3. \A k \in 1 .. M : c[k] \in A
      BY ONLY <2>5, <3>2
    <3>4. M \in Nat
      BY <1>1
    <3> QED BY ONLY <3>1, <3>3, <3>4, SMTT(20)
  <2> HIDE DEF c, v
  <2>7. c = v
    BY <2>4, <2>5, <2>6
  <2> QED BY <2>7 DEF v
<1>14. SubSeq(l, 0 + 1, n) \o SubSeq(l, n + 1, Len(l)) = SubSeq(l, 0 + 1, Len(l))
  <2>1. n \in Nat /\ Len(l) \in Nat /\ 0 <= n /\ n <= Len(l) /\ Len(l) <= Len(l)
    BY <1>1
  <2> QED BY <1>1, <2>1, SubSeqSplit, Zenon
<1>15. SubSeq(l, 0 + 1, Len(l)) = l /\ 0 + 1 = 1
  <2>1. SubSeq(l, 1, Len(l)) = l
    BY <1>1, LinesIs
  <2> QED BY <2>1
<1>16. Filter(s, X) = a
  BY <1>11, <1>12
<1>17. SubSeq(l, 1, n) \o c = l
  BY ONLY <1>13, <1>14, <1>15, Zenon
<1> HIDE DEF X
<1>18. SubSeq(l, 1, n) \o [k \in 1 .. Len(Filter(s, X)) |-> Filter(s, X)[k].arg[1]] = l
  BY ONLY <1>16, <1>17, Zenon DEF c
<1> QED BY <1>18, Zenon DEF X

\* trigger_on_irc_message(): what is sent was sent by a callback.
LEMMA TriggerSends ==
  ASSUME AnswerInv, NEW m, Trigger(m), NEW j \in Iq, replies'[j] # replies[j]
  PROVE  \E cb \in Range(waiting) :
           /\ cb.iq = j /\ Outcome(cb, m, list').reply # "none"
           /\ Last(replies'[j]) = Reply(cb, Outcome(cb, m, list').reply, list')
<1>1. waiting \in Seq(Callbacks) /\ IsSeq(replies[j])
  BY Zenon DEF AnswerInv, Once
<1> DEFINE l == list'
           A == {cb \in Range(waiting) : cb.iq = j /\ Outcome(cb, m, l).reply # "none"}
           f == Filter(waiting, A)
           g(cb) == Reply(cb, Outcome(cb, m, l).reply, l)
           s == [k \in 1 .. Len(f) |-> g(f[k])]
           n == Len(f)
<1>2. replies'[j] = replies[j] \o s
  BY Zenon DEF Trigger
<1>3. f \in Seq(Callbacks) /\ Range(f) = Range(waiting) \cap A /\ n \in Nat
  <2> HIDE DEF A
  <2>1. f \in Seq(Callbacks)
    BY <1>1, FilterType
  <2> QED BY <1>1, <2>1, FilterRange, SMTT(20)
<1>4. s = [k \in 1 .. n |-> s[k]] /\ \A k \in 1 .. n : s[k] = g(f[k])
  <2> HIDE DEF l, A, f, g
  <2> QED BY ONLY SMT
<1> HIDE DEF l, A, f, g, s, n
<1>5. s \in Seq(Range(s)) /\ Len(s) = n
  BY <1>3, <1>4 DEF Range
<1>6. n # 0
  <2>1. ASSUME n = 0 PROVE replies[j] \o s = replies[j]
    <3>1. s = <<>>
      BY <1>5, <2>1
    <3> QED BY <1>1, <3>1 DEF IsSeq
  <2> QED BY <1>2, <2>1
<1> DEFINE a == replies[j]
           C == Range(a) \cup Range(s)
<1>7. a \in Seq(C) /\ s \in Seq(C)
  BY <1>1, <1>5 DEF IsSeq
<1>8. (a \o s)[Len(a \o s)] = s[n]
  <2> HIDE DEF a, C
  <2> QED BY ONLY <1>3, <1>5, <1>6, <1>7
<1>9. n \in 1 .. n
  <2>1. n \in Nat
    BY <1>3, Zenon
  <2> QED BY ONLY <1>6, <2>1
<1>10. Last(replies'[j]) = g(f[n])
  <2> QED BY ONLY <1>2, <1>4, <1>8, <1>9, Zenon DEF Last, a
<1>11. f[n] \in Range(f)
  <2>1. n \in 1 .. Len(f) /\ f \in Seq(Callbacks)
    BY <1>3, <1>9, Zenon DEF n
  <2> QED BY ONLY <2>1, RangeSeq
<1> QED BY <1>3, <1>10, <1>11, Zenon DEF A, g, l

\* The messages that make a callback answer with a result.
LEMMA ResultMeans ==
  ASSUME NEW cb, NEW m, NEW l, Outcome(cb, m, l).reply = "result"
  PROVE  /\ cb.kind = "kick" => m.cmd = "KICK" /\ m.nick = cb.req.nick
         /\ cb.kind = "ping" => m.cmd = "PING" /\ m.arg = <<cb.iq>>
         /\ cb.kind = "list" => \/ m.cmd = "323"
                                \/ m.cmd = "322" /\ PageReady(l.channels, cb.req.after, cb.req.max)
<1>1. Stays.reply # "result" /\ Leaves.reply # "result" /\ Answers("error").reply # "result"
  BY DEF Stays, Leaves, Answers
<1> HIDE DEF Stays, Leaves, Answers, PageReady
<1>2. CASE cb.kind = "kick"
  <2>1. Outcome(cb, m, l) = KickCallback(cb, m)
    BY <1>2 DEF Outcome
  <2> QED BY <1>1, <1>2, <2>1 DEF KickCallback
<1>3. CASE cb.kind = "ping"
  <2>1. Outcome(cb, m, l) = PingCallback(cb, m)
    BY <1>3 DEF Outcome
  <2> QED BY <1>1, <1>3, <2>1 DEF PingCallback
<1>4. CASE cb.kind = "list"
  <2>1. Outcome(cb, m, l) = ListCallback(cb, m, l)
    BY <1>4, Zenon DEF Outcome
  <2> QED BY <1>1, <1>4, <2>1 DEF ListCallback
<1> QED BY <1>2, <1>3, <1>4, Zenon

\* send_matching_channel_list(): the page that a message of the server completes.
LEMMA PageTrue ==
  ASSUME AnswerInv, ListInv, Receive, NEW j, asked'[j] \in ListRequest,
         LET m == Head(say) IN
           \/ m.cmd = "323"
           \/ m.cmd = "322" /\ PageReady(list'.channels, asked'[j].after, asked'[j].max),
         Last(replies'[j]).page = Page(list'.channels, asked'[j].after, asked'[j].max)
  PROVE  StablePage(j)
<1> DEFINE m == Head(say)
           r == asked'[j]
           L == list'.channels
<1>1. say # <<>> /\ say' = Tail(say) /\ Trigger(m)
  BY Zenon DEF Receive
<1>2. say' \in Seq(Messages) /\ m \in Messages
  BY <1>1, ComingIs, Zenon
<1>3. CASE m.cmd = "323"
  <2>1. m \in ListMessages
    BY <1>2, <1>3, SMTT(20) DEF ListMessages
  <2>2. ~list.complete /\ list = [complete |-> list.complete, channels |-> list.channels]
    BY <1>1, <2>1, ComingIs DEF Refused, Arriving, ListInv
  <2>3. list' = Filled(m)
    BY <1>1, <2>2, TriggerFills
  <2>4. list'.complete = TRUE
    BY <1>3, <2>2, <2>3, Zenon DEF Filled
  <2>5. L = <<>> \/ L \in Listings
    <3>1. ListInv'
      BY ReceiveList
    <3> QED BY <2>4, <3>1, Zenon DEF ListInv, Cached, Broken, Requested, Refused, Arriving
  <2> DEFINE A == STRING \ {Empty}
  <2>6. L \in Seq(A)
    <3>1. \A x \in Listings : x \in Seq(A)
      BY RequestsAssumptions, Zenon
    <3> HIDE DEF A, L
    <3>2. <<>> \in Seq(A)
      OBVIOUS
    <3> QED BY <2>5, <3>1, <3>2, Zenon
  <2> HIDE DEF A, L
  <2>7. L \o <<>> = L
    BY <2>6
  <2> QED BY <2>4, <2>7, Zenon DEF StablePage, L
<1>4. CASE m.cmd = "322" /\ PageReady(L, r.after, r.max)
  <2>1. ~list'.complete
    BY <1>4, Arrives, Zenon
  <2>2. PICK l \in Listings : \E n \in 0 .. Len(l) : L = SubSeq(l, 1, n) /\ Coming' = Lines(l, n)
    BY <1>4, Arrives, Zenon
  <2>3. PICK n \in 0 .. Len(l) : L = SubSeq(l, 1, n) /\ Coming' = Lines(l, n)
    BY <2>2, Zenon
  <2> DEFINE coming == Filter(say', {x \in Range(say') : x.cmd = "322"})
             rest == [k \in 1 .. Len(coming) |-> coming[k].arg[1]]
  <2>4. Filter(say', ListMessages) = Lines(l, n)
    BY <2>3, Zenon DEF Coming, ListMessages, Messages
  <2>5. SubSeq(l, 1, n) \o rest = l
    BY <1>2, <2>4, LinesRest, Zenon
  <2>6. IsListing(l) /\ r.max \in Nat
    BY RequestsAssumptions, Zenon DEF IsListing, ListRequest
  <2> HIDE DEF r, L, rest
  <2>7. Page(L, r.after, r.max) = Page(l, r.after, r.max)
    BY <1>4, <2>3, <2>6, PageStable, Zenon
  <2>8. L \o rest = l
    BY <2>3, <2>5, Zenon
  <2>9. Last(replies'[j]).page = Page(L \o rest, r.after, r.max)
    BY <2>7, <2>8 DEF L, r
  <2> QED BY <2>1, <2>9, Zenon DEF StablePage, L, r, rest
<1> QED BY <1>3, <1>4, Zenon

\* The fields of an answer: its type, and for the result of a listing its page.
LEMMA ReplyIs ==
  ASSUME NEW cb, NEW reply, NEW l
  PROVE  /\ Reply(cb, reply, l).type = reply
         /\ cb.kind = "list" /\ reply = "result" =>
              Reply(cb, reply, l).page = Page(l.channels, cb.req.after, cb.req.max)
<1> DEFINE p == Page(l.channels, cb.req.after, cb.req.max)
<1>1. Reply(cb, reply, l) =
        [type |-> reply, page |-> IF cb.kind = "list" /\ reply = "result" THEN p ELSE <<>>]
  BY Zenon DEF Reply
<1> HIDE DEF p
<1>2. /\ Reply(cb, reply, l).type = reply
      /\ cb.kind = "list" /\ reply = "result" => Reply(cb, reply, l).page = p
  BY ONLY <1>1, SMTT(20)
<1> QED BY ONLY <1>2, Zenon DEF p

\* A message: the callbacks that answer it say what it says.
LEMMA ReceiveTrue == ASSUME AnswerInv, ListInv, TrueInv, Receive PROVE TrueInv' /\ TrueResults
<1> DEFINE m == Head(say)
<1>1. /\ say # <<>> /\ say' = Tail(say) /\ Trigger(m) /\ asked' = asked /\ seen' = seen
      /\ m.cmd = "KICK" => users' = users \ {m.nick}
      /\ pongs' = pongs
  BY DEF Receive, OnCtcpPing, iqVars
<1>2. waiting \in Seq(Callbacks) /\ say \in Seq(Messages)
  BY DEF AnswerInv, ListInv
<1>3. Range(waiting') \subseteq Range(waiting)
  <2>1. \E Kept : waiting' = Filter(waiting, Kept)
    BY <1>1, Zenon DEF Trigger
  <2> QED BY <1>2, <2>1, FilterRange, SMTT(20)
<1>4. m \in Range(say) /\ Range(say') \subseteq Range(say)
  <2>1. say' \in Seq(Messages) /\ Len(say) \in Nat /\ 1 \in 1 .. Len(say) /\ say[1] = m
        /\ \A k \in 1 .. Len(say') : k + 1 \in 1 .. Len(say) /\ say'[k] = say[k + 1]
    BY <1>1, <1>2
  <2>2. m \in Range(say)
    BY <1>2, <2>1, RangeSeq, Zenon
  <2>3. ASSUME NEW y \in Range(say') PROVE y \in Range(say)
    <3>1. PICK k \in 1 .. Len(say') : say'[k] = y
      BY <2>1, RangeSeq, Zenon
    <3>2. k + 1 \in 1 .. Len(say) /\ say[k + 1] = y
      BY <2>1, <3>1, Zenon
    <3> QED BY <1>2, <3>2, RangeSeq, Zenon
  <2> QED BY <2>2, <2>3
<1>5. TrueInv'
  BY <1>1, <1>3, <1>4, Zenon DEF TrueInv, Due
<1>6. ASSUME NEW j \in Iq, replies'[j] # replies[j], Last(replies'[j]).type = "result"
      PROVE  /\ asked'[j].kind = "kick" => asked'[j].nick \notin users'
             /\ asked'[j].kind = "ping" => j \in seen
             /\ asked'[j].kind = "list" => StablePage(j)
  <2> HIDE DEF m
  <2> DEFINE l == list'
  <2>1. PICK cb \in Range(waiting) :
          /\ cb.iq = j /\ Outcome(cb, m, l).reply # "none"
          /\ Last(replies'[j]) = Reply(cb, Outcome(cb, m, l).reply, l)
    BY <1>1, <1>6, TriggerSends, Zenon
  <2>2. cb \in Callbacks /\ Due(cb, asked)
    BY <1>2, RangeSeq, SMTT(20) DEF TrueInv
  <2>3. cb.kind # "fill"
    BY <2>1, <2>2, OutcomeIs, Zenon
  <2>4. asked'[j] = cb.req /\ cb.kind = cb.req.kind
    BY <1>1, <2>1, <2>2, <2>3, Zenon DEF Due
  <2>5. Outcome(cb, m, l).reply = "result"
    <3>1. Reply(cb, Outcome(cb, m, l).reply, l).type = Outcome(cb, m, l).reply
      BY ONLY ReplyIs, SMTT(20)
    <3> QED BY ONLY <1>6, <2>1, <3>1, Zenon
  <2>6. /\ cb.kind = "kick" => m.cmd = "KICK" /\ m.nick = cb.req.nick
        /\ cb.kind = "ping" => m.cmd = "PING" /\ m.arg = <<cb.iq>>
        /\ cb.kind = "list" => \/ m.cmd = "323"
                               \/ m.cmd = "322" /\ PageReady(l.channels, cb.req.after, cb.req.max)
    BY <2>5, ResultMeans, Zenon
  <2>7. CASE cb.kind = "kick"
    BY <1>1, <2>4, <2>6, <2>7, Zenon
  <2>8. CASE cb.kind = "ping"
    <3>1. Range(m.arg) \subseteq seen
      BY <1>4, <2>6, <2>8, Zenon DEF TrueInv
    <3>2. m.arg = <<j>>
      BY <2>1, <2>6, <2>8, Zenon
    <3>3. j \in Range(<<j>>)
      BY SMTT(20) DEF Range
    <3> QED BY <2>4, <2>8, <3>1, <3>2, <3>3, Zenon
  <2>9. CASE cb.kind = "list"
    <3>1. cb.req \in ListRequest
      BY <2>2, <2>4, <2>9, RequestIs, Zenon DEF Callbacks
    <3>2. Last(replies'[j]).page = Page(l.channels, cb.req.after, cb.req.max)
      <4>1. Reply(cb, Outcome(cb, m, l).reply, l).page = Page(l.channels, cb.req.after, cb.req.max)
        BY ONLY <2>5, <2>9, ReplyIs, Zenon
      <4> QED BY ONLY <2>1, <4>1, Zenon
    <3>3. StablePage(j)
      BY <2>4, <2>6, <2>9, <3>1, <3>2, PageTrue, Zenon DEF m
    <3> QED BY <2>4, <2>9, <3>3
  <2> QED BY <2>4, <2>7, <2>8, <2>9, Zenon
<1> QED BY <1>1, <1>5, <1>6, Zenon DEF TrueResults

\* The identifier of a ping, reversed twice, is the one it was.
LEMMA ReverseTwice ==
  ASSUME NEW A, NEW s \in Seq(A)
  PROVE  Reverse(Reverse(s)) = s
<1>1. Len(s) \in Nat /\ s = [k \in 1 .. Len(s) |-> s[k]]
  OBVIOUS
<1> DEFINE n == Len(s)
           t == [k \in 1 .. n |-> s[(n - k) + 1]]
<1>2. Reverse(s) = t
  BY DEF Reverse
<1>3. t \in Seq(A) /\ Len(t) = n /\ \A k \in 1 .. n : t[k] = s[(n - k) + 1]
  BY <1>1
<1> HIDE DEF t
<1>4. Reverse(t) = [k \in 1 .. n |-> t[(n - k) + 1]]
  BY <1>3 DEF Reverse
<1>5. \A k \in 1 .. n : (n - k) + 1 \in 1 .. n /\ (n - ((n - k) + 1)) + 1 = k
  BY <1>1
<1>6. \A k \in 1 .. n : t[(n - k) + 1] = s[k]
  BY <1>3, <1>5, Zenon
<1> QED BY <1>1, <1>2, <1>4, <1>6

\* The answer of an XMPP client to a ping.
LEMMA PongTrue ==
  ASSUME TrueInv, NEW n \in Nick, NEW q \in PingId, OnPingResult(n, Reverse(q))
  PROVE  TrueInv' /\ TrueResults
<1> DEFINE p == Reverse(q)
<1>1. UNCHANGED <<waiting, replies, asked, say, seen>>
  BY DEF OnPingResult, srvVars
<1>2. q \in Seq(STRING)
  BY RequestsAssumptions
<1>3. Reverse(p) = q
  BY <1>2, ReverseTwice, Zenon
<1>4. /\ <<n, p>> \in pings /\ pings' = pings \ {<<n, p>>}
      /\ \/ pongs' = pongs
         \/ Takes(n, p) /\ pongs' = pongs \cup {<<waiting_iq[p], Reverse(p)>>}
  BY DEF OnPingResult
<1>5. Takes(n, p) => waiting_iq[p] = n
  BY DEF Takes
<1>6. \A x \in pongs' \ pongs : x = <<n, q>>
  <2> HIDE DEF p
  <2> QED BY <1>3, <1>4, <1>5
<1>7. ASSUME NEW k \in Nick, NEW o \in PingId, <<k, o>> \in pongs' \ pongs PROVE TruePong(k, o)
  <2>1. k = n /\ o = q
    BY <1>6, <1>7
  <2>2. <<k, Reverse(o)>> = <<n, p>>
    BY <2>1, Zenon
  <2> QED BY <1>4, <2>2 DEF TruePong
<1>8. TrueInv'
  BY <1>1 DEF TrueInv, Due
<1> QED BY <1>1, <1>7, <1>8, Zenon DEF TrueResults

\* Steps that answer nothing: the messages they add are not answers to pings.
LEMMA QuietTrue ==
  ASSUME TrueInv, UNCHANGED <<waiting, replies, asked, pongs>>, seen \subseteq seen',
         \A m \in Range(say') : m.cmd = "PING" => m \in Range(say) \/ Range(m.arg) \subseteq seen'
  PROVE  TrueInv' /\ TrueResults
<1>1. TrueResults
  BY Zenon DEF TrueResults
<1>2. TrueInv'
  BY DEF TrueInv, Due
<1> QED BY <1>1, <1>2, Zenon

\* The target of a ping answers it.
LEMMA ServerAnswersTrue == ASSUME ListInv, TrueInv, ServerAnswers PROVE TrueInv' /\ TrueResults
<1> DEFINE c == Head(todo)
<1>1. say \in Seq(Messages) /\ todo \in Seq(Commands) /\ todo # <<>>
  BY DEF ListInv, ServerAnswers
<1>2. /\ UNCHANGED <<waiting, replies, asked, pongs>> /\ seen \subseteq seen'
      /\ \/ \E cmd \in {"401", "482", "472", "KICK", "VERSION", "263"} :
              say' = Append(say, Message(cmd, c.nick, c.arg))
         \/ say' = Append(say, Message("MODE", Own, <<>>))
         \/ say' = Append(say, Message("PING", c.nick, c.arg)) /\ seen' = seen \cup Range(c.arg)
         \/ \E l \in Listings :
              say' = say \o [k \in 1..Len(l) |-> Message("322", Empty, <<l[k]>>)]
                         \o <<Message("323", Empty, <<>>)>>
  BY Zenon DEF ServerAnswers, iqVars
<1> HIDE DEF c
<1>3. ASSUME NEW x, say' = Append(say, x), x.cmd = "PING" => Range(x.arg) \subseteq seen'
      PROVE  TrueInv' /\ TrueResults
  <2>1. ASSUME NEW y \in Range(say') PROVE y \in Range(say) \/ y = x
    <3> DEFINE A == Messages \cup {x}
    <3>1. say \in Seq(A) /\ x \in A
      BY <1>1, SMTT(20)
    <3> HIDE DEF A
    <3> QED BY <1>3, <2>1, <3>1, RangeAppend
  <2> QED BY <1>2, <1>3, <2>1, QuietTrue
<1>4. ASSUME NEW cmd \in {"401", "482", "472", "KICK", "VERSION", "263"},
             say' = Append(say, Message(cmd, c.nick, c.arg))
      PROVE  TrueInv' /\ TrueResults
  BY <1>3, <1>4, MessageIs, ZenonT(30)
<1>5. CASE say' = Append(say, Message("MODE", Own, <<>>))
  BY <1>3, <1>5, MessageIs, SMTT(20)
<1>6. CASE say' = Append(say, Message("PING", c.nick, c.arg)) /\ seen' = seen \cup Range(c.arg)
  <2>1. Message("PING", c.nick, c.arg).arg = c.arg
    BY MessageIs, SMTT(20)
  <2> QED BY <1>3, <1>6, <2>1, Zenon
<1>7. ASSUME NEW l \in Listings,
             say' = say \o [k \in 1..Len(l) |-> Message("322", Empty, <<l[k]>>)]
                        \o <<Message("323", Empty, <<>>)>>
      PROVE  TrueInv' /\ TrueResults
  <2> DEFINE g(k) == Message("322", Empty, <<l[k]>>)
             a == [k \in 1..Len(l) |-> g(k)]
             e == Message("323", Empty, <<>>)
             b == say \o a
  <2>1. Len(l) \in Nat
    BY RequestsAssumptions, SMTT(20)
  <2>2. e.cmd = "323" /\ \A k : g(k).cmd = "322"
    BY MessageIs
  <2>3. say' = b \o <<e>>
    BY <1>7
  <2> HIDE DEF g, e
  <2> DEFINE A == Messages \cup {e} \cup {g(k) : k \in 1..Len(l)}
  <2>4. say \in Seq(A) /\ e \in A /\ a \in Seq(A) /\ Range(a) = {g(k) : k \in 1..Len(l)}
    BY <1>1, <2>1 DEF Range
  <2>5. \A y \in Range(a) : y.cmd = "322"
    BY <2>2, <2>4
  <2> HIDE DEF A, a
  <2>6. b \in Seq(A) /\ Range(b) = Range(say) \cup Range(a)
    BY <2>4, RangeConcat
  <2> HIDE DEF b
  <2>7. say' = Append(b, e)
    BY <2>3, <2>4, <2>6
  <2>8. Range(say') = Range(b) \cup {e}
    BY <2>4, <2>6, <2>7, RangeAppend
  <2> QED BY <1>2, <2>2, <2>5, <2>6, <2>8, QuietTrue, Zenon
<1> QED BY <1>2, <1>4, <1>5, <1>6, <1>7, ZenonT(30)

\* A connection that is lost, and what the server sends unasked.
LEMMA OthersTrue ==
  ASSUME ListInv, TrueInv, Lost \/ Reconnected \/ ServerJoins \/ ServerNoise
  PROVE  TrueInv' /\ TrueResults
<1>1. UNCHANGED <<waiting, replies, asked, pongs>> /\ seen \subseteq seen'
  BY DEF Lost, Reconnected, ServerJoins, ServerNoise, iqVars
<1>2. CASE Lost
  <2>1. say' = <<>>
    BY <1>2 DEF Lost
  <2>2. Range(say') = {}
    BY <2>1 DEF Range
  <2> QED BY <1>1, <2>2, QuietTrue
<1>3. CASE Reconnected
  <2> DEFINE x == Message("001", Empty, <<>>)
  <2>1. say' = <<x>> /\ x.cmd = "001"
    BY <1>3, MessageIs, Zenon DEF Reconnected
  <2> HIDE DEF x
  <2>2. Range(say') = {x}
    BY <2>1, SMTT(20) DEF Range
  <2> QED BY <1>1, <2>1, <2>2, QuietTrue, Zenon
<1>4. CASE ServerJoins
  <2> DEFINE x == Message("JOIN", Own, <<>>)
             y == Message("353", Empty, Nick)
             z == Message("366", Empty, <<>>)
  <2>1. say' = <<x, y, z>> /\ x.cmd = "JOIN" /\ y.cmd = "353" /\ z.cmd = "366"
    BY <1>4, MessageIs, Zenon DEF ServerJoins
  <2> HIDE DEF x, y, z
  <2>2. Range(say') = {x, y, z}
    BY <2>1 DEF Range
  <2> QED BY <1>1, <2>1, <2>2, QuietTrue, Zenon
<1>5. CASE ServerNoise
  <2>1. PICK x \in Unasked : say' = Append(say, x)
    BY <1>5 DEF ServerNoise
  <2>2. x.cmd # "PING"
    BY MessageIs DEF Unasked
  <2> DEFINE A == Messages \cup {x}
  <2>3. say \in Seq(A) /\ x \in A
    BY DEF ListInv
  <2> HIDE DEF A
  <2>4. Range(say') = Range(say) \cup {x}
    BY <2>1, <2>3, RangeAppend
  <2> QED BY <1>1, <2>2, <2>4, QuietTrue, Zenon
<1> QED BY <1>2, <1>3, <1>4, <1>5, Zenon

\* Nothing waits at first, and every step keeps the callbacks and the answers true.
LEMMA TrueInit == Init => TrueInv
<1> SUFFICES ASSUME Init PROVE TrueInv
  OBVIOUS
<1>1. waiting = <<>> /\ say = <<>>
  BY DEF Init
<1>2. Range(<<>>) = {}
  BY DEF Range
<1> QED BY <1>1, <1>2 DEF TrueInv

\* Every step keeps what the results say true.
LEMMA TrueStep == AnswerInv /\ ListInv /\ TrueInv /\ [Next]_vars => TrueInv' /\ [TrueResults]_vars
<1> SUFFICES ASSUME AnswerInv, ListInv, TrueInv, [Next]_vars PROVE TrueInv' /\ [TrueResults]_vars
  OBVIOUS
<1>1. CASE UNCHANGED vars
  <2>1. UNCHANGED <<waiting, asked, say, seen>>
    BY <1>1, Zenon DEF vars
  <2>2. TrueInv'
    BY <2>1 DEF TrueInv, Due
  <2> QED BY <1>1, <2>2
<1>2. CASE Asks
  BY <1>2, AsksTrue
<1>3. CASE Receive
  BY <1>3, ReceiveTrue
<1>4. ASSUME NEW n \in Nick, NEW q \in PingId, OnPingResult(n, Reverse(q))
      PROVE  TrueInv' /\ TrueResults
  BY <1>4, PongTrue
<1>5. CASE ServerAnswers
  BY <1>5, ServerAnswersTrue
<1>6. CASE Lost \/ Reconnected \/ ServerJoins \/ ServerNoise
  BY <1>6, OthersTrue
<1> QED BY <1>1, <1>2, <1>3, <1>4, <1>5, <1>6 DEF Next

\* An answer says what happened, whatever the order of requests and of what the
\* server says: of a kick, of a ping either way, and of a page of the list.
THEOREM ResultsAlwaysTrue == Spec => ResultIsTrue
<1>1. Init => AnswerInv /\ ListInv /\ TrueInv
  BY AnswerInit, ListInit, TrueInit
<1>2. AnswerInv /\ ListInv /\ TrueInv /\ [Next]_vars => AnswerInv' /\ ListInv' /\ TrueInv'
  BY AnswerStep, ListStep, TrueStep
<1>3. AnswerInv /\ ListInv /\ TrueInv /\ [Next]_vars => [TrueResults]_vars
  BY TrueStep
<1> QED BY <1>1, <1>2, <1>3, PTL DEF Spec, ResultIsTrue
=============================================================================
