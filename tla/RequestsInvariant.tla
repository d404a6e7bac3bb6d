------------------------- MODULE RequestsInvariant --------------------------
(***************************************************************************)
(* What the proofs about the requests keep true, and the words they say it *)
(* in: how many answers an iq has and may still get, and where the lines   *)
(* of a channel list are.                                                  *)
(***************************************************************************)
EXTENDS Requests

\* One answer is sent at once, or the iq is given to Bridge without one, or there
\* is no answer.
OneAnswer(d) == d.op = "none" /\ Len(Guarded(d)) = 1
Deferred(d) == d.op \in {"kick", "role", "version", "list", "ping", "participant"}
               /\ Guarded(d) = <<>> /\ ~d.guard
Silent(d) == d.op = "none" /\ Len(Guarded(d)) = 0

\* A sequence, of whatever elements.
IsSeq(s) == s \in Seq(Range(s))

\* The elements of waiting_irc.
Kinds == {"kick", "role", "ping", "version", "fill", "list"}
Callbacks == [kind: Kinds, iq: Iq, client: Nat, req: Request \cup ListRequest]

\* The callbacks that may answer the iq i.
AnswersTo(i) == {cb \in Callbacks : cb.iq = i /\ cb.kind # "fill"}
Waits(i) == Len(Filter(waiting, AnswersTo(i)))

\* What waits for the iq and what it was answered are one together at most.
Once(i) ==
  /\ IsSeq(replies[i])
  /\ Waits(i) + Len(replies[i]) <= 1
  /\ asked[i] = Nothing \/ asked[i].kind = "answer" => Waits(i) = 0 /\ Len(replies[i]) = 0
  /\ asked[i].kind = "iq" => Len(replies[i]) = 1

\* No iq is answered twice.
AnswerInv ==
  /\ waiting \in Seq(Callbacks) /\ client \in Nat
  /\ asked = [i \in Iq |-> asked[i]] /\ replies = [i \in Iq |-> replies[i]]
  /\ \A i \in Iq : Once(i)

\* A step that uses the fresh id i, and adds to what waits for it and to its
\* answers one thing together at most.
Uses(i, r, sent) ==
  /\ asked' = [asked EXCEPT ![i] = r] /\ r # Nothing
  /\ Replies(i, sent) /\ IsSeq(sent) /\ client' \in Nat
  /\ waiting' \in Seq(Callbacks)
  /\ \A j \in Iq : j # i => Waits(j)' = Waits(j)
  /\ Waits(i)' \in Nat /\ Waits(i)' + Len(sent) <= 1
  /\ r.kind = "answer" => Waits(i)' = 0 /\ Len(sent) = 0
  /\ r.kind = "iq" => Len(sent) = 1

\* The callbacks of a sequence that may answer an iq, one by one.
Count(s, j) == Len(Filter(s, AnswersTo(j)))

\* The channels of a LIST: no name is empty, and none is there twice.
IsListing(l) == l \in Seq(STRING \ {Empty}) /\ IsInjective(l)

\* The function that Walk defines by recursion, as an equation.
Pages(f, l, max) ==
  f = [c \in Range(l) \cup {Empty} |->
         LET p == Page(l, c, max) IN IF p = <<>> THEN <<>> ELSE p \o f[Last(p)]]

\* What is sent to the IRC server, and what it says.
Commands == [cmd: {"kick", "role", "ping", "version", "LIST"}, nick: Nick \cup {Empty},
             arg: {<<i>> : i \in Iq}]
Numerics == {"401", "482", "472", "263", "322", "323", "001", "353", "366"}
Verbs == {"KICK", "MODE", "PING", "VERSION", "JOIN", "PRIVMSG", "CTCP"}
Messages == [cmd: Numerics \cup Verbs, nick: Nick \cup {Own, Empty},
             arg: Seq(STRING) \cup PingId \cup {Nick}]

\* The LIST that the server has not read, and the lines of a LIST that the
\* gateway has not.
ListCommands == {c \in Commands : c.cmd = "LIST"}
ListMessages == {m \in Messages : m.cmd \in {"263", "322", "323"}}
LISTs == Filter(todo, ListCommands)
Coming == Filter(say, ListMessages)

\* The lines that follow the first n channels of l.
Lines(l, n) ==
  [k \in 1 .. Len(l) - n + 1 |-> IF k <= Len(l) - n THEN Message("322", Empty, <<l[n + k]>>)
                                 ELSE Message("323", Empty, <<>>)]

\* The states of a LIST: it is in the cache, a lost connection has cut it, it was
\* sent, it was refused, or its lines are arriving.
Cached == /\ list.complete /\ LISTs = <<>> /\ Coming = <<>>
          /\ list.channels = <<>> \/ list.channels \in Listings
Broken == ~list.complete /\ LISTs = <<>> /\ Coming = <<>>
Requested == ~list.complete /\ Len(LISTs) = 1 /\ Coming = <<>> /\ list.channels = <<>>
Refused == /\ ~list.complete /\ LISTs = <<>> /\ list.channels = <<>>
           /\ Len(Coming) = 1 /\ Coming[1].cmd = "263"
Arriving == /\ ~list.complete /\ LISTs = <<>>
            /\ \E l \in Listings : \E n \in 0 .. Len(l) :
                 list.channels = SubSeq(l, 1, n) /\ Coming = Lines(l, n)

\* A callback that fills the cache waits.
Fills == \E k \in 1 .. Len(waiting) : waiting[k].kind = "fill"

\* There is one LIST at a time, and the cache holds the beginning of it.
ListInv ==
  /\ todo \in Seq(Commands) /\ say \in Seq(Messages)
  /\ phase = "out" => todo = <<>> /\ say = <<>>
  /\ list = [complete |-> list.complete, channels |-> list.channels] /\ list.complete \in BOOLEAN
  /\ Fills <=> ~list.complete
  /\ Cached \/ Broken \/ Requested \/ Refused \/ Arriving

\* The callback serves what its iq asked.
Due(cb, a) == /\ a[cb.iq] = cb.req
              /\ cb.kind = cb.req.kind \/ (cb.kind = "fill" /\ cb.req.kind = "list")

\* What waits was asked, and the answers to a ping are of nicks that sent them.
TrueInv ==
  /\ \A cb \in Range(waiting) : Due(cb, asked)
  /\ \A m \in Range(say) : m.cmd = "PING" => Range(m.arg) \subseteq seen
=============================================================================
