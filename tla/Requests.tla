------------------------------ MODULE Requests ------------------------------
(***************************************************************************)
(* The iq requests of XMPP clients that an IRC server answers later (kick, *)
(* role change, ping, version, channel list): the callbacks of             *)
(* Bridge::waiting_irc and the cache of the channel list.  And the pings   *)
(* of IRC users that an XMPP client answers later: the callbacks of        *)
(* BiboumiComponent::waiting_iq.  One bridge, one server, one channel.     *)
(*                                                                         *)
(* The stanzas that are answered at once, or never, are here for the       *)
(* number of their answers: Dispatch says which they are.                  *)
(***************************************************************************)
EXTENDS Integers, Sequences, FiniteSets, Functions, Filtering, Dispatch

CONSTANTS
  IqIds,      \* the ids of the requests, in the order they are used
  Asked,      \* what they ask: a set of [kind, nick]
  Stanzas,    \* the iqs and messages
  Nick,       \* nicks other than the user's own
  Listings,   \* what LIST may return: sequences of channels without repetition
  Maxes,      \* values of the "max" of a list request
  PingId,     \* identifiers of the pings of IRC users: sequences of characters
  MaxStimuli, \* requests and messages the server sends unasked, together
  MaxLosses   \* connections lost

Empty == ""

ASSUME RequestsAssumptions ==
  /\ Asked \subseteq [kind: {"kick", "role", "ping", "version"}, nick: Nick]
  /\ \A l \in Listings : l \in Seq(STRING \ {Empty}) /\ IsInjective(l)
  /\ Maxes \subseteq Nat
  /\ \A p \in PingId : p \in Seq(STRING) /\ p # <<>>
  /\ IqIds \in Seq(STRING) /\ IsInjective(IqIds) /\ MaxStimuli \in Nat /\ MaxLosses \in Nat

VARIABLES
  phase,     \* "out", "connected" or "joined"
  client,    \* which IrcClient it is (a new one after each loss)
  users,     \* the nicks in the list of the channel
  waiting,   \* waiting_irc: the callbacks, in order
  list,      \* channel_list_cache: complete, and the channels so far
  replies,   \* the answers sent for each iq
  asked,     \* what each iq asked
  todo,      \* commands on their way to the server
  say,       \* messages on their way from the server
  waiting_iq,\* waiting_iq: for each id, the nick its ping came from
  pings,     \* pings of IRC users an XMPP client has to answer: <<nick, id>>
  pongs,     \* answers sent to IRC users: <<nick, id>>
  bounced,   \* the answers to pings that were themselves answered with an error
  seen,      \* history: the iqs whose ping was answered by its target
  noise      \* messages sent unasked so far

vars == <<phase, client, users, waiting, list, replies, asked, todo, say, waiting_iq, pings,
          pongs, bounced, seen, noise>>
iqVars == <<waiting_iq, pings, pongs, bounced>>
srvVars == <<todo, say, seen, noise>>

Iq == Range(IqIds)
Nothing == [kind |-> "nothing", nick |-> Empty, after |-> Empty, max |-> 0]
Request == {[kind |-> a.kind, nick |-> a.nick, after |-> Empty, max |-> 0] : a \in Asked}
Rooms == UNION {Range(l) : l \in Listings}
ListRequest == [kind: {"list"}, nick: {Empty}, after: Rooms \cup {Empty}, max: Maxes]

Init ==
  /\ phase = "joined" /\ client = 0 /\ users = Nick
  /\ waiting = <<>> /\ list = [complete |-> TRUE, channels |-> <<>>]
  /\ replies = [i \in Iq |-> <<>>] /\ asked = [i \in Iq |-> Nothing]
  /\ todo = <<>> /\ say = <<>>
  /\ waiting_iq = [p \in {} |-> Empty] /\ pings = {} /\ pongs = {} /\ bounced = {}
  /\ seen = {} /\ noise = 0

-----------------------------------------------------------------------------
(* send_matching_channel_list(): the page of a list.  A request names the  *)
(* channel its page starts after, or none; "before" is left out.           *)

Index(l, c) == IF \E k \in 1..Len(l) : l[k] = c THEN CHOOSE k \in 1..Len(l) : l[k] = c ELSE 0

MutPage(l, after, max) ==
  LET first == Index(l, after) + 1
      last == IF Len(l) - first + 1 >= max THEN first + max - 2 ELSE Len(l)
  IN  SubSeq(l, first, last)

\* From a complete list: an unknown "after" starts at the beginning.
Page(l, after, max) ==
  LET first == Index(l, after) + 1
      last == IF Len(l) - first + 1 >= max THEN first + max - 1 ELSE Len(l)
  IN  SubSeq(l, first, last)

\* From a list that is still arriving: only when the whole page is there.
PageReady(l, after, max) ==
  /\ after # Empty => Index(l, after) > 0
  /\ Len(l) - Index(l, after) >= max

-----------------------------------------------------------------------------
(* The callbacks of waiting_irc: whether a callback is removed, and what it *)
(* sends.                                                                   *)

Own == "me"
Message(cmd, nick, arg) == [cmd |-> cmd, nick |-> nick, arg |-> arg]
Callback(kind, i, r) == [kind |-> kind, iq |-> i, client |-> client, req |-> r]

Stays == [done |-> FALSE, reply |-> "none"]
Leaves == [done |-> TRUE, reply |-> "none"]
Answers(reply) == [done |-> TRUE, reply |-> reply]

\* send_irc_kick(): any other message removes the callback.
KickCallback(cb, m) ==
  CASE m.cmd \in {"KICK", "401"} ->
         IF m.nick # cb.req.nick THEN Stays
         ELSE Answers(IF m.cmd = "KICK" THEN "result" ELSE "error")
    [] m.cmd = "482" -> Answers("error")
    [] OTHER -> Leaves

\* forward_affiliation_role_change(): the same.
RoleCallback(cb, m) ==
  CASE m.cmd = "MODE" -> IF m.nick # Own THEN Stays ELSE Answers("result")
    [] m.cmd = "401" -> IF m.nick # cb.req.nick THEN Stays ELSE Answers("error")
    [] m.cmd \in {"482", "472"} -> Answers("error")
    [] OTHER -> Leaves

\* send_irc_user_ping_request(): the NOTICE carries the id of the iq.
PingCallback(cb, m) ==
  CASE m.cmd = "PING" /\ m.nick = cb.req.nick /\ m.arg = <<cb.iq>> -> Answers("result")
    [] m.cmd = "401" /\ m.nick = cb.req.nick -> Answers("error")
    [] OTHER -> Stays

\* send_irc_version_request()
VersionCallback(cb, m) ==
  CASE m.cmd = "VERSION" /\ m.nick = cb.req.nick -> Answers("result")
    [] m.cmd = "401" /\ m.nick = cb.req.nick -> Answers("error")
    [] OTHER -> Stays

\* send_irc_channel_list_request(): the callback that fills the cache, ...
FillCallback(m) == IF m.cmd \in {"263", "323"} THEN Leaves ELSE Stays

Filled(m) ==
  CASE m.cmd \in {"263", "323"} -> [list EXCEPT !.complete = TRUE]
    [] m.cmd = "322" -> [list EXCEPT !.channels = @ \o m.arg]
    [] OTHER -> list

\* The end of the list answers nothing.
MutListNoEnd(cb, m, l) ==
  CASE m.cmd = "263" -> Answers("error")
    [] m.cmd = "322" -> IF PageReady(l.channels, cb.req.after, cb.req.max)
                        THEN Answers("result") ELSE Stays
    [] OTHER -> Stays

\* ... and the one that answers, from the cache as the first one left it.
ListCallback(cb, m, l) ==
  CASE m.cmd = "263" -> Answers("error")
    [] m.cmd = "323" -> Answers("result")
    [] m.cmd = "322" -> IF PageReady(l.channels, cb.req.after, cb.req.max)
                        THEN Answers("result") ELSE Stays
    [] OTHER -> Stays

Outcome(cb, m, l) ==
  CASE cb.kind = "kick" -> KickCallback(cb, m)
    [] cb.kind = "role" -> RoleCallback(cb, m)
    [] cb.kind = "ping" -> PingCallback(cb, m)
    [] cb.kind = "version" -> VersionCallback(cb, m)
    [] cb.kind = "fill" -> FillCallback(m)
    [] cb.kind = "list" -> ListCallback(cb, m, l)

\* A reply, with the page when it is the result of a list request.
Reply(cb, reply, l) ==
  [type |-> reply,
   page |-> IF cb.kind = "list" /\ reply = "result"
            THEN Page(l.channels, cb.req.after, cb.req.max) ELSE <<>>]

\* trigger_on_irc_message().  The callback that fills the cache was added
\* before the ones that answer from it.
Trigger(m) ==
  LET Fills(cb) == cb.kind = "fill"
      l == IF \E k \in 1..Len(waiting) : Fills(waiting[k]) THEN Filled(m) ELSE list
      Kept == {cb \in Range(waiting) : ~Outcome(cb, m, l).done}
      For(i) == Filter(waiting, {cb \in Range(waiting) : cb.iq = i /\ Outcome(cb, m, l).reply # "none"})
  IN  /\ list' = l
      /\ waiting' = Filter(waiting, Kept)
      /\ replies' = [i \in Iq |-> replies[i] \o
                       [k \in 1..Len(For(i)) |->
                          Reply(For(i)[k], Outcome(For(i)[k], m, l).reply, l)]]

-----------------------------------------------------------------------------
(* The requests: handle_iq() and the functions of Bridge it calls.         *)

Used == {j \in Iq : asked[j] # Nothing}
MoreStimuli == noise + Cardinality(Used) < MaxStimuli
Fresh(i) ==
  /\ MoreStimuli
  /\ \E n \in 1 .. Len(IqIds) : i = IqIds[n] /\ i \notin Used /\ \A m \in 1 .. n - 1 : IqIds[m] \in Used

Answer(type) == [type |-> type, page |-> <<>>]

\* What the scope guard of handle_iq() adds to the answers of an iq.
Guard(d) == IF d.guard THEN <<Answer("error")>> ELSE <<>>
Replies(i, sent) == replies' = [replies EXCEPT ![i] = @ \o sent]

\* The iq is answered by the function that handle_iq() calls.
Now(i, reply, d) == Replies(i, <<Answer(reply)>> \o Guard(d)) /\ UNCHANGED <<waiting, todo>>

\* IRCNotConnected becomes an error, and disables the guard.
Throws(i) == Replies(i, <<Answer("error")>>) /\ UNCHANGED <<waiting, todo>>

\* A command is sent and a callback waits for the answer.
Later(i, r, d) ==
  /\ todo' = Append(todo, Message(r.kind, r.nick, <<i>>))
  /\ waiting' = Append(waiting, Callback(r.kind, i, r))
  /\ Replies(i, Guard(d))

Silence(i, d) == Replies(i, Guard(d)) /\ UNCHANGED <<waiting, todo>>

\* A stanza that needs no other function.
AskNow(i, kind, d) ==
  LET sent == Guarded(d)
  IN  /\ Fresh(i)
      /\ asked' = [asked EXCEPT ![i] = [Nothing EXCEPT !.kind = kind]]
      /\ Replies(i, [k \in 1..Len(sent) |-> Answer(sent[k])])
      /\ UNCHANGED <<phase, client, users, waiting, todo, list, say, seen, noise, iqVars>>

Ask(i, r, d) ==
  /\ Fresh(i)
  /\ asked' = [asked EXCEPT ![i] = r]
  /\ IF phase = "out" THEN Throws(i) ELSE Later(i, r, d)
  /\ UNCHANGED <<phase, client, users, list, say, seen, noise, iqVars>>

\* A role needs the channel and the nick, and a mode to change: a user that
\* has none of those to remove is left alone, and the iq without an answer.
AskRole(i, r, d) ==
  /\ Fresh(i)
  /\ asked' = [asked EXCEPT ![i] = r]
  /\ \/ phase = "out" /\ Throws(i)
     \/ phase = "connected" /\ Silence(i, d)
     \/ phase = "joined" /\ r.nick \notin users /\ Now(i, "error", d)
     \/ phase = "joined" /\ r.nick \in users /\ (Silence(i, d) \/ Later(i, r, d))
  /\ UNCHANGED <<phase, client, users, list, say, seen, noise, iqVars>>

\* send_irc_participant_ping_request(): through the channel.
AskParticipant(i, r, d) ==
  /\ Fresh(i)
  /\ asked' = [asked EXCEPT ![i] = r]
  /\ \/ phase = "out" /\ Throws(i)
     \/ phase = "joined" /\ r.nick \in users /\ Later(i, r, d)
     \/ phase = "joined" /\ r.nick \notin users /\ Now(i, "error", d)
     \/ phase = "connected" /\ Now(i, "error", d)
  /\ UNCHANGED <<phase, client, users, list, say, seen, noise, iqVars>>

\* The user pings its own nick in the channel.
AskSelf(i, d) ==
  /\ Fresh(i)
  /\ asked' = [asked EXCEPT ![i] = [Nothing EXCEPT !.kind = "self"]]
  /\ IF phase = "out" THEN Throws(i) ELSE Now(i, IF phase = "joined" THEN "result" ELSE "error", d)
  /\ UNCHANGED <<phase, client, users, list, say, seen, noise, iqVars>>

\* A new list is asked for when there is none, or when the first page of a
\* complete one is.
NeedsList(r) == list.complete /\ (list.channels = <<>> \/ r.after = Empty)

AskList(i, r, d) ==
  /\ Fresh(i)
  /\ asked' = [asked EXCEPT ![i] = r]
  /\ \/ NeedsList(r) /\ phase = "out" /\ Throws(i) /\ UNCHANGED list
     \/ /\ NeedsList(r) /\ phase # "out"
        /\ todo' = Append(todo, Message("LIST", Empty, <<i>>))
        /\ list' = [complete |-> FALSE, channels |-> <<>>]
        /\ waiting' = waiting \o <<Callback("fill", i, r), Callback("list", i, r)>>
        /\ Replies(i, Guard(d))
     \/ /\ ~NeedsList(r) /\ list.complete
        /\ Replies(i, <<[type |-> "result", page |-> Page(list.channels, r.after, r.max)]>> \o Guard(d))
        /\ UNCHANGED <<waiting, todo, list>>
     \/ /\ ~NeedsList(r) /\ ~list.complete
        /\ waiting' = Append(waiting, Callback("list", i, r))
        /\ Replies(i, Guard(d))
        /\ UNCHANGED <<todo, list>>
  /\ UNCHANGED <<phase, client, users, say, seen, noise, iqVars>>

-----------------------------------------------------------------------------
(* Pings from IRC, answered by an XMPP client.                             *)

\* send_xmpp_ping_request() reverses the id; waiting_iq[id] is overwritten.
OnCtcpPing(n, p) ==
  /\ waiting_iq' = [q \in DOMAIN waiting_iq \cup {Reverse(p)} |->
                      IF q = Reverse(p) THEN n ELSE waiting_iq[q]]
  /\ pings' = pings \cup {<<n, Reverse(p)>>}
  /\ UNCHANGED <<pongs, bounced>>

\* A mistaken callback: only the id is looked at.
MutTakes(n, p) == p \in DOMAIN waiting_iq

\* The callback of a ping looks at the nick.
Takes(n, p) == p \in DOMAIN waiting_iq /\ waiting_iq[p] = n

\* handle_iq(), a result or an error.  The callback sends the answer with the id
\* reversed again, for an error only when it says that pings are not supported,
\* and is removed.  If the client is gone it throws: it stays, and an error is
\* sent to the one that answered.
OnPingResult(n, p) ==
  /\ <<n, p>> \in pings
  /\ pings' = pings \ {<<n, p>>}
  /\ \E supported \in BOOLEAN :
       LET valid == Takes(n, p) /\ supported
       IN  IF valid /\ phase = "out"
           THEN bounced' = bounced \cup {<<n, p>>} /\ UNCHANGED <<waiting_iq, pongs>>
           ELSE /\ waiting_iq' = [q \in DOMAIN waiting_iq \ {p} |-> waiting_iq[q]]
                /\ pongs' = IF valid THEN pongs \cup {<<waiting_iq[p], Reverse(p)>>} ELSE pongs
                /\ UNCHANGED bounced
  /\ UNCHANGED <<phase, client, users, waiting, list, replies, asked, srvVars>>

-----------------------------------------------------------------------------
(* What the client receives: the handler of the command, then the callbacks. *)

Receive ==
  /\ say # <<>> /\ phase # "out"
  /\ LET m == Head(say)
     IN  /\ say' = Tail(say)
         /\ users' = IF m.cmd = "KICK" THEN users \ {m.nick}
                     ELSE IF m.cmd = "JOIN" THEN users \cup {m.nick}
                     ELSE IF m.cmd = "353" THEN users \cup m.arg ELSE users
         /\ phase' = IF m.cmd = "366" THEN "joined" ELSE phase
         /\ IF m.cmd = "CTCP" THEN OnCtcpPing(m.nick, m.arg) ELSE UNCHANGED iqVars
         /\ Trigger(m)
  /\ UNCHANGED <<client, asked, todo, seen, noise>>

\* The connection is lost and the client removed; another one is made.
\* Nothing is done to waiting_irc and to the cache.
Lost ==
  /\ phase # "out" /\ client < MaxLosses
  /\ phase' = "out" /\ users' = {} /\ todo' = <<>> /\ say' = <<>>
  /\ client' = client + 1
  /\ UNCHANGED <<waiting, list, replies, asked, seen, noise, iqVars>>

Reconnected ==
  /\ phase = "out"
  /\ phase' = "connected"
  /\ say' = <<Message("001", Empty, <<>>)>>
  /\ UNCHANGED <<client, users, waiting, list, replies, asked, todo, seen, noise, iqVars>>

-----------------------------------------------------------------------------
(* The server.                                                             *)

ServerAnswers ==
  /\ todo # <<>>
  /\ todo' = Tail(todo)
  /\ LET c == Head(todo)
         Says(cmd) == say' = Append(say, Message(cmd, c.nick, c.arg))
     IN  \/ /\ c.cmd \in {"kick", "role", "ping", "version"}
            /\ Says("401") /\ UNCHANGED seen
         \/ c.cmd \in {"kick", "role"} /\ Says("482") /\ UNCHANGED seen
         \/ c.cmd = "role" /\ Says("472") /\ UNCHANGED seen
         \/ c.cmd = "kick" /\ Says("KICK") /\ UNCHANGED seen
         \/ c.cmd = "role" /\ say' = Append(say, Message("MODE", Own, <<>>)) /\ UNCHANGED seen
         \/ c.cmd = "ping" /\ Says("PING") /\ seen' = seen \cup Range(c.arg)
         \/ c.cmd = "version" /\ Says("VERSION") /\ UNCHANGED seen
         \/ c.cmd = "LIST" /\ Says("263") /\ UNCHANGED seen
         \/ /\ c.cmd = "LIST"
            /\ \E l \in Listings :
                 say' = say \o [k \in 1..Len(l) |-> Message("322", Empty, <<l[k]>>)]
                            \o <<Message("323", Empty, <<>>)>>
            /\ UNCHANGED seen
  /\ UNCHANGED <<phase, client, users, waiting, list, replies, asked, noise, iqVars>>

\* Unasked: chatter, a mode that someone else sets, a kick, a CTCP PING.
Unasked ==
  {Message("PRIVMSG", Empty, <<>>), Message("MODE", Empty, <<>>)}
  \cup {Message("KICK", n, <<>>) : n \in Nick} \cup {Message("CTCP", n, p) : n \in Nick, p \in PingId}

\* The user's own join of the channel, after the welcome.
ServerJoins ==
  /\ phase = "connected" /\ todo = <<>> /\ say = <<>>
  /\ say' = <<Message("JOIN", Own, <<>>), Message("353", Empty, Nick), Message("366", Empty, <<>>)>>
  /\ UNCHANGED <<phase, client, users, waiting, list, replies, asked, todo, seen, noise, iqVars>>

ServerNoise ==
  /\ phase # "out" /\ MoreStimuli
  /\ \E m \in Unasked :
       /\ m.cmd # "CTCP" => phase = "joined"
       /\ m.cmd = "CTCP" => <<m.nick, Reverse(m.arg)>> \notin pings
       /\ say' = Append(say, m)
  /\ noise' = noise + 1
  /\ UNCHANGED <<phase, client, users, waiting, list, replies, asked, todo, seen, iqVars>>

-----------------------------------------------------------------------------
\* The iqs that must be answered, those that must not be, and the result of a
\* version request, which is relayed to IRC.
IqKind(q) ==
  IF q.type \notin {"result", "error"} THEN "iq"
  ELSE IF q.child = "version" THEN "relay" ELSE "answer"

\* What the stanzas lead to, with an IRC client and without.
Handled ==
  {[connected |-> c, kind |-> IqKind(q), effect |-> HandleIq(q, c)] : q \in Stanzas.iqs, c \in BOOLEAN}
Delivered ==
  {[connected |-> c, kind |-> IF m.type = "error" THEN "answer" ELSE "message",
    effect |-> HandleMessage(m, c, inside)] : m \in Stanzas.messages, c \in BOOLEAN, inside \in BOOLEAN}
AllHandled == Handled \cup Delivered

AskIq(i, d) ==
  \/ \E r \in Request :
       \/ d.op = r.kind /\ r.kind # "role" /\ Ask(i, r, d)
       \/ d.op = "role" /\ r.kind = "role" /\ AskRole(i, r, d)
       \/ d.op = "participant" /\ r.kind = "ping" /\ AskParticipant(i, r, d)
  \/ d.op = "participant" /\ AskSelf(i, d)
  \/ d.op = "list" /\ \E r \in ListRequest : AskList(i, r, d)

Asks ==
  \E i \in Iq : \E h \in AllHandled :
    /\ Fresh(i) /\ h.connected = (phase # "out")
    /\ \/ h.effect.op = "none" /\ AskNow(i, h.kind, h.effect)
       \/ h.effect.op # "none" /\ AskIq(i, h.effect)

Next ==
  \/ Asks \/ Receive \/ Lost \/ Reconnected
  \/ \E n \in Nick, p \in {Reverse(q) : q \in PingId} : OnPingResult(n, p)
  \/ ServerAnswers \/ ServerJoins \/ ServerNoise

Spec == Init /\ [][Next]_vars

(* Lines are read, and the server answers a command with one of its answers. *)
Fairness == WF_vars(Receive) /\ WF_vars(ServerAnswers)
FairSpec == Spec /\ Fairness

-----------------------------------------------------------------------------
(* Properties.                                                             *)

\* The variables keep their types; at most one callback fills the cache.
TypeOK ==
  /\ phase \in {"out", "connected", "joined"} /\ client \in 0..MaxLosses /\ users \subseteq Nick \cup {Own}
  /\ \A k \in 1..Len(waiting) :
       waiting[k].kind \in {"kick", "role", "ping", "version", "fill", "list"}
  /\ Cardinality({k \in 1..Len(waiting) : waiting[k].kind = "fill"}) <= 1
  /\ list.complete \in BOOLEAN /\ list.channels \in Seq(Rooms)

\* "We MUST return an iq, whatever happens": an iq that no function of Bridge
\* takes has one answer, the others at most one, and none while their callback
\* still waits.  An answer is not answered, and a message at most once.
AnsweredOnce ==
  \A i \in Iq :
    /\ Len(replies[i]) <= 1
    /\ asked[i].kind = "iq" => Len(replies[i]) = 1
    /\ asked[i].kind = "answer" => replies[i] = <<>>
    /\ (\E k \in 1..Len(waiting) : waiting[k].iq = i /\ waiting[k].kind # "fill")
         => replies[i] = <<>>

\* A page of the list that arrives is the page that the whole list will give.
StablePage(i) ==
  LET coming == Filter(say', {m \in Range(say') : m.cmd = "322"})
      rest == IF list'.complete THEN <<>> ELSE [k \in 1..Len(coming) |-> coming[k].arg[1]]
  IN  Last(replies'[i]).page = Page(list'.channels \o rest, asked'[i].after, asked'[i].max)

\* A NOTICE that answers a ping goes to the nick that sent it, with its id, and
\* when the XMPP client has answered this very ping, not another's of that id.
TruePong(n, p) == <<n, Reverse(p)>> \in pings \ pings'

\* What a step that sends an answer may do.
TrueResults ==
  /\ \A i \in Iq :
       replies'[i] # replies[i] /\ Last(replies'[i]).type = "result"
         => /\ asked'[i].kind = "kick" => asked'[i].nick \notin users'
            /\ asked'[i].kind = "ping" => i \in seen
            /\ asked'[i].kind = "list" => StablePage(i)
  /\ \A n \in Nick, p \in PingId : <<n, p>> \in pongs' \ pongs => TruePong(n, p)

\* An answer says what happened.  When a result is sent the nick that was to be
\* kicked has left the channel, the nick that was pinged has answered this very
\* ping, and the page is the one the whole list will give; a NOTICE answers a
\* ping that the XMPP client has answered.
ResultIsTrue == [][TrueResults]_vars

\* A client that asks page after page, each after the last channel of the one
\* before, is given the whole cached list once.
Walk(l, max) ==
  LET From[c \in Range(l) \cup {Empty}] ==
        LET p == Page(l, c, max) IN IF p = <<>> THEN <<>> ELSE p \o From[Last(p)]
  IN  From[Empty]

PagesCoverList ==
  list.complete => \A max \in Maxes \ {0} : Walk(list.channels, max) = list.channels

\* bridge.hpp:26: a callback that is removed has sent an answer.
RemovedMeansAnswered ==
  [][\A k \in 1..Len(waiting) :
       LET cb == waiting[k]
       IN  cb \notin Range(waiting') /\ cb.kind # "fill" => replies'[cb.iq] # replies[cb.iq]]_vars

\* As long as the connection lasts, a list request is answered, and so are a
\* ping and a version request: the server answers them in the end.
Unanswered == \E i \in Iq : asked[i].kind \in {"list", "ping", "version"} /\ replies[i] = <<>>
RequestsAnswered == <>[](Unanswered => client > 0)
=============================================================================
