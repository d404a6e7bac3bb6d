------------------------------- MODULE Link ---------------------------------
(***************************************************************************)
(* The process: main_loop(), its poller, its timed events and its signals, *)
(* and the connection to the XMPP server.  IRC clients are here only as    *)
(* the sockets that keep the process alive (Bridge and Connection say what *)
(* they do); identd is a listening socket and the sockets it accepts.      *)
(*                                                                         *)
(* One iteration of the loop is a poll, the handlers of the sockets that   *)
(* were ready, one by one, then everything that follows in the body of the *)
(* loop.  Signals are blocked outside of the poll.                         *)
(***************************************************************************)
EXTENDS Integers, Sequences, FiniteSets, SequencesExt

CONSTANTS
  Client,      \* IRC clients
  Peer,        \* sockets of identd
  MaxTroubles, \* bound: refused attempts, timeouts and lost connections
  MaxSignals,  \* bound: signals sent to the process
  MaxChats,    \* bound: joins, leaves, IRC messages and connections to identd
  Faults       \* what else may happen, a subset of AllFaults

\* "at_once": connect() to the XMPP server fails before it returns;
\* "silent": an IRC server never answers a QUIT;
\* "erase": the ad-hoc command that disconnects from a server is used.
AllFaults == {"at_once", "silent", "erase"}

ASSUME LinkAssumptions ==
  /\ Faults \subseteq AllFaults
  /\ MaxTroubles \in Nat /\ MaxSignals \in Nat /\ MaxChats \in Nat
  /\ (Client \cap Peer) = {} /\ ({"xmpp", "identd", "dns"} \cap (Client \cup Peer)) = {}

VARIABLES
  pc,      \* "poll", "batch", "after" (the rest of the body) or "ended"
  batch,   \* the handlers that were ready and have not been called yet
  m,       \* the memory of the process, see Init
  net,     \* what happened to each socket: "none", "up", "refused", "msg", "eof"
  inbox,   \* what the XMPP server has sent
  server,  \* what the XMPP server expects next on the stream: "header",
           \* "handshake" or "stanza"; "none" when it is over
  clock    \* history: troubles, signals and chats so far, and the clients
           \* that were made after the process was told to stop

vars == <<pc, batch, m, net, inbox, server, clock>>

Handler == {"xmpp", "identd", "dns"} \cup Client \cup Peer
Sockets == {"xmpp", "identd"} \cup Client \cup Peer

-----------------------------------------------------------------------------
(* The XMPP connection.                                                    *)

\* send_data(): several stanzas in a row count for one.
Send(x, s) ==
  IF s = "stanza" /\ x.out # <<>> /\ Last(x.out) = s THEN x
  ELSE [x EXCEPT !.out = Append(@, s)]

\* TCPClientSocketHandler::close()
Close(x, h) ==
  [x EXCEPT !.conn[h] = "closed", !.managed = @ \ {h},
            !.out = IF h = "xmpp" THEN <<>> ELSE @]

\* XmppComponent::on_connection_failed(), after the close().
OnConnectionFailed(x) == [Close(x, "xmpp") EXCEPT !.first = FALSE]

\* XmppComponent::on_connected()
OnConnected(x) ==
  Send([x EXCEPT !.conn["xmpp"] = "connected", !.first = TRUE, !.open = TRUE], "header")

\* The parser goes on with the stream that was lost.
MutStart(x) == {[x EXCEPT !.conn["xmpp"] = "connecting", !.managed = @ \cup {"xmpp"}]}

\* reset() and start(): the attempt is under way, or has failed at once.
Start(x) ==
  LET y == [x EXCEPT !.parsing = FALSE]
  IN  {[y EXCEPT !.conn["xmpp"] = "connecting", !.managed = @ \cup {"xmpp"}]}
      \cup IF "at_once" \in Faults THEN {OnConnectionFailed(y)} ELSE {}

\* close_document()
CloseDocument(x) == [Send(x, "close") EXCEPT !.open = FALSE]

\* What the constructors make.
Idle == [alive |-> {"xmpp", "identd", "dns"}, managed |-> {"identd", "dns"},
         conn |-> [h \in Sockets |-> "closed"], quit |-> {},
         ever |-> FALSE, first |-> TRUE, open |-> FALSE, parsing |-> FALSE, out |-> <<>>,
         reconnect |-> FALSE, raise |-> FALSE, pending |-> FALSE,
         stop |-> FALSE, exiting |-> FALSE, timeout |-> FALSE]

-----------------------------------------------------------------------------
(* The timed events: the reconnection, the repeated signal, the end of an  *)
(* attempt to connect, and the repeated event of the bucket of a client.   *)

Timers(x) ==
  {h \in Sockets : x.conn[h] = "connecting"}
  \cup (IF x.reconnect THEN {"reconnect"} ELSE {}) \cup (IF x.raise THEN {"raise"} ELSE {})

\* get_timeout() is not no_timeout.
HasTimer(x) == Timers(x) # {} \/ x.alive \cap Client # {}

\* execute_expired_events(): an attempt that timed out is closed, raise()
\* leaves the signal pending, the reconnection is started.
Expire(x, t) ==
  CASE t = "none" -> {x}
    [] t = "raise" -> {[x EXCEPT !.raise = FALSE, !.pending = TRUE]}
    [] t = "reconnect" -> Start([x EXCEPT !.reconnect = FALSE])
    [] t = "xmpp" -> {OnConnectionFailed(x)}
    [] t \in Client -> {Send(Close(x, t), "stanza")}

-----------------------------------------------------------------------------
(* The body of the loop, after the poll and the expired events.            *)

\* BiboumiComponent::clean() and IdentdServer::clean()
Clean(x) ==
  LET gone == {h \in x.alive \cap (Client \cup Peer) : x.conn[h] = "closed"}
  IN  [x EXCEPT !.alive = @ \ gone, !.quit = @ \ gone]

\* DNSHandler::destroy() and IdentdServer::shutdown()
Shut(x) ==
  [x EXCEPT !.alive = @ \ (Peer \cup {"dns"}),
            !.managed = @ \ (Peer \cup {"dns", "identd"}),
            !.conn = [h \in Sockets |-> IF h \in Peer THEN "closed" ELSE @[h]]]

\* Only the clients that are connected are told.
MutStop(x) ==
  IF ~x.stop THEN x
  ELSE Send(Shut([x EXCEPT !.exiting = TRUE, !.stop = FALSE, !.reconnect = FALSE,
                           !.quit = @ \cup {c \in x.alive \cap Client : x.conn[c] = "connected"}]),
            "stanza")

\* A signal was received: every client is sent a QUIT and the contacts of the
\* roster a presence, and a reconnection that was planned is cancelled.
Stop(x) ==
  IF ~x.stop THEN x
  ELSE Send(Shut([x EXCEPT !.exiting = TRUE, !.stop = FALSE, !.reconnect = FALSE,
                           !.quit = @ \cup (x.alive \cap Client)]), "stanza")

\* A failed reconnection is not planned again.
MutReconnect(x) ==
  CASE x.exiting \/ x.conn["xmpp"] # "closed" -> {x}
    [] OTHER -> IF ~x.ever THEN {Shut(x)} ELSE IF x.first THEN Start(x) ELSE {x}

\* The connection to the XMPP server was lost: it is tried again, at once the
\* first time, later after that, never if it never worked.
Reconnect(x) ==
  CASE x.exiting \/ x.conn["xmpp"] # "closed" -> {x}
    [] OTHER -> IF ~x.ever THEN {Shut(x)}
                ELSE IF x.first THEN Start(x) ELSE {[x EXCEPT !.reconnect = TRUE]}

\* On exit an attempt is given up, and the stream is closed when it is the
\* only connection that is left.
LeaveStream(x) ==
  LET y == IF x.exiting /\ x.conn["xmpp"] = "connecting" THEN Close(x, "xmpp") ELSE x
  IN  IF y.exiting /\ Cardinality(y.managed) = 1 /\ y.open THEN CloseDocument(y) ELSE y

\* The timeout of the next poll: none on exit.
SetTimeout(x) == [x EXCEPT !.timeout = ~x.exiting /\ HasTimer(x)]

Body(x) == {SetTimeout(LeaveStream(y)) : y \in Reconnect(Stop(Clean(x)))}

Init ==
  /\ pc = "poll" /\ batch = <<>>
  /\ m \in {SetTimeout(x) : x \in Start(Idle)}
  /\ net = [h \in Sockets |-> "none"] /\ inbox = <<>>
  /\ server = "none"
  /\ clock = [troubles |-> 0, signals |-> 0, chats |-> 0, late |-> {}]

-----------------------------------------------------------------------------
(* The poll.                                                               *)

Ready ==
  {h \in m.managed \cap Sockets :
     \/ net[h] # "none"
     \/ h = "xmpp" /\ m.conn[h] = "connected" /\ (inbox # <<>> \/ m.out # <<>>)}

\* poll() returns before it waits, and before signals are unblocked.
NothingLeft == m.managed = {} /\ ~m.timeout

\* Some sockets are ready; their handlers are called in any order.
PollEvents ==
  /\ pc = "poll" /\ ~m.pending
  /\ Ready # {}
  /\ batch' \in SetToSeqs(Ready)
  /\ pc' = "batch"
  /\ UNCHANGED <<m, net, inbox, server, clock>>

PollTimeout ==
  /\ pc = "poll" /\ ~m.pending /\ m.timeout
  /\ pc' = "after"
  /\ UNCHANGED <<batch, m, net, inbox, server, clock>>

\* SIGINT or SIGTERM interrupts the poll; its handler plans the same signal.
PollSignal ==
  /\ pc = "poll" /\ ~NothingLeft
  /\ \/ m.pending /\ UNCHANGED clock
     \/ ~m.pending /\ clock.signals < MaxSignals /\ clock' = [clock EXCEPT !.signals = @ + 1]
  /\ m' = [m EXCEPT !.stop = TRUE, !.raise = TRUE, !.pending = FALSE]
  /\ pc' = "after"
  /\ UNCHANGED <<batch, net, inbox, server>>

PollEnds ==
  /\ pc = "poll" /\ NothingLeft
  /\ pc' = "ended"
  /\ UNCHANGED <<batch, m, net, inbox, server, clock>>

\* Some event may have expired (not the one the signal has just planned); then
\* the body.
After(due) ==
  /\ pc = "after"
  /\ due \in Timers(m) \cup {"none"}
  /\ due = "raise" => ~m.stop
  /\ due \in Sockets => clock.troubles < MaxTroubles
  /\ clock' = [clock EXCEPT !.troubles = IF due \in Sockets THEN @ + 1 ELSE @]
  /\ m' \in UNION {Body(x) : x \in Expire(m, due)}
  /\ net' = [h \in Sockets |-> IF h \in m'.managed \ {due} THEN net[h] ELSE "none"]
  /\ inbox' = IF m'.conn["xmpp"] = "connected" THEN inbox ELSE <<>>
  /\ server' = IF m'.conn["xmpp"] = "connected" THEN server ELSE "none"
  /\ pc' = "poll"
  /\ UNCHANGED batch

-----------------------------------------------------------------------------
(* The handlers.  The next one of the batch runs; the rest follows.        *)

Calls(h) ==
  /\ pc = "batch" /\ batch # <<>> /\ h = Head(batch)
  /\ batch' = Tail(batch)
  /\ pc' = IF batch' = <<>> THEN "after" ELSE "batch"

\* TCPClientSocketHandler::connect(), called again when the socket is ready.
XmppConnects ==
  /\ Calls("xmpp") /\ m.conn["xmpp"] = "connecting"
  /\ m' = IF net["xmpp"] = "up" THEN OnConnected(m) ELSE OnConnectionFailed(m)
  /\ server' = IF net["xmpp"] = "up" THEN "header" ELSE "none"
  /\ net' = [net EXCEPT !["xmpp"] = "none"]
  /\ inbox' = <<>>
  /\ UNCHANGED clock

\* A join of a channel of c: its client is made when there is none.
Makes(x, c) == c \notin x.alive \/ x.conn[c] = "closed"

Join(x, c) ==
  Send(IF ~Makes(x, c) THEN x
       ELSE [x EXCEPT !.alive = @ \cup {c}, !.quit = @ \ {c}, !.conn[c] = "connecting",
                      !.managed = @ \cup {c}], "stanza")

\* The client is removed at once.
MutLeave(x, c) ==
  IF c \in x.alive THEN [Close(x, c) EXCEPT !.alive = @ \ {c}, !.quit = @ \ {c}] ELSE x

\* The last channel is left: a QUIT is sent.
Leave(x, c) == IF c \in x.alive THEN Send([x EXCEPT !.quit = @ \cup {c}], "stanza") ELSE x

\* DisconnectUserFromServerStep3: the client is destroyed in the handler.
Erase(x, c) ==
  IF c \in x.alive THEN Send([Close(x, c) EXCEPT !.alive = @ \ {c}, !.quit = @ \ {c}], "stanza")
  ELSE x

\* parse_in_buffer(): what the stream brings.  An element is the opening of
\* the stream only when the parser starts with it.
OnStream(x, s) ==
  CASE s[1] = "open" -> IF x.parsing THEN x ELSE Send([x EXCEPT !.parsing = TRUE], "handshake")
    [] s[1] = "noid" -> IF x.parsing THEN x
                        ELSE CloseDocument(Send([x EXCEPT !.parsing = TRUE], "stanza"))
    [] s[1] = "handshake" -> Send([x EXCEPT !.ever = TRUE], "stanza")
    [] s[1] = "error" -> x
    [] s[1] = "close" -> [x EXCEPT !.open = FALSE]
    [] s[1] = "join" -> Join(x, s[2])
    [] s[1] = "leave" -> Leave(x, s[2])
    [] s[1] = "erase" -> Erase(x, s[2])
    [] s[1] = "eof" -> Close(x, "xmpp")

XmppReceives ==
  /\ Calls("xmpp") /\ m.conn["xmpp"] = "connected" /\ inbox # <<>>
  /\ m' = OnStream(m, Head(inbox))
  /\ inbox' = IF Head(inbox)[1] = "eof" THEN <<>> ELSE Tail(inbox)
  /\ server' = IF Head(inbox)[1] = "eof" THEN "none" ELSE server
  /\ net' = [h \in Sockets |-> IF h \in m'.managed THEN net[h] ELSE "none"]
  /\ clock' = [clock EXCEPT !.late = @ \cup
       {c \in Client : m.exiting /\ Head(inbox) = <<"join", c>> /\ Makes(m, c)}]

\* on_send(): something leaves, and the server answers it.  The stream must
\* begin with its header and the handshake, or the server closes it.
Refusal == << <<"error">>, <<"close">>, <<"eof">> >>

XmppSends ==
  /\ Calls("xmpp") /\ m.conn["xmpp"] = "connected" /\ inbox = <<>>
  /\ m.out # <<>>
  /\ m' = [m EXCEPT !.out = Tail(@)]
  /\ LET s == Head(m.out)
     IN  \/ server = "header" /\ s = "header" /\ server' = "handshake"
            /\ inbox' = << <<"open">> >> /\ UNCHANGED clock
         \/ server = "header" /\ s = "header" /\ clock.troubles < MaxTroubles
            /\ server' = "handshake" /\ inbox' = << <<"noid">> >>
            /\ clock' = [clock EXCEPT !.troubles = @ + 1]
         \/ server = "handshake" /\ s = "handshake" /\ server' = "stanza"
            /\ inbox' = << <<"handshake">> >> /\ UNCHANGED clock
         \/ server = "stanza" /\ s = "stanza" /\ UNCHANGED <<server, inbox, clock>>
         \/ s = "close" /\ server' = "none"
            /\ inbox' = << <<"close">>, <<"eof">> >> /\ UNCHANGED clock
         \/ s # "close" /\ s # server /\ server # "none" /\ server' = "none"
            /\ inbox' = Refusal /\ UNCHANGED clock
         \/ s # "close" /\ server = "none" /\ UNCHANGED <<server, inbox, clock>>
  /\ UNCHANGED net

\* on_send(): sendmsg() fails.
XmppSendFails ==
  /\ Calls("xmpp") /\ m.conn["xmpp"] = "connected" /\ inbox = <<>>
  /\ m.out # <<>>
  /\ clock.troubles < MaxTroubles
  /\ clock' = [clock EXCEPT !.troubles = @ + 1]
  /\ m' = Close(m, "xmpp")
  /\ server' = "none"
  /\ UNCHANGED <<net, inbox>>

\* An IRC client: connect(), then what it reads is told to the XMPP users.
ClientHandles(c) ==
  /\ Calls(c)
  /\ m' = Send(CASE net[c] = "up" -> [m EXCEPT !.conn[c] = "connected"]
                 [] net[c] \in {"refused", "eof"} -> Close(m, c)
                 [] OTHER -> m, "stanza")
  /\ net' = [net EXCEPT ![c] = "none"]
  /\ UNCHANGED <<inbox, server, clock>>

\* TcpSocketServer::on_recv() and IdentdSocket.
IdentdHandles(h) ==
  /\ Calls(h)
  /\ \/ /\ h = "identd"
        /\ \E p \in Peer \ m.alive :
             m' = [m EXCEPT !.alive = @ \cup {p}, !.managed = @ \cup {p}, !.conn[p] = "connected"]
     \/ h \in Peer /\ m' = IF net[h] = "eof" THEN Close(m, h) ELSE m
  /\ net' = [net EXCEPT ![h] = "none"]
  /\ UNCHANGED <<inbox, server, clock>>

-----------------------------------------------------------------------------
(* The network, the servers and the users, while the process polls.        *)

Trouble == clock.troubles < MaxTroubles /\ clock' = [clock EXCEPT !.troubles = @ + 1]
Chat == clock.chats < MaxChats /\ clock' = [clock EXCEPT !.chats = @ + 1]

Happens(h, what) == net[h] = "none" /\ net' = [net EXCEPT ![h] = what]

Outcome(h) ==
  /\ pc = "poll" /\ m.conn[h] = "connecting"
  /\ \/ Happens(h, "up") /\ UNCHANGED clock
     \/ Happens(h, "refused") /\ Trouble
  /\ UNCHANGED <<pc, batch, m, inbox, server>>

\* The XMPP server goes away, with or without a word.
XmppLost ==
  /\ pc = "poll" /\ m.conn["xmpp"] = "connected" /\ server # "none"
  /\ server' = "none" /\ Trouble
  /\ \E bye \in {<< <<"eof">> >>, Refusal} : inbox' = inbox \o bye
  /\ UNCHANGED <<pc, batch, m, net>>

UserAsks ==
  /\ pc = "poll" /\ server = "stanza" /\ m.conn["xmpp"] = "connected"
  /\ Chat
  /\ \E c \in Client, what \in {"join", "leave"} \cup (Faults \cap {"erase"}) :
       inbox' = Append(inbox, <<what, c>>)
  /\ UNCHANGED <<pc, batch, m, net, server>>

\* Messages, and connections that end unasked.
Spoken(h) ==
  /\ pc = "poll"
  /\ \/ h \in Client \cup Peer /\ m.conn[h] = "connected" /\ Happens(h, "msg") /\ Chat
     \/ h \in Client \cup Peer /\ m.conn[h] = "connected" /\ Happens(h, "eof") /\ Trouble
     \/ h = "identd" /\ h \in m.managed /\ Peer \ m.alive # {} /\ Happens(h, "msg") /\ Chat
  /\ UNCHANGED <<pc, batch, m, inbox, server>>

\* An IRC server closes the connection after a QUIT.
IrcCloses(c) ==
  /\ pc = "poll" /\ m.conn[c] = "connected" /\ c \in m.quit /\ "silent" \notin Faults
  /\ Happens(c, "eof")
  /\ UNCHANGED <<pc, batch, m, inbox, server, clock>>

-----------------------------------------------------------------------------
Handles ==
  \/ XmppConnects \/ XmppReceives \/ XmppSends \/ XmppSendFails
  \/ \E c \in Client : ClientHandles(c)
  \/ \E h \in {"identd"} \cup Peer : IdentdHandles(h)

AnyAfter == \E due \in {"none", "raise", "reconnect"} \cup Sockets : After(due)

Next ==
  \/ PollEvents \/ PollTimeout \/ PollSignal \/ PollEnds
  \/ AnyAfter \/ Handles
  \/ \E h \in {"xmpp"} \cup Client : Outcome(h)
  \/ \E c \in Client : IrcCloses(c)
  \/ \E h \in Sockets : Spoken(h)
  \/ XmppLost \/ UserAsks

Spec == Init /\ [][Next]_vars

(* The loop goes on; poll() returns what is ready, and an event that is    *)
(* planned expires some day, although repeated events end other polls.     *)
(* Attempts have an outcome, and an IRC server closes after a QUIT.        *)
Fairness ==
  /\ WF_vars(Handles) /\ WF_vars(AnyAfter) /\ WF_vars(PollTimeout) /\ WF_vars(PollEnds)
  /\ WF_vars(m.pending /\ PollSignal)
  /\ SF_vars(PollEvents) /\ SF_vars(After("reconnect"))
  /\ \A h \in {"xmpp"} \cup Client : SF_vars(Outcome(h))
  /\ \A c \in Client : SF_vars(IrcCloses(c))

FairSpec == Spec /\ Fairness

-----------------------------------------------------------------------------
(* Properties.                                                             *)

\* The variables keep their types; the XMPP server has a stream only as long
\* as the process is connected.
TypeOK ==
  /\ pc \in {"poll", "batch", "after", "ended"}
  /\ Range(batch) \subseteq Handler
  /\ m.alive \subseteq Handler /\ m.managed \subseteq Handler /\ m.quit \subseteq Client
  /\ \A h \in Sockets : m.conn[h] \in {"closed", "connecting", "connected"}
  /\ server \in {"header", "handshake", "stanza", "none"}
  /\ server # "none" => m.conn["xmpp"] = "connected"

\* poll() keeps raw pointers to the handlers that were ready: none of them is
\* destroyed by the handler of another one that runs before it.
NoDangling == Range(batch) \subseteq m.alive

\* While the process is not told to stop, a lost XMPP connection is being made
\* again, or is planned to be and poll() will wake up for it.
RetryPlanned ==
  pc = "poll" /\ m.ever /\ ~m.exiting /\ m.conn["xmpp"] = "closed" => m.reconnect /\ m.timeout

\* After a signal the process ends, when the IRC servers answer the QUIT and
\* nobody joins any more.
ShutdownEnds == <>[](m.exiting => pc = "ended" \/ clock.late # {})

\* Whatever happened to the connection, and whatever was written to it before
\* it was made, there is a stream again in the end.
Linked == m.conn["xmpp"] = "connected" /\ server = "stanza" /\ m.open
LinkRestored == <>[](m.ever => Linked \/ m.exiting)

\* admin.rst:24: "biboumi will only exit if it receives the same signal again
\* or if a 2 seconds delay has passed".
SecondSignalEnds == clock.signals = 2 ~> pc = "ended"
=============================================================================
