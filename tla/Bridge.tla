------------------------------- MODULE Bridge -------------------------------
(***************************************************************************)
(* One Bridge: the IrcClients of one XMPP user and the books that say      *)
(* which resource of the user is in which IRC channel.  Several resources  *)
(* of the user send joins and leaves while the answers of the IRC servers  *)
(* are in flight, connections fail and close, and clean() removes the      *)
(* clients that are no longer connected, after the other events of the     *)
(* same batch.                                                             *)
(*                                                                         *)
(* The process has one thread: every handler is one step.  The order of    *)
(* the steps is that of the events the poller, the parsers and the timers  *)
(* deliver.  Nicks and the other occupants of a channel are in Occupants;  *)
(* the tokens of the output queue are in Throttle: here a message that is  *)
(* not throttled may overtake the ones that wait in that queue.            *)
(***************************************************************************)
EXTENDS Integers, Sequences, FiniteSets, SequencesExt

CONSTANTS
  Host,        \* the IRC servers
  Chan,        \* the channel names
  Resource,    \* the resources of the XMPP user
  Query,       \* the user's own nick, as a key of IrcClient::channels
  NoChan,      \* the argument of an IRC message without a channel
  Persistent,  \* the values of the option "persistent", a set of BOOLEANs
  Env,         \* what the users, the servers and the network may do
  MaxPorts,    \* the ports an IrcClient may try
  MaxWire      \* bound: messages in flight in each direction

ASSUME BridgeAssumption ==
  /\ Query \notin Chan
  /\ NoChan \notin Chan
  /\ Persistent \subseteq BOOLEAN
  /\ MaxPorts \in Nat
  /\ MaxWire \in Nat

VARIABLES
  conn,                 \* the IrcClient of a host: see Phases
  ports,                \* how many ports_to_try are left
  welcomed,             \* IrcClient::welcomed
  channels_to_join,     \* IrcClient::channels_to_join
  channels,             \* the keys of IrcClient::channels
  joined,               \* those whose IrcChannel::joined is true
  self,                 \* those whose IrcChannel::self is not null
  resources_in_chan,    \* Bridge::resources_in_chan
  resources_in_server,  \* Bridge::resources_in_server
  view,                 \* the resources whose last self-presence says "in"
  to_server,            \* output buffer, socket and message_queue
  from_server,          \* socket and input buffer
  srv_registered,       \* the server accepted NICK and USER
  srv_channels          \* the channels the server has the user in

clientVars == <<conn, ports, welcomed, channels_to_join>>
chanVars == <<channels, joined, self>>
resVars == <<resources_in_chan, resources_in_server, view>>
srvVars == <<srv_registered, srv_channels>>
vars == <<conn, ports, welcomed, channels_to_join, channels, joined, self,
          resources_in_chan, resources_in_server, view,
          to_server, from_server, srv_registered, srv_channels>>

\* "none": no IrcClient; "closed": one that is neither connected nor
\* connecting nor resolving, which the next clean() removes.
Phases == {"none", "connecting", "connected", "closed"}

Names == Chan \cup {Query}

EmptyRooms == [c \in Chan |-> {}]

Init ==
  /\ conn = [h \in Host |-> "none"]
  /\ ports = [h \in Host |-> MaxPorts]
  /\ welcomed = [h \in Host |-> FALSE]
  /\ channels_to_join = [h \in Host |-> <<>>]
  /\ channels = [h \in Host |-> {}]
  /\ joined = [h \in Host |-> {}]
  /\ self = [h \in Host |-> {}]
  /\ resources_in_chan = [h \in Host |-> EmptyRooms]
  /\ resources_in_server = [h \in Host |-> {}]
  /\ view = [h \in Host |-> EmptyRooms]
  /\ to_server = [h \in Host |-> <<>>]
  /\ from_server = [h \in Host |-> <<>>]
  /\ srv_registered = [h \in Host |-> FALSE]
  /\ srv_channels = [h \in Host |-> {}]

HasClient(h) == conn[h] # "none"

\* The channels, on one server, that a resource is in.
ChannelsOf(rooms, r) == {c \in Chan : r \in rooms[c]}

-----------------------------------------------------------------------------
(* Messages.  "queued": it is throttled, and may wait in message_queue.    *)

Msg(cmd, c) == [cmd |-> cmd, chan |-> c, queued |-> TRUE]
Urgent(cmd, c) == [cmd |-> cmd, chan |-> c, queued |-> FALSE]

\* Bounds.
RoomToSend(h) == Len(to_server[h]) < MaxWire
RoomToReceive(h) == Len(from_server[h]) < MaxWire
RoomToRelay(h) == Len(from_server[h]) + 1 < MaxWire

\* How many of the last messages of s can be in message_queue, at most n.
Queueable(s, n) ==
  CHOOSE k \in 0 .. Len(s) :
    /\ k <= n
    /\ \A i \in (Len(s) - k + 1) .. Len(s) : s[i].queued
    /\ k = n \/ k = Len(s) \/ ~s[Len(s) - k].queued

\* send_message(m, {}, false): m passes by what is in message_queue.
Overtaking(s, m, n) ==
  LET k == Len(s) - Queueable(s, n)
  IN  SubSeq(s, 1, k) \o <<m>> \o SubSeq(s, k + 1, Len(s))

\* close() clears the output buffer but not message_queue.
Survivors(s, n) == SubSeq(s, Len(s) - Queueable(s, n) + 1, Len(s))

Late == 0 .. MaxWire

-----------------------------------------------------------------------------
(* What the users do.                                                      *)

\* start(): it does something only if the client has no connection, and a port
\* to try.
Starts(h) == conn[h] \in {"none", "closed"} /\ ports[h] > 0

\* send_join_command(): until the welcome, the channel is kept for later.
SendJoinCommand(h, c) ==
  /\ channels_to_join' =
       IF welcomed[h] \/ c \in ToSet(channels_to_join[h])
       THEN channels_to_join
       ELSE [channels_to_join EXCEPT ![h] = Append(@, c)]
  /\ to_server' = IF welcomed[h]
                  THEN [to_server EXCEPT ![h] = Append(@, Msg("JOIN", c))]
                  ELSE to_server

\* join_irc_channel() of a channel that is not joined.  The client is made if
\* there is none; start() begins a connection if it has none and a port is
\* left.  "batch": the client was closed by an event of the same batch.
JoinSend(h, c, r) ==
  /\ RoomToSend(h)
  /\ conn[h] = "closed" => "batch" \in Env
  /\ c \notin joined[h]
  /\ resources_in_server' = [resources_in_server EXCEPT ![h] = @ \cup {r}]
  /\ resources_in_chan' = [resources_in_chan EXCEPT ![h][c] = @ \cup {r}]
  /\ channels' = [channels EXCEPT ![h] = @ \cup {c}]
  /\ SendJoinCommand(h, c)
  /\ conn' = [conn EXCEPT ![h] = IF Starts(h) THEN "connecting"
                                 ELSE IF @ = "none" THEN "closed" ELSE @]
  /\ ports' = IF Starts(h) THEN [ports EXCEPT ![h] = @ - 1] ELSE ports
  /\ UNCHANGED <<welcomed, joined, self, view, from_server, srvVars>>

\* join_irc_channel() of a channel that is joined already:
\* generate_channel_join_for_resource() answers at once.
JoinGenerated(h, c, r) ==
  /\ c \in joined[h]
  /\ resources_in_server' = [resources_in_server EXCEPT ![h] = @ \cup {r}]
  /\ resources_in_chan' = [resources_in_chan EXCEPT ![h][c] = @ \cup {r}]
  /\ view' = [view EXCEPT ![h][c] = @ \cup {r}]
  /\ UNCHANGED <<clientVars, chanVars, to_server, from_server, srvVars>>

\* leave_irc_channel() takes r out of the channel at once, unless r is the
\* last resource in it; then it waits for the server to acknowledge the PART.
OutAtOnce(h, c, r, persistent) == resources_in_chan[h][c] # {r} \/ persistent

Parts(h, c, r, persistent) ==
  /\ resources_in_chan[h][c] = {r}
  /\ c \in joined[h]
  /\ ~persistent

\* leave_irc_channel() of each of a set of keys <<h, c>>, by r, which is in
\* all of them; p gives the option "persistent" of each.
LeaveKeys(K, r, p) ==
  LET out(h, c) == <<h, c>> \in K /\ OutAtOnce(h, c, r, p[h][c])
      parts(h) == {c \in Chan : <<h, c>> \in K /\ Parts(h, c, r, p[h][c])}
      rooms == [h \in Host |-> [c \in Chan |->
                  IF out(h, c) THEN resources_in_chan[h][c] \ {r}
                               ELSE resources_in_chan[h][c]]]
  IN  /\ channels' = [h \in Host |->
                        channels[h] \cup {c \in Chan : <<h, c>> \in K}]
      /\ resources_in_chan' = rooms
      /\ resources_in_server' = [h \in Host |->
           IF (\E c \in Chan : <<h, c>> \in K) /\ ChannelsOf(rooms[h], r) = {}
           THEN resources_in_server[h] \ {r} ELSE resources_in_server[h]]
      /\ view' = [h \in Host |-> [c \in Chan |->
                    IF out(h, c) /\ c \in joined[h] THEN view[h][c] \ {r}
                                                    ELSE view[h][c]]]
      /\ to_server' = [h \in Host |->
           to_server[h] \o SetToSeq({Msg("PART", c) : c \in parts(h)})]
      /\ UNCHANGED <<clientVars, joined, self, from_server, srvVars>>

\* A resource leaves one channel.
Leave(h, c, r) ==
  /\ HasClient(h)
  /\ RoomToSend(h)
  /\ r \in resources_in_chan[h][c]
  /\ \E persistent \in Persistent :
       LeaveKeys({<<h, c>>}, r, [x \in Host |-> [y \in Chan |-> persistent]])

\* remove_resource(): the client of the resource answered with an error.  The
\* keys are left in their order; the first one whose host has no client
\* throws IRCNotConnected, and the ones after it are not left.
RemoveResource(r) ==
  LET keys == {k \in Host \X Chan : r \in resources_in_chan[k[1]][k[2]]}
      live == {k \in keys : HasClient(k[1])}
  IN  /\ "error" \in Env
      /\ \A h \in Host : RoomToSend(h)
      /\ \E done \in SUBSET live, p \in [Host -> [Chan -> Persistent]] :
           /\ done # {}
           /\ live = keys => done = keys
           /\ LeaveKeys(done, r, p)

\* A request that calls get_channel() for a channel it does not join, such as
\* a ping or a change of affiliation: the entry is made and stays.
TouchChannel(h, c) ==
  /\ "touch" \in Env
  /\ HasClient(h)
  /\ c \notin channels[h]
  /\ channels' = [channels EXCEPT ![h] = @ \cup {c}]
  /\ UNCHANGED <<clientVars, joined, self, resVars, to_server, from_server,
                 srvVars>>

\* send_raw_message(): a raw IRC command, typed by the user.
RawCommand(h, cmd, c) ==
  /\ "raw" \in Env
  /\ HasClient(h)
  /\ RoomToSend(h)
  /\ \E n \in Late :
       to_server' = [to_server EXCEPT ![h] = Overtaking(@, Urgent(cmd, c), n)]
  /\ UNCHANGED <<clientVars, chanVars, resVars, from_server, srvVars>>

\* shutdown(): QUIT on every server.
Shutdown ==
  /\ "shutdown" \in Env
  /\ \E h \in Host : HasClient(h)
  /\ \A h \in Host : RoomToSend(h)
  /\ \E n \in [Host -> Late] :
       to_server' = [h \in Host |->
         IF HasClient(h) THEN Overtaking(to_server[h], Urgent("QUIT", NoChan), n[h])
                         ELSE to_server[h]]
  /\ UNCHANGED <<clientVars, chanVars, resVars, from_server, srvVars>>

-----------------------------------------------------------------------------
(* Connections.                                                            *)

\* A mistaken send_muc_leave(): the resources stay in resources_in_server.
MutAllLeaveKeepsServer(h, C) ==
  /\ resources_in_chan' = [resources_in_chan EXCEPT ![h] =
       [c \in Chan |-> IF c \in C THEN {} ELSE @[c]]]
  /\ view' = [view EXCEPT ![h] = [c \in Chan |-> IF c \in C THEN {} ELSE @[c]]]
  /\ UNCHANGED resources_in_server

\* send_muc_leave() for every resource of the channels in C, on host h.
AllLeave(h, C) ==
  LET rooms == [c \in Chan |-> IF c \in C THEN {} ELSE resources_in_chan[h][c]]
      were(r) == \E c \in C : r \in resources_in_chan[h][c]
  IN  /\ resources_in_chan' = [resources_in_chan EXCEPT ![h] = rooms]
      /\ resources_in_server' = [resources_in_server EXCEPT ![h] =
           {r \in @ : were(r) => ChannelsOf(rooms, r) # {}}]
      /\ view' = [view EXCEPT ![h] = [c \in Chan |->
                   IF c \in C THEN view[h][c] \ resources_in_chan[h][c]
                              ELSE view[h][c]]]

\* on_error(): out of all the joined channels, and all the entries removed.
OnErrorEffect(h) ==
  /\ AllLeave(h, joined[h])
  /\ channels' = [channels EXCEPT ![h] = {}]
  /\ joined' = [joined EXCEPT ![h] = {}]
  /\ self' = [self EXCEPT ![h] = {}]

\* DisconnectUserFromServerStep3(): on_error(), then the client is destroyed.
\* A destroyed client has no wires left, and the values a new one begins with.
DisconnectUserFromServer(h) ==
  /\ "disconnect" \in Env
  /\ HasClient(h)
  /\ OnErrorEffect(h)
  /\ conn' = [conn EXCEPT ![h] = "none"]
  /\ ports' = [ports EXCEPT ![h] = MaxPorts]
  /\ welcomed' = [welcomed EXCEPT ![h] = FALSE]
  /\ channels_to_join' = [channels_to_join EXCEPT ![h] = <<>>]
  /\ to_server' = [to_server EXCEPT ![h] = <<>>]
  /\ from_server' = [from_server EXCEPT ![h] = <<>>]
  /\ srv_registered' = [srv_registered EXCEPT ![h] = FALSE]
  /\ srv_channels' = [srv_channels EXCEPT ![h] = {}]

\* BiboumiComponent::clean(): the closed clients are destroyed; a bridge that
\* has no client left is destroyed with its books.
Clean ==
  LET idle == {h \in Host : conn[h] \in {"none", "closed"}}
      fresh(f, value) == [h \in Host |-> IF h \in idle THEN value ELSE f[h]]
  IN  /\ \/ \E h \in Host : conn[h] = "closed"
         \/ idle = Host /\ \E h \in Host : resources_in_server[h] # {}
      /\ conn' = fresh(conn, "none")
      /\ ports' = fresh(ports, MaxPorts)
      /\ welcomed' = fresh(welcomed, FALSE)
      /\ channels_to_join' = fresh(channels_to_join, <<>>)
      /\ channels' = fresh(channels, {})
      /\ joined' = fresh(joined, {})
      /\ self' = fresh(self, {})
      /\ to_server' = fresh(to_server, <<>>)
      /\ from_server' = fresh(from_server, <<>>)
      /\ srv_registered' = fresh(srv_registered, FALSE)
      /\ srv_channels' = fresh(srv_channels, {})
      /\ resources_in_chan' = IF idle = Host THEN [h \in Host |-> EmptyRooms]
                                             ELSE resources_in_chan
      /\ resources_in_server' = IF idle = Host THEN [h \in Host |-> {}]
                                               ELSE resources_in_server
      /\ view' = view

\* on_connected(): NICK and USER, after what is in the output buffer.
OnConnected(h) ==
  /\ conn[h] = "connecting"
  /\ conn' = [conn EXCEPT ![h] = "connected"]
  /\ to_server' = [to_server EXCEPT ![h] = Append(@, Msg("REGISTER", NoChan))]
  /\ UNCHANGED <<ports, welcomed, channels_to_join, chanVars, resVars,
                 from_server, srvVars>>

\* on_connection_failed(): the next port, or none.  A failed resolution gives
\* up all the ports.
OnConnectionFailed(h, resolution_failed) ==
  LET again == ports[h] > 0 /\ ~resolution_failed
  IN  /\ "fail" \in Env
      /\ conn[h] = "connecting"
      /\ conn' = IF again THEN conn ELSE [conn EXCEPT ![h] = "closed"]
      /\ ports' = [ports EXCEPT ![h] = IF again THEN @ - 1 ELSE 0]
      /\ channels_to_join' = IF again THEN channels_to_join
                             ELSE [channels_to_join EXCEPT ![h] = <<>>]
      /\ \E n \in Late :
           to_server' = [to_server EXCEPT ![h] = Survivors(@, n)]
      /\ UNCHANGED <<welcomed, chanVars, resVars, from_server, srvVars>>

-----------------------------------------------------------------------------
(* What the client does with the messages of the server.                   *)

Receives(h, cmd, c) ==
  /\ conn[h] = "connected"
  /\ from_server[h] # <<>>
  /\ Head(from_server[h]).cmd = cmd
  /\ Head(from_server[h]).chan = c
  /\ from_server' = [from_server EXCEPT ![h] = Tail(@)]

\* A mistaken on_welcome_message(): it forgets the channels to join.
MutOnWelcomeNoJoin(h) ==
  /\ Receives(h, "001", NoChan)
  /\ welcomed' = [welcomed EXCEPT ![h] = TRUE]
  /\ channels_to_join' = [channels_to_join EXCEPT ![h] = <<>>]
  /\ UNCHANGED <<conn, ports, chanVars, resVars, to_server, srvVars>>

\* on_welcome_message(): the channels of channels_to_join are joined.
OnWelcome(h) ==
  LET joins == [i \in 1 .. Len(channels_to_join[h]) |->
                  Msg("JOIN", channels_to_join[h][i])]
  IN  /\ Receives(h, "001", NoChan)
      /\ welcomed' = [welcomed EXCEPT ![h] = TRUE]
      /\ to_server' = [to_server EXCEPT ![h] = @ \o joins]
      /\ channels_to_join' = [channels_to_join EXCEPT ![h] = <<>>]
      /\ UNCHANGED <<conn, ports, chanVars, resVars, srvVars>>

\* on_channel_join() with our own nick.
OnChannelJoin(h, c) ==
  /\ Receives(h, "JOIN", c)
  /\ channels' = [channels EXCEPT ![h] = @ \cup {c}]
  /\ self' = IF c \in joined[h] THEN self ELSE [self EXCEPT ![h] = @ \cup {c}]
  /\ UNCHANGED <<clientVars, joined, resVars, to_server, srvVars>>

\* on_channel_completely_joined(): every resource that asked for the channel
\* is told that it is in; with none, it is an invitation.
OnCompletelyJoined(h, c) ==
  LET now == c \notin joined[h] /\ c \in self[h]
  IN  /\ Receives(h, "366", c)
      /\ channels' = [channels EXCEPT ![h] = @ \cup {c}]
      /\ joined' = IF now THEN [joined EXCEPT ![h] = @ \cup {c}] ELSE joined
      /\ view' = IF now THEN [view EXCEPT ![h][c] = @ \cup resources_in_chan[h][c]]
                        ELSE view
      /\ UNCHANGED <<clientVars, self, resources_in_chan, resources_in_server,
                     to_server, srvVars>>

\* A mistaken on_part(): the resources are not told.
MutOnPartSilent(h, c) ==
  /\ Receives(h, "PART", c)
  /\ channels' = [channels EXCEPT ![h] = @ \ {c}]
  /\ joined' = [joined EXCEPT ![h] = @ \ {c}]
  /\ self' = [self EXCEPT ![h] = @ \ {c}]
  /\ UNCHANGED <<clientVars, resVars, to_server, srvVars>>

\* on_part() with our own nick: the entry is erased, and the client quits when
\* it has no entry left.
OnPart(h, c) ==
  /\ Receives(h, "PART", c)
  /\ IF c \in joined[h]
     THEN /\ AllLeave(h, {c})
          /\ channels' = [channels EXCEPT ![h] = @ \ {c}]
          /\ joined' = [joined EXCEPT ![h] = @ \ {c}]
          /\ self' = [self EXCEPT ![h] = @ \ {c}]
          /\ \E n \in Late :
               to_server' = IF channels[h] = {c}
                            THEN [to_server EXCEPT ![h] =
                                    Overtaking(@, Urgent("QUIT", NoChan), n)]
                            ELSE to_server
     ELSE /\ channels' = [channels EXCEPT ![h] = @ \cup {c}]
          /\ UNCHANGED <<joined, self, resVars, to_server>>
  /\ UNCHANGED <<clientVars, srvVars>>

\* A mistaken on_kick(): "joined" is not reset.
MutOnKickStaysJoined(h, c) ==
  /\ Receives(h, "KICK", c)
  /\ UNCHANGED <<clientVars, chanVars, resVars, to_server, srvVars>>

\* A mistaken on_kick(): the resources are not told.
MutOnKickSilent(h, c) ==
  /\ Receives(h, "KICK", c)
  /\ joined' = [joined EXCEPT ![h] = @ \ {c}]
  /\ self' = [self EXCEPT ![h] = @ \ {c}]
  /\ UNCHANGED <<clientVars, channels, resVars, to_server, srvVars>>

\* on_kick() of our own nick: the resources are told, and stay in the books.
OnKick(h, c) ==
  /\ Receives(h, "KICK", c)
  /\ channels' = [channels EXCEPT ![h] = @ \cup {c}]
  /\ IF c \in joined[h]
     THEN /\ joined' = [joined EXCEPT ![h] = @ \ {c}]
          /\ self' = [self EXCEPT ![h] = @ \ {c}]
          /\ view' = [view EXCEPT ![h][c] = @ \ resources_in_chan[h][c]]
     ELSE UNCHANGED <<joined, self, view>>
  /\ UNCHANGED <<clientVars, resources_in_chan, resources_in_server, to_server,
                 srvVars>>

\* A mistaken on_quit(): remove_user() does not reset "joined".
MutOnQuitStaysJoined(h) ==
  /\ Receives(h, "QUIT", NoChan)
  /\ AllLeave(h, self[h])
  /\ self' = [self EXCEPT ![h] = {}]
  /\ UNCHANGED <<clientVars, channels, joined, to_server, srvVars>>

\* on_quit() with our own nick.
OnQuit(h) ==
  /\ Receives(h, "QUIT", NoChan)
  /\ AllLeave(h, self[h])
  /\ joined' = [joined EXCEPT ![h] = @ \ self[h]]
  /\ self' = [self EXCEPT ![h] = {}]
  /\ UNCHANGED <<clientVars, channels, to_server, srvVars>>

\* on_channel_message() of a private message: its target is our own nick, of
\* which get_channel() makes an entry.
OnPrivateMessage(h) ==
  /\ Receives(h, "PRIVMSG", NoChan)
  /\ channels' = [channels EXCEPT ![h] = @ \cup {Query}]
  /\ UNCHANGED <<clientVars, joined, self, resVars, to_server, srvVars>>

\* on_generic_error(), on_channel_bad_key(): a join is refused.  A message or
\* a presence is sent; nothing changes.
OnRefused(h, c) ==
  /\ Receives(h, "REFUSED", c)
  /\ UNCHANGED <<clientVars, chanVars, resVars, to_server, srvVars>>

OnError(h) ==
  /\ Receives(h, "ERROR", NoChan)
  /\ OnErrorEffect(h)
  /\ UNCHANGED <<clientVars, to_server, srvVars>>

\* A mistaken on_connection_close(): the socket stays marked as connected.
MutOnConnectionCloseNoClose(h) ==
  /\ Receives(h, "CLOSE", NoChan)
  /\ OnErrorEffect(h)
  /\ UNCHANGED <<clientVars, to_server, srvVars>>

\* on_connection_close(), after close().
OnConnectionClose(h) ==
  /\ conn[h] = "connected"
  /\ from_server[h] # <<>>
  /\ Head(from_server[h]).cmd = "CLOSE"
  /\ OnErrorEffect(h)
  /\ conn' = [conn EXCEPT ![h] = "closed"]
  /\ from_server' = [from_server EXCEPT ![h] = <<>>]
  /\ \E n \in Late : to_server' = [to_server EXCEPT ![h] = Survivors(@, n)]
  /\ srv_registered' = [srv_registered EXCEPT ![h] = FALSE]
  /\ srv_channels' = [srv_channels EXCEPT ![h] = {}]
  /\ UNCHANGED <<ports, welcomed, channels_to_join>>

Receive(h) ==
  \/ OnWelcome(h)
  \/ OnQuit(h)
  \/ OnPrivateMessage(h)
  \/ OnError(h)
  \/ OnConnectionClose(h)
  \/ \E c \in Chan :
       \/ OnChannelJoin(h, c)
       \/ OnCompletelyJoined(h, c)
       \/ OnPart(h, c)
       \/ OnKick(h, c)
       \/ OnRefused(h, c)

-----------------------------------------------------------------------------
(* The IRC server: what the client relies on.  It handles the commands in  *)
(* order, and reads no more once it has closed the connection.             *)

Open(h) ==
  /\ conn[h] = "connected"
  /\ \A i \in 1 .. Len(from_server[h]) : from_server[h][i].cmd # "CLOSE"

Reads(h, cmd) ==
  /\ Open(h)
  /\ RoomToReceive(h)
  /\ to_server[h] # <<>>
  /\ Head(to_server[h]).cmd = cmd
  /\ to_server' = [to_server EXCEPT ![h] = Tail(@)]

Answer(h, messages) ==
  from_server' = [from_server EXCEPT ![h] = @ \o messages]

ServerRegisters(h) ==
  /\ Reads(h, "REGISTER")
  /\ Answer(h, <<Msg("001", NoChan)>>)
  /\ srv_registered' = [srv_registered EXCEPT ![h] = TRUE]
  /\ UNCHANGED <<srv_channels, clientVars, chanVars, resVars>>

ServerJoins(h) ==
  LET c == Head(to_server[h]).chan
  IN  /\ Reads(h, "JOIN")
      /\ srv_registered[h]
      /\ c \notin srv_channels[h]
      /\ Answer(h, <<Msg("JOIN", c), Msg("366", c)>>)
      /\ srv_channels' = [srv_channels EXCEPT ![h] = @ \cup {c}]
      /\ UNCHANGED <<srv_registered, clientVars, chanVars, resVars>>

ServerRefuses(h) ==
  LET c == Head(to_server[h]).chan
  IN  /\ Reads(h, "JOIN")
      /\ ~srv_registered[h] \/ ("refuse" \in Env /\ c \notin srv_channels[h])
      /\ Answer(h, <<Msg("REFUSED", c)>>)
      /\ UNCHANGED <<srvVars, clientVars, chanVars, resVars>>

ServerParts(h) ==
  LET c == Head(to_server[h]).chan
  IN  /\ Reads(h, "PART")
      /\ c \in srv_channels[h]
      /\ Answer(h, <<Msg("PART", c)>>)
      /\ srv_channels' = [srv_channels EXCEPT ![h] = @ \ {c}]
      /\ UNCHANGED <<srv_registered, clientVars, chanVars, resVars>>

\* A JOIN of a channel the user is in, or a PART of one it is not in.
ServerIgnores(h) ==
  LET c == Head(to_server[h]).chan
  IN  /\ \/ Reads(h, "JOIN") /\ srv_registered[h] /\ c \in srv_channels[h]
         \/ Reads(h, "PART") /\ c \notin srv_channels[h]
      /\ UNCHANGED <<from_server, srvVars, clientVars, chanVars, resVars>>

\* Some servers send the QUIT to its author too.
ServerQuits(h) ==
  /\ Reads(h, "QUIT")
  /\ \/ Answer(h, <<Msg("ERROR", NoChan), Msg("CLOSE", NoChan)>>)
     \/ /\ "echo" \in Env
        /\ Answer(h, <<Msg("QUIT", NoChan), Msg("ERROR", NoChan),
                       Msg("CLOSE", NoChan)>>)
  /\ srv_channels' = [srv_channels EXCEPT ![h] = {}]
  /\ UNCHANGED <<srv_registered, clientVars, chanVars, resVars>>

ServerStep(h) ==
  \/ ServerRegisters(h) \/ ServerJoins(h) \/ ServerRefuses(h)
  \/ ServerParts(h) \/ ServerIgnores(h) \/ ServerQuits(h)

ServerKicks(h, c) ==
  /\ "kick" \in Env /\ Open(h) /\ RoomToRelay(h)
  /\ c \in srv_channels[h]
  /\ Answer(h, <<Msg("KICK", c)>>)
  /\ srv_channels' = [srv_channels EXCEPT ![h] = @ \ {c}]
  /\ UNCHANGED <<to_server, srv_registered, clientVars, chanVars, resVars>>

\* The server moves the user into a channel it did not ask for.
ServerForcesJoin(h, c) ==
  /\ "force" \in Env /\ Open(h) /\ RoomToRelay(h)
  /\ srv_registered[h]
  /\ c \notin srv_channels[h]
  /\ Answer(h, <<Msg("JOIN", c), Msg("366", c)>>)
  /\ srv_channels' = [srv_channels EXCEPT ![h] = @ \cup {c}]
  /\ UNCHANGED <<to_server, srv_registered, clientVars, chanVars, resVars>>

ServerRelaysMessage(h) ==
  /\ "privmsg" \in Env /\ Open(h) /\ RoomToRelay(h)
  /\ srv_registered[h]
  /\ Answer(h, <<Msg("PRIVMSG", NoChan)>>)
  /\ UNCHANGED <<to_server, srvVars, clientVars, chanVars, resVars>>

\* The connection is lost, with the last messages of the server.
ServerLost(h) ==
  /\ "drop" \in Env /\ Open(h)
  /\ \E n \in 0 .. Len(from_server[h]) :
       from_server' = [from_server EXCEPT ![h] =
                         Append(SubSeq(@, 1, n), Msg("CLOSE", NoChan))]
  /\ srv_channels' = [srv_channels EXCEPT ![h] = {}]
  /\ UNCHANGED <<to_server, srv_registered, clientVars, chanVars, resVars>>

-----------------------------------------------------------------------------
Connect(h) == OnConnected(h) \/ \E b \in BOOLEAN : OnConnectionFailed(h, b)

Users ==
  \/ \E h \in Host, c \in Chan, r \in Resource :
       JoinSend(h, c, r) \/ JoinGenerated(h, c, r) \/ Leave(h, c, r)
  \/ \E r \in Resource : RemoveResource(r)
  \/ \E h \in Host, c \in Chan : TouchChannel(h, c)
  \/ \E h \in Host, c \in Chan, cmd \in {"JOIN", "PART"} : RawCommand(h, cmd, c)
  \/ \E h \in Host : RawCommand(h, "QUIT", NoChan)
  \/ \E h \in Host : DisconnectUserFromServer(h)
  \/ Shutdown

Network ==
  \E h \in Host :
    \/ ServerRelaysMessage(h)
    \/ ServerLost(h)
    \/ \E c \in Chan : ServerKicks(h, c) \/ ServerForcesJoin(h, c)

Next ==
  \/ Users
  \/ Network
  \/ Clean
  \/ \E h \in Host : Connect(h) \/ Receive(h) \/ ServerStep(h)

Spec == Init /\ [][Next]_vars

\* The poller reports every event, clean() follows every batch, a connection
\* attempt ends (at the latest with its timeout), and the server answers.
Fairness ==
  /\ WF_vars(Clean)
  /\ \A h \in Host : WF_vars(Connect(h)) /\ WF_vars(Receive(h))
                      /\ WF_vars(ServerStep(h))

FairSpec == Spec /\ Fairness

-----------------------------------------------------------------------------
(* Properties.                                                             *)

Rooms == [Chan -> SUBSET Resource]

\* The types of the books; the wires are left to the other properties.
TypeOK ==
  /\ conn \in [Host -> Phases]
  /\ ports \in [Host -> 0 .. MaxPorts]
  /\ welcomed \in [Host -> BOOLEAN]
  /\ channels \in [Host -> SUBSET Names]
  /\ joined \in [Host -> SUBSET Chan]
  /\ self \in [Host -> SUBSET Chan]
  /\ resources_in_chan \in [Host -> Rooms]
  /\ resources_in_server \in [Host -> SUBSET Resource]
  /\ view \in [Host -> Rooms]

\* The two maps of Bridge agree: a resource is in resources_in_server exactly
\* when it is in a channel of that server, whatever the order of joins,
\* leaves, PARTs, errors and disconnections.  send_xmpp_message() sends the
\* messages of the server to the first, the channels use the second.
ServerIsUnion ==
  \A h \in Host :
    resources_in_server[h] = {r \in Resource : ChannelsOf(resources_in_chan[h], r) # {}}

\* What the resources were told agrees with the books: a resource believes it
\* is in a channel exactly when the channel is joined and the resource is in
\* resources_in_chan, so it gets the messages of that channel and no other
\* resource does.
ViewMatches ==
  \A h \in Host, c \in Chan :
    view[h][c] = IF c \in joined[h] THEN resources_in_chan[h][c] ELSE {}

\* A joined channel has an entry and a self, and its client is connected:
\* leave_irc_channel(), generate_channel_join_for_resource() and on_error()
\* use get_self() of a joined channel without a test.
SelfKnownWhenJoined ==
  \A h \in Host :
    /\ joined[h] \subseteq self[h]
    /\ self[h] \subseteq channels[h]
    /\ conn[h] # "connected" => self[h] = {}

\* The messages in flight account for every difference between the channels
\* the client has joined and those the server has the user in.
Replay(J, s) ==
  FoldLeft(LAMBDA X, m : CASE m.cmd = "366" -> X \cup {m.chan}
                           [] m.cmd \in {"PART", "KICK"} -> X \ {m.chan}
                           [] m.cmd \in {"QUIT", "ERROR"} -> {}
                           [] OTHER -> X,
           J, s)

\* Once the client has read what is in flight, it has joined the channels the
\* server has the user in, with kicks, forced joins and duplicate PARTs.
ServerAgrees ==
  \A h \in Host : Open(h) => Replay(joined[h], from_server[h]) = srv_channels[h]

Holds(s, cmd) == \E i \in 1 .. Len(s) : s[i].cmd = cmd

HoldsFor(s, cmd, c) == \E i \in 1 .. Len(s) : s[i].cmd = cmd /\ s[i].chan = c

\* A QUIT that was sent ends the connection.
QuitDisconnects ==
  \A h \in Host :
    (conn[h] = "connected" /\ Holds(to_server[h], "QUIT")) ~> (conn[h] # "connected")

\* A PART that was sent takes every resource out of the channel, the one that
\* sent it and those that joined in the meantime.
PartTakesEffect ==
  \A h \in Host, c \in Chan, r \in Resource :
    (r \in view[h][c] /\ HoldsFor(to_server[h], "PART", c)) ~> (r \notin view[h][c])

\* A join is settled: the resource is told it is in, or is out of the books.
JoinSettles ==
  \A h \in Host, c \in Chan, r \in Resource :
    (r \in resources_in_chan[h][c]) ~>
      (r \in view[h][c] \/ r \notin resources_in_chan[h][c])
=============================================================================
