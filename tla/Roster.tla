------------------------------- MODULE Roster -------------------------------
(***************************************************************************)
(* The presence that the gateway and the IRC servers have in the rosters   *)
(* of the users: handle_presence() for the JIDs that are no channel, the   *)
(* roster table, the presence sent when a connection to an IRC server is   *)
(* made and lost, the farewell of shutdown() and the probes of             *)
(* after_handshake().  The table survives the process.                     *)
(*                                                                         *)
(* The XMPP server of the users is external.  It keeps the subscriptions   *)
(* in both directions, shows the presences it receives from JIDs its user  *)
(* is subscribed to, and answers probes.                                   *)
(***************************************************************************)
EXTENDS Integers, Sequences, FiniteSets, Functions

CONSTANTS
  Contact,  \* bare JIDs of the users
  Server,   \* JIDs of IRC servers
  Gateway,  \* the JID of the component
  Env,      \* what may go wrong
  MaxWire   \* bound: stanzas in flight when something new happens

ASSUME RosterAssumption ==
  /\ Gateway \notin Server /\ IsFiniteSet(Server) /\ IsFiniteSet(Contact)
  /\ MaxWire \in Nat

VARIABLES
  items,       \* Database::roster: <<local JID, remote JID>>
  client,      \* the IrcClient of a user for a server: "none", "connecting",
               \* "connected", "announced" (past cap_end()) or "closed"
  process,     \* "running", "exiting" (after shutdown()) or "off"
  link,        \* the stream to the XMPP server is open
  to_gateway,  \* stanzas in flight, from all the users
  to_contact,  \* stanzas in flight, by user
  sub,         \* the JIDs a user is subscribed to
  asked,       \* the JIDs whose answer to a subscription is awaited
  allowed,     \* the JIDs that are subscribed to a user
  here,        \* the users that are online
  shown,       \* the JIDs that the roster of a user shows online
  silent       \* history: a connection ended, or the stream, with nothing told

gatewayVars == <<items, client, process>>
contactVars == <<sub, asked, allowed, here, shown>>
wires == <<to_gateway, to_contact>>
vars == <<items, client, process, link, to_gateway, to_contact,
          sub, asked, allowed, here, shown, silent>>

Local == Server \cup {Gateway}
\* A presence without a type is "available" here.
Stanza(local, remote, type) == [local |-> local, remote |-> remote, type |-> type]

\* The elements of a set, each once.
SetToSeq(S) == CHOOSE f \in [1 .. Cardinality(S) -> S] : IsInjective(f)

Init ==
  /\ items = {} /\ client = [k \in Contact \X Server |-> "none"]
  /\ process = "running" /\ link = TRUE
  /\ to_gateway = <<>> /\ to_contact = [u \in Contact |-> <<>>]
  /\ sub = [u \in Contact |-> {}] /\ asked = [u \in Contact |-> {}]
  /\ allowed = [u \in Contact |-> {}]
  /\ here = Contact /\ shown = [u \in Contact |-> {}]
  /\ silent = FALSE

InFlight == Len(to_gateway) + FoldFunction(+, 0, [u \in Contact |-> Len(to_contact[u])])
Room == InFlight < MaxWire

-----------------------------------------------------------------------------
(* The gateway.                                                            *)

\* send_presence_to_contact(), several times for one contact or once for each
\* element of a set.  What is sent while there is no stream is lost, as Link
\* shows.
Sends(u, stanzas) ==
  to_contact' = IF link THEN [to_contact EXCEPT ![u] = @ \o stanzas] ELSE to_contact

Lists(S) == [u \in Contact |-> to_contact[u] \o SetToSeq({m \in S : m.remote = u})]

\* Bridge::find_irc_client()
FindIrcClient(u, s) == client[<<u, s>>] # "none"

\* The presence of a JID can be told: the gateway is there, and so is a server
\* for which the user has a client.
Available(u, j) == j = Gateway \/ FindIrcClient(u, j)

\* A mistaken handler: the item is added only if there is a presence to tell.
MutAddRosterItem(j, u) == IF Available(u, j) THEN items \cup {<<j, u>>} ELSE items

\* add_roster_item()
AddRosterItem(j, u) == items \cup {<<j, u>>}

Presences(j, u, types) == [k \in 1 .. Len(types) |-> Stanza(j, u, types[k])]

Replies(j, u, type) ==
  CASE type = "subscribe" /\ Available(u, j) -> <<"subscribed", "available", "subscribe">>
    [] type = "subscribe" /\ ~Available(u, j) -> <<"subscribed", "subscribe">>
    [] type = "unsubscribe" -> <<"unavailable", "unsubscribed", "unsubscribe">>
    [] type = "probe" /\ Available(u, j) ->
         IF <<j, u>> \in items THEN <<"available">> ELSE <<"unsubscribed">>
    [] type = "available" /\ j = Gateway -> <<"available">>
    [] OTHER -> <<>>

\* The presence that is not of a channel.  The item of a contact that
\* unsubscribes stays: delete_roster_item() does not execute its query.
OnPresence ==
  LET m == Head(to_gateway)
      u == m.remote
      j == m.local
  IN  /\ process # "off" /\ link
      /\ to_gateway # <<>>
      /\ to_gateway' = Tail(to_gateway)
      /\ Sends(u, Presences(j, u, Replies(j, u, m.type)))
      /\ items' = IF m.type = "subscribe" THEN AddRosterItem(j, u) ELSE items
      /\ UNCHANGED <<client, process, link, contactVars, silent>>

\* has_roster_item(), and the presence if it is there.
TellItem(j, u, type) ==
  Sends(u, IF <<j, u>> \in items THEN <<Stanza(j, u, type)>> ELSE <<>>)

\* A channel of the server is joined: join_irc_channel() makes the client.
Connect(u, s) ==
  /\ Room /\ process # "off" /\ link
  /\ client[<<u, s>>] \in {"none", "closed"}
  /\ client' = [client EXCEPT ![<<u, s>>] = "connecting"]
  /\ UNCHANGED <<items, process, link, wires, contactVars, silent>>

\* The connection is made; nothing is told before CAP END.
OnConnected(u, s) ==
  /\ process # "off"
  /\ client[<<u, s>>] = "connecting"
  /\ client' = [client EXCEPT ![<<u, s>>] = "connected"]
  /\ UNCHANGED <<items, process, link, wires, contactVars, silent>>

\* on_connection_failed(): nothing is told.
OnConnectionFailed(u, s) ==
  /\ process # "off" /\ "fails" \in Env
  /\ client[<<u, s>>] = "connecting"
  /\ client' = [client EXCEPT ![<<u, s>>] = "closed"]
  /\ silent' = TRUE
  /\ UNCHANGED <<items, process, link, wires, contactVars>>

\* A mistaken on_irc_client_connected(): the contacts are not looked up.
MutOnIrcClientConnected(u, s) ==
  /\ process # "off"
  /\ client[<<u, s>>] = "connected"
  /\ client' = [client EXCEPT ![<<u, s>>] = "announced"]
  /\ UNCHANGED <<items, process, link, wires, contactVars, silent>>

\* cap_end() and on_irc_client_connected()
OnIrcClientConnected(u, s) ==
  /\ process # "off"
  /\ client[<<u, s>>] = "connected"
  /\ client' = [client EXCEPT ![<<u, s>>] = "announced"]
  /\ TellItem(s, u, "available")
  /\ UNCHANGED <<items, process, link, to_gateway, contactVars, silent>>

\* on_connection_close() and on_irc_client_disconnected().
Disconnected(u, s, state) ==
  /\ process # "off"
  /\ client[<<u, s>>] \in {"connected", "announced"}
  /\ client' = [client EXCEPT ![<<u, s>>] = state]
  /\ TellItem(s, u, "unavailable")
  /\ UNCHANGED <<items, process, link, to_gateway, contactVars>>

\* The next thing that happens is clean(), or other handlers of the same poll
\* still find the client.
OnIrcClientDisconnected(u, s) == Disconnected(u, s, "none") /\ UNCHANGED silent
DisconnectedInBatch(u, s) == "batch" \in Env /\ Disconnected(u, s, "closed") /\ silent' = TRUE

\* clean()
Clean(u, s) ==
  /\ process # "off"
  /\ client[<<u, s>>] = "closed"
  /\ client' = [client EXCEPT ![<<u, s>>] = "none"]
  /\ UNCHANGED <<items, process, link, wires, contactVars, silent>>

\* shutdown(): unavailable to everybody in the table.
Shutdown ==
  /\ Room /\ process = "running"
  /\ process' = "exiting"
  /\ to_contact' = IF link THEN Lists({Stanza(i[1], i[2], "unavailable") : i \in items})
                            ELSE to_contact
  /\ UNCHANGED <<items, client, link, to_gateway, contactVars, silent>>

\* The main loop ends once there is no client; what was written is sent.
Exit ==
  /\ process = "exiting"
  /\ \A k \in DOMAIN client : client[k] = "none"
  /\ process' = "off" /\ link' = FALSE
  /\ to_gateway' = <<>>
  /\ UNCHANGED <<items, client, to_contact, contactVars, silent>>

\* The stream ends without notice: what was written last is lost.
StreamEnds ==
  /\ link' = FALSE
  /\ to_gateway' = <<>>
  /\ \E n \in [Contact -> 0 .. InFlight] :
       /\ \A u \in Contact : n[u] <= Len(to_contact[u])
       /\ to_contact' = [u \in Contact |-> SubSeq(to_contact[u], 1, n[u])]
  /\ silent' = TRUE
  /\ UNCHANGED contactVars

\* The process is killed.
Crash ==
  /\ "crash" \in Env /\ process # "off"
  /\ process' = "off"
  /\ client' = [k \in DOMAIN client |-> "none"]
  /\ StreamEnds
  /\ UNCHANGED items

LinkLost ==
  /\ "link" \in Env /\ link
  /\ StreamEnds
  /\ UNCHANGED gatewayVars

\* A mistaken after_handshake(): nobody is probed.
MutAfterHandshake ==
  /\ Room /\ process # "exiting" /\ ~link
  /\ process' = "running" /\ link' = TRUE
  /\ UNCHANGED <<items, client, wires, contactVars, silent>>

\* The process starts, or only connects again; after_handshake() probes the
\* contacts of the gateway.
AfterHandshake ==
  /\ Room /\ process # "exiting" /\ ~link
  /\ process' = "running" /\ link' = TRUE
  /\ to_contact' = Lists({Stanza(i[1], i[2], "probe") : i \in {i \in items : i[1] = Gateway}})
  /\ UNCHANGED <<items, client, to_gateway, contactVars, silent>>

-----------------------------------------------------------------------------
(* The users, and their XMPP server.                                       *)

\* What a user sends while there is no stream is not delivered.
Posts(stanzas) == to_gateway' = IF link THEN to_gateway \o stanzas ELSE to_gateway

To(u, S, type) == SetToSeq({Stanza(j, u, type) : j \in S})

UserSubscribes(u, j) ==
  /\ Room /\ link /\ u \in here
  /\ j \notin sub[u] \cup asked[u]
  /\ asked' = [asked EXCEPT ![u] = @ \cup {j}]
  /\ Posts(<<Stanza(j, u, "subscribe")>>)
  /\ UNCHANGED <<gatewayVars, link, to_contact, sub, allowed, here, shown, silent>>

\* The JID is removed from the roster, for both directions.
UserRemoves(u, j) ==
  /\ Room /\ u \in here
  /\ j \in sub[u] \cup asked[u] \cup allowed[u]
  /\ sub' = [sub EXCEPT ![u] = @ \ {j}]
  /\ asked' = [asked EXCEPT ![u] = @ \ {j}]
  /\ allowed' = [allowed EXCEPT ![u] = @ \ {j}]
  /\ shown' = [shown EXCEPT ![u] = @ \ {j}]
  /\ Posts(<<Stanza(j, u, "unsubscribe"), Stanza(j, u, "unsubscribed")>>)
  /\ UNCHANGED <<gatewayVars, link, to_contact, here, silent>>

\* The server of the user probes what the user is subscribed to, and sends the
\* presence of the user to its subscribers.
UserComes(u) ==
  /\ Room /\ u \notin here
  /\ here' = here \cup {u}
  /\ Posts(To(u, sub[u], "probe") \o To(u, allowed[u], "available"))
  /\ UNCHANGED <<gatewayVars, link, to_contact, sub, asked, allowed, shown, silent>>

UserLeaves(u) ==
  /\ Room /\ u \in here
  /\ here' = here \ {u}
  /\ shown' = [shown EXCEPT ![u] = {}]
  /\ Posts(To(u, allowed[u], "unavailable"))
  /\ UNCHANGED <<gatewayVars, link, to_contact, sub, asked, allowed, silent>>

\* The answer of the server or of the user to a presence.
Answer(u, j, type) ==
  CASE type = "subscribe" /\ j \notin allowed[u] ->
         <<"subscribed">> \o (IF u \in here THEN <<"available">> ELSE <<>>)
    [] type = "probe" ->
         IF j \notin allowed[u] THEN <<"unsubscribed">>
         ELSE IF u \in here THEN <<"available">> ELSE <<"unavailable">>
    [] OTHER -> <<>>

UserReceives(u) ==
  LET m == Head(to_contact[u])
      j == m.local
      accepted == m.type = "subscribed" /\ j \in asked[u]
      In(S) == S \cup {j}
      Out(S) == S \ {j}
  IN  /\ to_contact[u] # <<>>
      /\ to_contact' = [to_contact EXCEPT ![u] = Tail(@)]
      /\ sub' = [sub EXCEPT ![u] = IF accepted THEN In(@)
                                   ELSE IF m.type = "unsubscribed" THEN Out(@) ELSE @]
      /\ asked' = [asked EXCEPT ![u] = IF m.type \in {"subscribed", "unsubscribed"}
                                       THEN Out(@) ELSE @]
      /\ allowed' = [allowed EXCEPT ![u] = IF m.type = "subscribe" THEN In(@)
                                           ELSE IF m.type = "unsubscribe" THEN Out(@) ELSE @]
      /\ shown' = [shown EXCEPT ![u] =
                     IF m.type = "available" /\ j \in sub[u] /\ u \in here THEN In(@)
                     ELSE IF m.type \in {"unavailable", "unsubscribed"} THEN Out(@) ELSE @]
      /\ Posts(Presences(j, u, Answer(u, j, m.type)))
      /\ UNCHANGED <<gatewayVars, link, here, silent>>

-----------------------------------------------------------------------------
Next ==
  \/ OnPresence
  \/ \E u \in Contact, s \in Server :
       \/ Connect(u, s) \/ OnConnected(u, s) \/ OnConnectionFailed(u, s)
       \/ OnIrcClientConnected(u, s) \/ OnIrcClientDisconnected(u, s)
       \/ DisconnectedInBatch(u, s) \/ Clean(u, s)
  \/ Shutdown \/ Exit \/ Crash \/ LinkLost \/ AfterHandshake
  \/ \E u \in Contact, j \in Local : UserSubscribes(u, j) \/ UserRemoves(u, j)
  \/ \E u \in Contact : UserComes(u) \/ UserLeaves(u) \/ UserReceives(u)

Spec == Init /\ [][Next]_vars

-----------------------------------------------------------------------------
(* Properties.                                                             *)

Types == {"available", "subscribe", "subscribed", "unsubscribe", "unsubscribed", "probe", "unavailable"}
Stanzas == [local : Local, remote : Contact, type : Types]

TypeOK ==
  /\ items \subseteq Local \X Contact
  /\ client \in [Contact \X Server -> {"none", "connecting", "connected", "announced", "closed"}]
  /\ to_gateway \in Seq(Stanzas) /\ to_contact \in [Contact -> Seq(Stanzas)]
  /\ process \in {"running", "exiting", "off"} /\ link \in BOOLEAN
  /\ sub \in [Contact -> SUBSET Local] /\ asked \in [Contact -> SUBSET Local]
  /\ allowed \in [Contact -> SUBSET Local] /\ shown \in [Contact -> SUBSET Local]
  /\ here \subseteq Contact /\ silent \in BOOLEAN

\* Nothing is on its way.
Quiet == to_gateway = <<>> /\ \A u \in Contact : to_contact[u] = <<>>

\* An acceptance that is on its way has its item: with this Remembered is
\* inductive.
Carried ==
  \A u \in Contact : \A k \in 1 .. Len(to_contact[u]) :
    to_contact[u][k].type = "subscribed" => <<to_contact[u][k].local, u>> \in items

\* Whoever is subscribed is in the table, whatever happened to the process and
\* to the stream since: no restart makes the gateway forget a contact.
Remembered == \A u \in Contact : \A j \in sub[u] : <<j, u>> \in items

\* A user that is online and subscribed to the gateway sees it online while it
\* runs: the first presence, the farewell of shutdown() and the probes of the
\* next start leave the roster right.
GatewayShown ==
  (Quiet /\ link /\ process = "running") =>
    \A u \in here : Gateway \in sub[u] \cap allowed[u] => Gateway \in shown[u]

\* The roster of a user that is online shows the servers it is subscribed to
\* and connected to, and no other.
ServerShown ==
  (Quiet /\ link /\ process = "running" /\ ~silent) =>
    \A u \in here, s \in Server :
      /\ (s \in sub[u] /\ client[<<u, s>>] = "announced") => s \in shown[u]
      /\ s \in shown[u] => client[<<u, s>>] # "none"

\* A contact that removed the gateway from its roster, while the gateway was
\* running or not, is not in the table once the stanzas are read.
InSync ==
  (Quiet /\ link) =>
    \A u \in Contact : Gateway \notin sub[u] \cup allowed[u] => <<Gateway, u>> \notin items
=============================================================================
