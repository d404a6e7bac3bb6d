------------------------------ MODULE Dispatch ------------------------------
(***************************************************************************)
(* handle_iq() and handle_message(): what a stanza that reaches the        *)
(* gateway leads to.  An outcome is the function of Bridge that is called  *)
(* and may answer later ("none" if there is none), the answers that are    *)
(* sent, and whether the scope guard stanza_error is still enabled when    *)
(* the handler returns, and then sends an error.                           *)
(*                                                                         *)
(* A stanza is a record of its type, of its child, of what matters in it,  *)
(* and of the JID it is for: "special" is a channel whose first character  *)
(* is in the CHANTYPES of its server, but neither "#" nor "&".             *)
(***************************************************************************)
EXTENDS Sequences

Stanza(type, child, arg, to, resource) ==
  [type |-> type, child |-> child, arg |-> arg, to |-> to, resource |-> resource]

\* Iid::type, for the CHANTYPES of the server and for the fixed set "#&".
IidType(to) ==
  CASE to = "gateway" -> "None"
    [] to = "server" -> "Server"
    [] to \in {"channel", "special"} -> "Channel"
    [] to = "user" -> "User"
DefaultType(to) == IF to = "special" THEN "User" ELSE IidType(to)

IsRoom(q) == DefaultType(q.to) = "Channel" /\ ~q.resource
HasHandler(q) == q.to = "gateway" \/ DefaultType(q.to) = "Server" \/ IsRoom(q)

\* The outcomes: an answer that is sent, a function that is called and answers
\* or waits, a return with the guard enabled, and nothing.
Effect(op, sent, guard) == [op |-> op, sent |-> sent, guard |-> guard]
Sends(reply) == Effect("none", <<reply>>, FALSE)

\* A mistaken handler: the guard is not disabled for a request that waits.
MutCalls(op) == Effect(op, <<>>, TRUE)

Calls(op) == Effect(op, <<>>, FALSE)
Fails == Effect("none", <<>>, TRUE)
NoAnswer == Effect("none", <<>>, FALSE)

\* What the destructor of the scope guard adds.
Guarded(d) == d.sent \o (IF d.guard THEN <<"error">> ELSE <<>>)

\* A function of Bridge that sends something to IRC, or throws IRCNotConnected:
\* the error is sent and the guard disabled by the handler.
Relays(connected) == IF connected THEN NoAnswer ELSE Sends("error")

-----------------------------------------------------------------------------
(* handle_iq()                                                             *)

\* Of an item without a nick, of a MAM query for an unknown line and of a form
\* that is not one, the guard says that it failed.
HandleSet(q) ==
  CASE q.child = "admin" /\ q.arg \in {"kick", "role"} ->
         IF q.to = "gateway" THEN Sends("error") ELSE Calls(q.arg)
    [] q.child = "command" /\ HasHandler(q) -> Sends(q.arg)
    [] q.child = "mam" /\ IsRoom(q) /\ q.arg = "found" -> Sends("result")
    [] q.child = "owner" /\ IsRoom(q) /\ q.arg = "form" -> Sends("result")
    [] OTHER -> Fails

\* on_gateway_ping()
OnGatewayPing(to, connected) == Sends(IF to = "gateway" \/ connected THEN "result" ELSE "error")

IsParticipant(q) == IidType(q.to) = "User" \/ (IidType(q.to) = "Channel" /\ q.resource)

HandleGet(q, connected) ==
  CASE q.child = "info" /\ q.arg = "" /\ (IF q.to = "gateway" THEN ~q.resource ELSE HasHandler(q)) ->
         Sends("result")
    [] q.child = "info" /\ q.arg = "traffic" /\ IsRoom(q) -> Sends("result")
    [] q.child = "version" -> IF IsParticipant(q) THEN Calls("version") ELSE Sends("result")
    [] /\ q.child = "items" /\ q.arg = "commands"
       /\ q.to = "gateway" \/ IidType(q.to) = "Server" \/ (IidType(q.to) = "Channel" /\ ~q.resource) ->
         Sends("result")
    [] q.child = "items" /\ q.arg = "" /\ IidType(q.to) = "Server" -> Calls("list")
    [] q.child = "ping" /\ IidType(q.to) = "User" -> Calls("ping")
    [] q.child = "ping" /\ IidType(q.to) = "Channel" /\ q.resource -> Calls("participant")
    [] q.child = "ping" /\ ~IsParticipant(q) -> OnGatewayPing(q.to, connected)
    [] q.child = "owner" /\ IsRoom(q) -> Sends("result")
    [] OTHER -> Fails

\* The results of pings are for waiting_iq, in Requests.
HandleIq(q, connected) ==
  CASE q.type = "set" -> HandleSet(q)
    [] q.type = "get" -> HandleGet(q, connected)
    [] q.type \in {"result", "error"} ->
         IF q.type = "result" /\ q.child = "version" THEN Relays(connected) ELSE NoAnswer
    [] q.type = "incomplete" -> Sends("error")
    [] OTHER -> Fails

-----------------------------------------------------------------------------
(* handle_message(); "inside" is is_resource_in_chan().                    *)

\* The body, then the subject.
HandleGroupchat(m, connected, inside) ==
  CASE m.arg = "body" -> IF inside THEN Relays(connected) ELSE Fails
    [] m.arg = "subject" -> Relays(connected)
    [] OTHER -> NoAnswer

\* To a user, through a channel or not, or to a server.  A nick without a server
\* is refused by send_private_message().
HandleChat(m, connected) ==
  CASE m.arg # "body" -> NoAnswer
    [] m.arg = "body" /\ m.to = "gateway" -> IF m.resource THEN Sends("error") ELSE NoAnswer
    [] m.arg = "body" /\ IidType(m.to) = "Channel" /\ ~m.resource -> NoAnswer
    [] OTHER -> Relays(connected)

\* A message of type "error" removes the resource: RemoveResource of Bridge.  An
\* "invite" is of a nick; that of a JID of another domain is passed on to it.
HandleMessage(m, connected, inside) ==
  CASE m.type = "groupchat" /\ IidType(m.to) = "Channel" -> HandleGroupchat(m, connected, inside)
    [] m.type = "chat" -> HandleChat(m, connected)
    [] m.type = "normal" /\ IidType(m.to) = "Channel" /\ m.arg = "invite" -> Relays(connected)
    [] OTHER -> NoAnswer
=============================================================================
