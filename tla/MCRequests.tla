----------------------------- MODULE MCRequests -----------------------------
(* Instances of Requests for TLC.                                          *)
EXTENDS Requests

TwoListings == {<<"a", "b">>, <<"b">>}
TwoIds == <<"i1", "i2">>
\* Every kind for one nick, a ping for the other.
SomeRequests == [kind: {"kick", "role", "ping", "version"}, nick: {"n1"}]
                \cup [kind: {"ping"}, nick: {"n2"}]
\* Every iq and message that Dispatch tells apart.
To == {"gateway", "server", "channel", "special", "user"}
Some(type, child, args) == {Stanza(type, child, a, t, r) : a \in args, t \in To, r \in BOOLEAN}
AllStanzas ==
  [iqs |-> {q \in Some("set", "admin", {"none", "kick", "role"}) : q.to # "user"}
           \cup Some("set", "command", {"result", "error"}) \cup Some("set", "mam", {"found", "unknown"})
           \cup Some("set", "owner", {"form", "none"}) \cup Some("get", "owner", {""})
           \cup Some("get", "info", {"", "traffic"}) \cup Some("get", "items", {"", "commands"})
           \cup UNION {Some("get", c, {""}) : c \in {"version", "ping", "none"}}
           \cup UNION {Some(t, "version", {""}) : t \in {"result", "error"}}
           \cup UNION {Some(t, "none", {""}) : t \in {"set", "error", "incomplete", "other"}},
   messages |-> UNION {Some(t, "none", {"none", "body", "subject", "invite", "invite jid"}) :
                         t \in {"groupchat", "chat", "normal", "error"}}]
OnePing == {<<"1", "2">>}
=============================================================================
