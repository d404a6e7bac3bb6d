------------------------- MODULE ConnectionInvariant ------------------------
(***************************************************************************)
(* What the proofs about the connection keep true: the state of the socket *)
(* and of the call chain, and where the negotiation with the server is.    *)
(***************************************************************************)
EXTENDS Connection

\* The types of the records; the buffers hold what the code writes.
Buffer == Seq(Messages)
PortList == Seq(BOOLEAN)

TcpType == [connecting: BOOLEAN, connected: BOOLEAN, managed: BOOLEAN, watching: BOOLEAN,
            timers: Nat, use_tls: BOOLEAN, tls: {"none", "hello", "active"},
            out: Buffer, pre: Buffer]

DnsType == [resolving: BOOLEAN, resolved: BOOLEAN, addrs: Nat, queries: SUBSET {"a4", "a6"}]

IrcType == [ports: PortList, resolution_failed: BOOLEAN, caps: SUBSET {"multi-prefix", "sasl"},
            sasl: {"unneeded", "needed", "success", "failure"}, ends: Nat, welcomed: BOOLEAN,
            lookup: BOOLEAN, answer: {"none", "joined", "error", "closed", "no_port", "dropped"}]

\* The types of the variables of the socket and of the call chain.
SockType ==
  /\ tcp \in TcpType /\ dns \in DnsType /\ irc \in IrcType
  /\ pc \in {"idle", "start", "connect", "failed", "connected", "close"}
  /\ after \in BOOLEAN /\ alive \in BOOLEAN /\ threw \in BOOLEAN

\* The socket is managed, watched and timed when its state says so.
SocketInv ==
  /\ ~threw
  /\ tcp.managed <=> (tcp.connecting \/ tcp.connected)
  /\ ~(tcp.connecting /\ tcp.connected)
  /\ tcp.timers > 0 => tcp.connecting
  /\ tcp.connecting => tcp.watching
  /\ tcp.connected /\ tcp.out # <<>> => tcp.watching
  /\ ~tcp.connected => tcp.out = <<>>

\* What each function of a call chain finds: connect() an unconnected socket,
\* on_connection_failed() a closed one, unless connect() closes it afterwards.
ChainInv ==
  /\ pc = "connect" => ~tcp.connected /\ ~dns.resolving
  /\ pc = "connected" => tcp.connected
  /\ pc = "close" => after
  /\ after => pc \in {"failed", "start", "close"} /\ tcp.connecting /\ ~dns.resolving
  /\ dns.resolving => ~dns.resolved /\ ~tcp.connecting /\ ~tcp.connected
  /\ dns.resolving => pc \in {"idle", "start"}
  /\ pc = "failed" => ~tcp.connected
  /\ dns.queries # {} => dns.resolving
  /\ ~alive => pc = "idle"

\* The inductive invariant of the socket.
ConnInv == SockType /\ SocketInv /\ ChainInv

-----------------------------------------------------------------------------
(* The negotiation.                                                        *)

\* A line of a kind, at most one, and a kind of line only after another.
Has(s, T) == \E k \in 1..Len(s) : s[k] \in T
One(s, T) == \A j, k \in 1..Len(s) : s[j] \in T /\ s[k] \in T => j = k
Led(s, A, B) == \A k \in 1..Len(s) : s[k] \in A => \E j \in 1..(k - 1) : s[j] \in B

\* What the server says, and what of it is a line of IRC.
Lines == {<<m>> : m \in {"AUTHENTICATE", "903", "904", "433", "001"}}
         \cup {"ACK", "NAK"} \X {"multi-prefix", "sasl"}

Replies == {<<m>> : m \in {"tls", "tls_alert", "end"}} \cup Lines

\* The steps of the authentication and what the server answers to them; what it
\* answers to the request for a capability.
Steps == {"PLAIN", "credentials"}
Answers == {<<"AUTHENTICATE">>, <<"903">>, <<"904">>}
About(cap) == {<<"ACK", cap>>, <<"NAK", cap>>}
Replied == Seq(Replies)

\* No step of the authentication is under way, one is at most, and the answer
\* about multi-prefix comes before the one about sasl.
None(s, r) == ~Has(s, Steps) /\ ~Has(r, Answers)
Once(s, r) == One(s, Steps) /\ One(r, Answers) /\ (~Has(s, Steps) \/ ~Has(r, Answers))

Ordered(s, r) ==
  /\ Led(r, About("sasl"), About("multi-prefix"))
  /\ Led(s, {"sasl"}, {"multi-prefix"}) \/ Has(r, About("multi-prefix"))

\* The negotiation of a client with (p) or without a password, with a server of a
\* kind: s is what the server has not read yet, r what the client has not.  The
\* negotiation ends once, after the authentication when there is a password.
Talk(p, kind, s, r, caps, sasl, ends) ==
  /\ kind = "nocap" => ~Has(r, About("multi-prefix")) /\ ~Has(r, About("sasl"))
  /\ ~p => /\ caps \subseteq {"multi-prefix"} /\ ends \in {0, 1} /\ (caps # {} => ends = 0)
           /\ None(s, r) /\ ~Has(s, {"sasl"}) /\ ~Has(r, About("sasl"))
  /\ p => /\ caps \subseteq {"multi-prefix", "sasl"} /\ ("sasl" \in caps \/ caps = {})
          /\ ends \in {0, 1} /\ (ends = 1 => sasl = "success") /\ sasl # "unneeded"
          /\ Once(s, r)
          /\ "sasl" \in caps => sasl = "needed" /\ None(s, r)
          /\ sasl # "needed" => None(s, r)
          /\ "multi-prefix" \in caps /\ kind # "nocap" => Ordered(s, r)

\* What on_cap() leaves: PLAIN when sasl is acknowledged, CAP END when no
\* capability is left and no authentication is to come.
AfterCap(p, kind, s, r, caps, sasl, ends, cap) ==
  LET left == caps \ {cap}
      ending == cap \in caps /\ left = {} /\ sasl # "needed"
  IN  /\ cap \in caps /\ cap = "sasl" =>
           sasl = "needed" /\ Talk(p, kind, s \o <<"PLAIN">>, Tail(r), left, sasl, ends)
      /\ ~ending => Talk(p, kind, s, Tail(r), left, sasl, ends)
      /\ ending => ~p /\ ends = 0 /\ Talk(p, kind, s \o <<"CAP_END">>, Tail(r), left, sasl, 1)

\* What on_connected() writes, after what waited.
Greeting(p) == <<"multi-prefix">> \o (IF p THEN <<"sasl">> ELSE <<>>) \o <<"register">>

\* What is written before the greeting, and what pre_buf may keep of an earlier
\* connection.
Early == {"hello", "QUIT"}
Stale == {"multi-prefix", "sasl", "register", "QUIT"}

\* The server has not welcomed the client, and will not before CAP END: it
\* negotiates, or will when it reads the request that precedes the registration.
Unserved(s, r, neg, reg, done) ==
  /\ ~done /\ ~Has(r, {<<"001">>}) /\ ~Has(s, {"CAP_END"})
  /\ neg \/ (~reg /\ Led(s, {"register"}, {"multi-prefix"}))

\* The types of the other side of the connection and of the configuration.
NetType == [up: BOOLEAN, wire: Buffer, reply: Replied, neg: BOOLEAN, reg: BOOLEAN, done: BOOLEAN]
ConfType == [password: BOOLEAN, webirc: BOOLEAN, kind: {"nocap", "cap", "sasl"}, ip: BOOLEAN]
NegType == SockType /\ net \in NetType /\ conf \in ConfType

\* What the server does with a line: what it answers, and what it knows then.
Reads(m, ms, neg, reg) ==
  /\ \/ m = "hello" /\ ms \in {<<<<"tls">>>>, <<<<"tls_alert">>>>} /\ neg = net.neg /\ reg = net.reg
     \/ m \in {"multi-prefix", "sasl"} /\ conf.kind = "nocap" /\ ms = <<>> /\ neg = net.neg /\ reg = net.reg
     \/ /\ m \in {"multi-prefix", "sasl"} /\ conf.kind # "nocap" /\ neg = ~net.done /\ reg = net.reg
        /\ \E x \in About(m) : ms = <<x>>
     \/ m = "PLAIN" /\ ms = <<<<"AUTHENTICATE">>>> /\ neg = net.neg /\ reg = net.reg
     \/ m = "credentials" /\ ms \in {<<<<"903">>>>, <<<<"904">>>>} /\ neg = net.neg /\ reg = net.reg
     \/ m = "register" /\ ms \in {<<>>, <<<<"433">>>>} /\ neg = net.neg /\ reg \in BOOLEAN
     \/ m = "CAP_END" /\ ms = <<>> /\ ~neg /\ reg = net.reg
     \/ m = "JOIN" /\ ms = <<>> /\ neg = net.neg /\ reg = net.reg
     \/ m = "QUIT" /\ ms = <<<<"end">>>> /\ neg = net.neg /\ reg = net.reg
  /\ neg \in BOOLEAN /\ reg \in BOOLEAN

\* The TLS handshake is not over; what was written to the socket; all that the
\* server will read; the address of the user is needed and not known;
\* on_connected() has greeted the server.
Unsent(t) == t.use_tls /\ t.tls # "active"
Written(t, n) == n.wire \o t.out
Stream(t, n) == Written(t, n) \o (IF Unsent(t) THEN t.pre ELSE <<>>)
Hidden(c) == c.webirc /\ ~c.ip
Greeted == tcp.connected /\ pc # "connected" /\ ~Hidden(conf)

\* What the socket, the resolver and the call chain have to do with the
\* connection: the other side is there only while it is connected, and a client
\* that was welcomed is not connecting.
LinkInv ==
  /\ pc \in {"connect", "failed"} => ~tcp.connected
  /\ pc = "connected" => tcp.connected
  /\ ~tcp.connected => tcp.out = <<>> /\ net = NoNet
  /\ dns.resolved \/ tcp.connecting \/ tcp.connected => dns.queries = {}
  /\ tcp.connected => tcp.timers = 0
  /\ irc.lookup => Hidden(conf)
  /\ irc.caps \subseteq Wanted
  /\ irc.welcomed => /\ pc = "idle" /\ ~Hidden(conf)
                     /\ ~tcp.connected => ~tcp.managed /\ tcp.timers = 0 /\ dns.queries = {}

\* pre_buf survives close(): what it may hold of an earlier connection.
HeldInv(h, c) ==
  /\ ~Has(h, Messages \ Stale)
  /\ Led(h, {"sasl"}, {"multi-prefix"}) /\ Led(h, {"register"}, {"multi-prefix"})
  /\ ~c.password => ~Has(h, {"sasl"})
  /\ Hidden(c) => ~Has(h, Messages \ {"QUIT"})

\* Until TLS is active nothing but the handshake is on the wire, and nothing of
\* IRC comes back.
HelloInv(t, n) ==
  /\ Unsent(t) => ~Has(Written(t, n), Messages \ {"hello"}) /\ ~Has(n.reply, Lines) /\ ~n.reg
  /\ ~t.use_tls => ~Has(Written(t, n), {"hello"}) /\ ~Has(n.reply, {<<"tls">>})
  /\ t.use_tls /\ t.tls = "active" => t.pre = <<>>

\* Before the greeting nothing of the negotiation has been said.
EarlyInv(t, n) ==
  /\ ~Has(Written(t, n), Messages \ Early) /\ ~Has(n.reply, Lines)
  /\ ~n.neg /\ ~n.reg /\ ~n.done

\* The negotiation of a client that greeted the server, and what it is not
\* served until it has authenticated.
Talking == Talk(conf.password, conf.kind, Stream(tcp, net), net.reply, irc.caps, irc.sasl, irc.ends)

Serving == conf.password /\ conf.kind # "nocap" /\ irc.sasl # "success" =>
             Unserved(Stream(tcp, net), net.reply, net.neg, net.reg, net.done)

\* CAP END is sent once at most, and on a server that knows CAP a client with a
\* password is welcomed after it authenticated.
TalkInv ==
  /\ irc.ends <= 1
  /\ conf.password /\ conf.kind # "nocap" /\ irc.welcomed => irc.sasl = "success"
  /\ tcp.connected /\ ~Greeted => EarlyInv(tcp, net)
  /\ Greeted => Talking /\ Serving

\* The inductive invariant of the negotiation.
NegInv == NegType /\ LinkInv /\ HeldInv(tcp.pre, conf) /\ (tcp.connected => HelloInv(tcp, net)) /\ TalkInv

\* What the server says after it read a line.
Adds(m, ms) ==
  /\ Has(ms, Answers) => m \in Steps
  /\ One(ms, Answers)
  /\ Has(ms, About("multi-prefix")) <=> m = "multi-prefix" /\ conf.kind # "nocap"
  /\ Has(ms, About("sasl")) => m = "sasl" /\ conf.kind # "nocap"
  /\ ~Has(ms, {<<"001">>})
  /\ Has(ms, Lines) => m \notin Early
  /\ Has(ms, {<<"tls">>}) => m = "hello"

\* A client with a password meets a server that does not know CAP only
\* where Faults allows it.
Willing == conf.password /\ conf.kind = "nocap" => "sasl_nocap" \in Faults
=============================================================================
