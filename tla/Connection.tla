----------------------------- MODULE Connection -----------------------------
(***************************************************************************)
(* One IrcClient from the join that creates it to the welcome of the       *)
(* server, or to the failure that ends it: the ports it tries, the name    *)
(* resolution, the non-blocking connect() and its timeout, the start of    *)
(* TLS, the poller's view of the socket, and the negotiation of            *)
(* capabilities and SASL.                                                  *)
(*                                                                         *)
(* The program is single-threaded.  A call chain (start, connect, ...) is  *)
(* followed by the control variable pc, one function per step; everything  *)
(* that comes from the event loop waits for pc = "idle".                   *)
(***************************************************************************)
EXTENDS Integers, Sequences, FiniteSets

CONSTANTS
  Ports,       \* the ports to try, in order: TRUE for a port of the TLS list
  MaxAddrs,    \* addresses of the server, at most
  MaxTimers,   \* connection_timeout events at one time, at most
  MaxJoins,    \* joins that find the same client, at most
  Kinds,       \* what the server knows: "nocap", "cap" or "sasl"
  Webirc,      \* may webirc_password be set?
  Faults       \* the unusual outcomes considered, a subset of AllFaults

\* Outcomes that are rare.  tls_start: start_tls() throws.  submit: udns
\* takes neither query.  at_once: connect() succeeds without EINPROGRESS on
\* a TLS port.  disconnect: the ad-hoc command removes a client that is still
\* resolving.  sasl_nocap: a SASL password for a server that ignores CAP.
AllFaults == {"tls_start", "submit", "at_once", "disconnect", "sasl_nocap"}

ASSUME ConnectionAssumptions ==
  /\ Ports \in Seq(BOOLEAN)
  /\ MaxAddrs \in Nat \ {0} /\ MaxTimers \in Nat \ {0} /\ MaxJoins \in Nat \ {0}
  /\ Kinds \subseteq {"nocap", "cap", "sasl"}
  /\ Webirc \subseteq BOOLEAN
  /\ Faults \subseteq AllFaults

VARIABLES
  pc,      \* the function of the call chain that runs next, or "idle"
  after,   \* connect() closes the socket when on_connection_failed() returns
  alive,   \* the client is in Bridge::irc_clients
  threw,   \* remove_socket_handler() was called for a socket it does not manage
  tcp,     \* the socket handler
  dns,     \* its Resolver
  irc,     \* the IrcClient
  net,     \* the two directions of the connection, and the server
  conf,    \* the configuration: password, webirc, and the kind of server
  joins    \* joins this client was asked for

vars == <<pc, after, alive, threw, tcp, dns, irc, net, conf, joins>>
ctl == <<pc, after, alive, threw>>

NoResolution == [resolving |-> FALSE, resolved |-> FALSE, addrs |-> 0, queries |-> {}]

FreshTcp == [connecting |-> FALSE, connected |-> FALSE, managed |-> FALSE, watching |-> FALSE,
             timers |-> 0, use_tls |-> FALSE, tls |-> "none", out |-> <<>>, pre |-> <<>>]

FreshIrc == [ports |-> Ports, resolution_failed |-> FALSE, caps |-> {},
             sasl |-> "unneeded", ends |-> 0, welcomed |-> FALSE, lookup |-> FALSE,
             answer |-> "none"]

NoNet == [up |-> FALSE, wire |-> <<>>, reply |-> <<>>, neg |-> FALSE, reg |-> FALSE,
          done |-> FALSE]

Init ==
  /\ pc = "start" /\ after = FALSE /\ alive = TRUE /\ threw = FALSE
  /\ tcp = FreshTcp /\ dns = NoResolution /\ irc = FreshIrc /\ net = NoNet
  /\ conf \in [password: BOOLEAN, webirc: Webirc, kind: Kinds, ip: {FALSE}]
  /\ conf.password /\ conf.kind = "nocap" => "sasl_nocap" \in Faults
  /\ joins = 1

IsConnecting == tcp.connecting \/ dns.resolving

\* The end of a call chain: connect() may still have a close() to do.
Return == pc' = IF after THEN "close" ELSE "idle"

-----------------------------------------------------------------------------
(* The socket handler.                                                     *)

\* close(): what it leaves of the handler and of the resolver.  pre_buf and
\* the TLS session are left alone.
Closed == [tcp EXCEPT !.connecting = FALSE, !.connected = FALSE, !.managed = FALSE,
                      !.watching = FALSE, !.timers = 0, !.out = <<>>]

Close ==
  /\ tcp' = Closed
  /\ dns' = [dns EXCEPT !.resolving = FALSE, !.resolved = FALSE, !.addrs = 0]
  /\ net' = NoNet
  /\ threw' = (threw \/ ((tcp.connected \/ IsConnecting) /\ ~tcp.managed))

\* send_data(): before the TLS session is active the data is kept in pre_buf.
SendData(t, ms) ==
  IF t.use_tls /\ t.tls # "active"
  THEN [t EXCEPT !.pre = @ \o ms]
  ELSE [t EXCEPT !.out = @ \o ms, !.watching = @ \/ t.connected]

-----------------------------------------------------------------------------
(* The call chains.                                                        *)

Start ==
  /\ pc = "start"
  /\ \/ /\ IsConnecting \/ tcp.connected
        /\ Return /\ UNCHANGED <<irc, tcp>>
     \/ /\ ~IsConnecting /\ ~tcp.connected /\ irc.ports = <<>>
        /\ irc' = [irc EXCEPT !.answer = "no_port"]
        /\ Return /\ UNCHANGED tcp
     \/ /\ ~IsConnecting /\ ~tcp.connected /\ irc.ports # <<>>
        /\ irc' = [irc EXCEPT !.ports = Tail(@)]
        /\ tcp' = [tcp EXCEPT !.use_tls = Head(irc.ports)]
        /\ pc' = "connect"
  /\ UNCHANGED <<after, alive, threw, dns, net, conf, joins>>

\* connect(), first call: Resolver::resolve().  A numeric address or a name
\* of /etc/hosts is resolved at once and connect() is called again; otherwise
\* udns is asked for both families.  A query it does not take is answered at
\* once, without the callback that looks whether both are there.
Resolve ==
  /\ pc = "connect" /\ ~tcp.connecting /\ ~dns.resolved
  /\ \/ /\ \E n \in 1..MaxAddrs :
             dns' = [resolving |-> FALSE, resolved |-> TRUE, addrs |-> n, queries |-> {}]
        /\ UNCHANGED pc
     \/ /\ \E qs \in SUBSET {"a4", "a6"} :
             /\ qs # {} \/ "submit" \in Faults
             /\ dns' = [resolving |-> TRUE, resolved |-> FALSE, addrs |-> 0, queries |-> qs]
        /\ Return
  /\ UNCHANGED <<after, alive, threw, tcp, irc, net, conf, joins>>

\* connect(), called again by the resolver without an address.
Unresolved ==
  /\ pc = "connect" /\ ~tcp.connecting /\ dns.resolved /\ dns.addrs = 0
  /\ irc' = [irc EXCEPT !.resolution_failed = TRUE]
  /\ Close
  /\ pc' = "failed"
  /\ UNCHANGED <<after, alive, conf, joins>>

\* connect() has something to try: the addresses found, or the one saved by
\* an earlier call.
Tries == pc = "connect" /\ (tcp.connecting \/ (dns.resolved /\ dns.addrs > 0))

\* No address is left, or init_socket() threw.
AllFail ==
  /\ Tries
  /\ Close
  /\ pc' = "failed"
  /\ UNCHANGED <<after, alive, irc, conf, joins>>

\* EINPROGRESS, or EALREADY when the poller was too early.
InProgress ==
  /\ Tries /\ tcp.timers < MaxTimers
  /\ tcp' = [tcp EXCEPT !.connecting = TRUE, !.managed = TRUE, !.watching = TRUE,
                        !.timers = @ + 1]
  /\ Return
  /\ UNCHANGED <<after, alive, threw, dns, irc, net, conf, joins>>

\* The timer is not cancelled.
MutEstablishedNoCancel ==
  /\ Tries
  /\ tcp.use_tls /\ ~tcp.connecting => "at_once" \in Faults
  /\ tcp' = [tcp EXCEPT !.managed = TRUE, !.connected = TRUE,
                        !.connecting = FALSE,
                        !.tls = IF tcp.use_tls THEN "hello" ELSE @,
                        !.out = IF tcp.use_tls THEN Append(@, "hello") ELSE @]
  /\ net' = [NoNet EXCEPT !.up = TRUE]
  /\ pc' = "connected"
  /\ UNCHANGED <<after, alive, threw, dns, irc, conf, joins>>

\* The connection is made.  start_tls() writes its first record before
\* "connected" is set, so nothing asks the poller to watch for it; after
\* EINPROGRESS the poller already does.
Established ==
  /\ Tries
  /\ tcp.use_tls /\ ~tcp.connecting => "at_once" \in Faults
  /\ tcp' = [tcp EXCEPT !.timers = 0, !.managed = TRUE, !.connected = TRUE,
                        !.connecting = FALSE,
                        !.tls = IF tcp.use_tls THEN "hello" ELSE @,
                        !.out = IF tcp.use_tls THEN Append(@, "hello") ELSE @]
  /\ net' = [NoNet EXCEPT !.up = TRUE]
  /\ pc' = "connected"
  /\ UNCHANGED <<after, alive, threw, dns, irc, conf, joins>>

\* start_tls() throws: on_connection_failed() runs first, close() after it.
TlsStartFails ==
  /\ Tries /\ tcp.use_tls /\ "tls_start" \in Faults
  /\ ~tcp.connecting => "at_once" \in Faults
  /\ after' = TRUE
  /\ pc' = "failed"
  /\ UNCHANGED <<alive, threw, tcp, dns, irc, net, conf, joins>>

\* connect() goes on after on_connection_failed().  A join that start() did not
\* give to another port is left with the text message of that function.
CloseAfter ==
  /\ pc = "close"
  /\ Close
  /\ after' = FALSE /\ pc' = "idle"
  /\ irc' = [irc EXCEPT !.answer = IF @ = "none" THEN "dropped" ELSE @]
  /\ UNCHANGED <<alive, conf, joins>>

\* The error presence answers every channel of channels_to_join.
TellError(i) == [i EXCEPT !.answer = IF @ = "none" THEN "error" ELSE @]

MutOnConnectionFailedSilent ==
  /\ pc = "failed"
  /\ LET left == IF irc.resolution_failed THEN <<>> ELSE irc.ports
     IN  IF left = <<>>
         THEN irc' = [irc EXCEPT !.ports = left] /\ Return
         ELSE pc' = "start" /\ UNCHANGED irc
  /\ UNCHANGED <<after, alive, threw, tcp, dns, net, conf, joins>>

\* IrcClient::on_connection_failed()
OnConnectionFailed ==
  /\ pc = "failed"
  /\ LET left == IF irc.resolution_failed THEN <<>> ELSE irc.ports
     IN  IF left = <<>>
         THEN irc' = [TellError(irc) EXCEPT !.ports = left] /\ Return
         ELSE pc' = "start" /\ UNCHANGED irc
  /\ UNCHANGED <<after, alive, threw, tcp, dns, net, conf, joins>>

\* IrcClient::on_connected().  With webirc the address of the user is
\* resolved first, once for the whole process; a failure to find it ends here
\* too.  The capabilities are asked for in the order of the std::map.
Wanted == {"multi-prefix"} \cup (IF conf.password THEN {"sasl"} ELSE {})

OnConnected ==
  /\ pc = "connected"
  /\ IF conf.webirc /\ ~conf.ip
     THEN irc' = [irc EXCEPT !.lookup = TRUE, !.ends = 0] /\ UNCHANGED tcp
     ELSE /\ irc' = [irc EXCEPT !.caps = @ \cup Wanted, !.ends = 0,
                                !.sasl = IF conf.password THEN "needed" ELSE @]
          /\ tcp' = SendData(tcp, <<"multi-prefix">>
                                  \o (IF "sasl" \in irc'.caps THEN <<"sasl">> ELSE <<>>)
                                  \o <<"register">>)
  /\ Return
  /\ UNCHANGED <<after, alive, threw, dns, net, conf, joins>>

-----------------------------------------------------------------------------
(* The event loop.                                                         *)

Idle == pc = "idle" /\ alive

\* One of the two answers of udns; the second one calls connect() again.
DnsAnswer ==
  /\ Idle
  /\ \E q \in dns.queries, n \in 0..1 :
       LET left == dns.queries \ {q}
       IN  /\ dns' = [dns EXCEPT !.queries = left,
                                 !.addrs = IF @ + n > MaxAddrs THEN @ ELSE @ + n,
                                 !.resolved = (left = {}), !.resolving = (left # {})]
           /\ pc' = IF left = {} THEN "connect" ELSE "idle"
  /\ UNCHANGED <<after, alive, threw, tcp, irc, net, conf, joins>>

\* on_connection_timeout()
Timeout ==
  /\ Idle /\ tcp.timers > 0
  /\ Close
  /\ pc' = "failed"
  /\ UNCHANGED <<after, alive, irc, conf, joins>>

\* The poller reports a socket that is not connected yet.
PollConnect ==
  /\ Idle /\ tcp.managed /\ tcp.watching /\ ~tcp.connected
  /\ pc' = "connect"
  /\ UNCHANGED <<after, alive, threw, tcp, dns, irc, net, conf, joins>>

\* on_send()
OnSend ==
  /\ Idle /\ tcp.connected /\ tcp.watching /\ net.up
  /\ net' = [net EXCEPT !.wire = @ \o tcp.out]
  /\ tcp' = [tcp EXCEPT !.out = <<>>, !.watching = FALSE]
  /\ UNCHANGED <<ctl, dns, irc, conf, joins>>

\* on_connection_close(): on_error() tells the user through the gateway.
OnClose ==
  /\ irc' = [irc EXCEPT !.answer = IF @ = "none" THEN "closed" ELSE @]
  /\ Close
  /\ UNCHANGED <<pc, after, alive, conf, joins>>

SendFails == Idle /\ tcp.connected /\ tcp.watching /\ ~net.up /\ OnClose

\* on_recv(): one line, the end of the TLS handshake, or the end of the stream.
Receives(m) == Idle /\ tcp.connected /\ net.reply # <<>> /\ Head(net.reply) = m
Taken == net' = [net EXCEPT !.reply = Tail(@)]

OnEnd == (Receives(<<"end">>) \/ Receives(<<"tls_alert">>)) /\ OnClose

OnTlsActivated ==
  /\ Receives(<<"tls">>) /\ Taken
  /\ tcp' = SendData([tcp EXCEPT !.tls = "active", !.pre = <<>>], tcp.pre)
  /\ UNCHANGED <<ctl, dns, irc, conf, joins>>

\* cap_end(): not while SASL is needed.
MayEnd(i) == i.sasl # "needed"
EndNow(i) == [i EXCEPT !.ends = @ + 1]

\* A capability that was already handled is not looked for.
MutOnCapAgain ==
  \E cap \in {"multi-prefix", "sasl"}, sub \in {"ACK", "NAK"} :
    /\ Receives(<<sub, cap>>) /\ Taken
    /\ LET i == [irc EXCEPT !.caps = @ \ {cap}]
           ends == i.caps = {} /\ MayEnd(i)
       IN  /\ irc' = IF ends THEN EndNow(i) ELSE i
           /\ tcp' = SendData(tcp, (IF cap = "sasl" /\ sub = "ACK" THEN <<"PLAIN">> ELSE <<>>)
                                   \o (IF ends THEN <<"CAP_END">> ELSE <<>>))
    /\ UNCHANGED <<ctl, dns, conf, joins>>

\* on_cap(): the server refuses with NAK, the code knows NACK and does nothing
\* for it either; both take the capability off the list.
OnCap ==
  \E cap \in {"multi-prefix", "sasl"}, sub \in {"ACK", "NAK"} :
    /\ Receives(<<sub, cap>>) /\ Taken
    /\ LET i == [irc EXCEPT !.caps = @ \ {cap}]
           ends == cap \in irc.caps /\ i.caps = {} /\ MayEnd(i)
       IN  /\ irc' = IF ends THEN EndNow(i) ELSE i
           /\ tcp' = SendData(tcp,
                (IF cap \in irc.caps /\ cap = "sasl" /\ sub = "ACK" THEN <<"PLAIN">> ELSE <<>>)
                \o (IF ends THEN <<"CAP_END">> ELSE <<>>))
    /\ UNCHANGED <<ctl, dns, conf, joins>>

OnAuthenticate ==
  /\ Receives(<<"AUTHENTICATE">>) /\ Taken
  /\ tcp' = IF irc.sasl = "unneeded" THEN tcp ELSE SendData(tcp, <<"credentials">>)
  /\ UNCHANGED <<ctl, dns, irc, conf, joins>>

OnSaslSuccess ==
  /\ Receives(<<"903">>) /\ Taken
  /\ irc' = EndNow([irc EXCEPT !.sasl = "success"])
  /\ tcp' = SendData(tcp, <<"CAP_END">>)
  /\ UNCHANGED <<ctl, dns, conf, joins>>

\* The registration goes on without the authentication.
MutOnSaslFailureGoesOn ==
  /\ Receives(<<"904">>) /\ Taken
  /\ irc' = EndNow([irc EXCEPT !.sasl = "failure"])
  /\ tcp' = SendData(tcp, <<"CAP_END">>)
  /\ UNCHANGED <<ctl, dns, conf, joins>>

OnSaslFailure ==
  /\ Receives(<<"904">>) /\ Taken
  /\ irc' = TellError([irc EXCEPT !.sasl = "failure"])
  /\ tcp' = SendData(tcp, <<"QUIT">>)
  /\ UNCHANGED <<ctl, dns, conf, joins>>

\* on_nickname_conflict(): only the channels already there are told.
OnNicknameConflict ==
  /\ Receives(<<"433">>) /\ Taken
  /\ UNCHANGED <<ctl, tcp, dns, irc, conf, joins>>

\* on_welcome_message(): the JOINs that waited are sent.
OnWelcome ==
  /\ Receives(<<"001">>) /\ Taken
  /\ irc' = [irc EXCEPT !.welcomed = TRUE, !.answer = IF @ = "none" THEN "joined" ELSE @]
  /\ tcp' = IF irc.answer = "none" THEN SendData(tcp, <<"JOIN">>) ELSE tcp
  /\ UNCHANGED <<ctl, dns, conf, joins>>

\* The user's own address is found, or not; nothing is done when the
\* connection has gone meanwhile.
LookupAnswer ==
  /\ Idle /\ irc.lookup
  /\ \/ /\ conf' = [conf EXCEPT !.ip = TRUE]
        /\ irc' = [irc EXCEPT !.lookup = FALSE]
        /\ pc' = IF tcp.connected THEN "connected" ELSE "idle"
        /\ UNCHANGED tcp
     \/ /\ irc' = [irc EXCEPT !.lookup = FALSE,
                              !.answer = IF @ = "none" /\ tcp.connected THEN "closed" ELSE @]
        /\ tcp' = IF tcp.connected THEN SendData(tcp, <<"QUIT">>) ELSE tcp
        /\ UNCHANGED <<pc, conf>>
  /\ UNCHANGED <<after, alive, threw, dns, net, joins>>

\* Another join finds the client before clean() does (a join on a client that
\* was welcomed is in Bridge).
Rejoin ==
  /\ Idle /\ joins < MaxJoins /\ irc.answer # "none" /\ ~irc.welcomed /\ ~irc.lookup
  /\ joins' = joins + 1
  /\ irc' = [irc EXCEPT !.answer = "none"]
  /\ pc' = "start"
  /\ UNCHANGED <<after, alive, threw, tcp, dns, net, conf>>

\* Bridge::clean()
Clean ==
  /\ Idle /\ ~tcp.connected /\ ~IsConnecting
  /\ alive' = FALSE
  /\ UNCHANGED <<pc, after, threw, tcp, dns, irc, net, conf, joins>>

\* The ad-hoc command removes the client; the destructor closes the socket.
DisconnectUserFromServer ==
  /\ Idle /\ (dns.resolving => "disconnect" \in Faults)
  /\ irc' = [irc EXCEPT !.answer = IF @ = "none" THEN "closed" ELSE @]
  /\ Close
  /\ alive' = FALSE
  /\ UNCHANGED <<pc, after, conf, joins>>

\* A later join makes a new client.
NewClient ==
  /\ ~alive
  /\ pc' = "start" /\ alive' = TRUE /\ joins' = 1
  /\ tcp' = FreshTcp /\ dns' = NoResolution /\ irc' = FreshIrc /\ net' = NoNet
  /\ UNCHANGED <<after, threw, conf>>

-----------------------------------------------------------------------------
(* The server and the network.                                             *)

Says(n, ms) == [n EXCEPT !.wire = Tail(@), !.reply = @ \o ms]

ServerReads ==
  /\ net.up /\ net.wire # <<>>
  /\ LET m == Head(net.wire)
     IN  \/ m = "hello" /\ \E r \in {"tls", "tls_alert"} : net' = Says(net, <<<<r>>>>)
         \/ /\ m \in {"multi-prefix", "sasl"} /\ conf.kind = "nocap"
            /\ net' = Says(net, <<>>)
         \/ /\ m \in {"multi-prefix", "sasl"} /\ conf.kind # "nocap"
            /\ net' = [Says(net, <<<<IF m = "sasl" /\ conf.kind = "cap" THEN "NAK" ELSE "ACK", m>>>>)
                         EXCEPT !.neg = ~net.done]
         \/ m = "PLAIN" /\ net' = Says(net, <<<<"AUTHENTICATE">>>>)
         \/ m = "credentials" /\ \E r \in {"903", "904"} : net' = Says(net, <<<<r>>>>)
         \/ m = "register" /\ net' = [Says(net, <<>>) EXCEPT !.reg = TRUE]
         \/ m = "register" /\ ~net.reg /\ net' = Says(net, <<<<"433">>>>)
         \/ m = "CAP_END" /\ net' = [Says(net, <<>>) EXCEPT !.neg = FALSE]
         \/ m = "JOIN" /\ net' = Says(net, <<>>)
         \/ m = "QUIT" /\ net' = [Says(net, <<<<"end">>>>) EXCEPT !.up = FALSE]
  /\ UNCHANGED <<ctl, tcp, dns, irc, conf, joins>>

ServerWelcomes ==
  /\ net.up /\ net.reg /\ ~net.neg /\ ~net.done
  /\ net' = [net EXCEPT !.done = TRUE, !.reply = Append(@, <<"001">>)]
  /\ UNCHANGED <<ctl, tcp, dns, irc, conf, joins>>

\* The server gives up a client, at the latest one that does not register.
ServerCloses ==
  /\ net.up
  /\ net' = [net EXCEPT !.up = FALSE, !.reply = Append(@, <<"end">>)]
  /\ UNCHANGED <<ctl, tcp, dns, irc, conf, joins>>

-----------------------------------------------------------------------------
Chain == \/ Start \/ Resolve \/ Unresolved \/ AllFail \/ InProgress \/ Established
         \/ TlsStartFails \/ CloseAfter \/ OnConnectionFailed \/ OnConnected

Receive == \/ OnEnd \/ OnTlsActivated \/ OnCap \/ OnAuthenticate \/ OnSaslSuccess
           \/ OnSaslFailure \/ OnNicknameConflict \/ OnWelcome

Next == \/ Chain \/ DnsAnswer \/ Timeout \/ PollConnect \/ OnSend \/ SendFails \/ Receive
        \/ LookupAnswer \/ Rejoin \/ Clean \/ DisconnectUserFromServer \/ NewClient
        \/ ServerReads \/ ServerWelcomes \/ ServerCloses

Spec == Init /\ [][Next]_vars

(* A call chain runs to its end; udns answers or gives up by itself; timers *)
(* fire; the poller reports sockets that are ready.  The server reads what  *)
(* it is sent and gives up a client that does not register.                 *)
Fairness ==
  /\ WF_vars(Chain) /\ WF_vars(DnsAnswer) /\ WF_vars(Timeout)
  /\ WF_vars(OnSend) /\ WF_vars(SendFails) /\ WF_vars(Receive) /\ WF_vars(LookupAnswer)
  /\ WF_vars(ServerReads) /\ WF_vars(ServerCloses /\ ~net.done)

FairSpec == Spec /\ Fairness

-----------------------------------------------------------------------------
(* Properties.                                                             *)

Messages == {"hello", "multi-prefix", "sasl", "register", "PLAIN", "credentials",
             "CAP_END", "JOIN", "QUIT"}

\* The variables keep their types; the buffers hold only what the code writes.
TypeOK ==
  /\ pc \in {"idle", "start", "connect", "failed", "connected", "close"}
  /\ after \in BOOLEAN /\ alive \in BOOLEAN /\ threw \in BOOLEAN /\ joins \in 1..MaxJoins
  /\ tcp \in [connecting: BOOLEAN, connected: BOOLEAN, managed: BOOLEAN, watching: BOOLEAN,
              timers: 0..MaxTimers, use_tls: BOOLEAN, tls: {"none", "hello", "active"},
              out: Seq(Messages), pre: Seq(Messages \ {"hello"})]
  /\ dns \in [resolving: BOOLEAN, resolved: BOOLEAN, addrs: 0..MaxAddrs,
              queries: SUBSET {"a4", "a6"}]
  /\ irc.answer \in {"none", "joined", "error", "closed", "no_port", "dropped"}
  /\ irc.caps \subseteq {"multi-prefix", "sasl"}
  /\ irc.sasl \in {"unneeded", "needed", "success", "failure"}

\* remove_socket_handler() (poller.cpp:67 throws for a socket that is not
\* managed) is only called for a managed socket, and between two events the
\* poller manages the socket exactly while the client is connecting on it or
\* connected.
PollerAgrees ==
  /\ ~threw
  /\ pc = "idle" /\ alive => (tcp.managed <=> (tcp.connecting \/ tcp.connected))

\* A connection_timeout event only exists while the client is connecting: a
\* late one would close a connection that was made (on_connection_timeout()
\* does not look).
TimeoutOnlyWhileConnecting ==
  pc = "idle" /\ tcp.timers > 0 => tcp.connecting /\ ~tcp.connected

\* Data waiting in out_buf of a connected client is watched for by the poller:
\* nothing written is forgotten.
UnsentIsWatched ==
  pc = "idle" /\ tcp.connected /\ tcp.out # <<>> => tcp.watching

\* The socket, the poller and the timed events agree between two events.
SocketConsistent == PollerAgrees /\ TimeoutOnlyWhileConnecting /\ UnsentIsWatched

\* CAP END ends the negotiation once per connection, whatever the server
\* answers twice and whatever pre_buf kept of an earlier connection.
NegotiationEndsOnce == irc.ends <= 1

\* When a SASL password is configured, a client is welcomed only after the
\* authentication succeeded (doc/user.rst: "If the authentication fails, the
\* connection to the server is aborted").
WelcomedAuthenticated ==
  irc.welcomed /\ conf.password => irc.sasl = "success"

\* A join that waits for the connection is answered: the JOIN is sent, or the
\* user is told why not.
JoinConcludes == (irc.answer = "none") ~> (irc.answer # "none")
=============================================================================
