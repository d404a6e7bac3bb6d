-------------------------- MODULE ConnectionProofs --------------------------
(***************************************************************************)
(* Proofs about the connection, for any list of ports and any number of    *)
(* addresses, timers and joins.                                            *)
(*                                                                         *)
(* The socket, the poller and the timed events agree, when connect() does  *)
(* not succeed at once on a TLS port and the ad-hoc command is not used on *)
(* a client that is resolving.                                             *)
(*                                                                         *)
(* The capability negotiation ends once, and a client with a password is   *)
(* welcomed after it authenticated, whatever connections were lost before. *)
(***************************************************************************)
EXTENDS ConnectionInvariant, TLAPS

-----------------------------------------------------------------------------
(* The socket.                                                             *)

\* Buffers are empty at first and grow by concatenation.
LEMMA Buffers ==
  /\ <<>> \in Buffer
  /\ \A a, b \in Buffer : a \o b \in Buffer
  /\ \A a \in Buffer, m \in Messages : Append(a, m) \in Buffer
  /\ \A m \in Messages : <<m>> \in Buffer
<1>1. <<>> \in Buffer
  BY DEF Buffer
<1>2. ASSUME NEW a \in Buffer, NEW b \in Buffer PROVE a \o b \in Buffer
  BY DEF Buffer
<1>3. ASSUME NEW a \in Buffer, NEW m \in Messages PROVE Append(a, m) \in Buffer
  BY DEF Buffer
<1>4. ASSUME NEW m \in Messages PROVE <<m>> \in Buffer
  BY DEF Buffer
<1> QED BY <1>1, <1>2, <1>3, <1>4

\* The ports that are left after the first one.
LEMMA PortLists ==
  /\ <<>> \in PortList
  /\ \A l \in PortList : l # <<>> => Head(l) \in BOOLEAN /\ Tail(l) \in PortList
  BY DEF PortList

\* What is written when the connection is made.
LEMMA GreetingBuffer ==
  \A t \in {<<>>, <<"sasl">>} : <<"multi-prefix">> \o t \o <<"register">> \in Buffer
<1>1. <<>> \in Buffer /\ <<"sasl">> \in Buffer /\ <<"multi-prefix">> \in Buffer
      /\ <<"register">> \in Buffer
  BY Buffers DEF Messages
<1> QED BY <1>1, Buffers

\* What a new client starts from.
LEMMA FreshTypes == FreshTcp \in TcpType /\ NoResolution \in DnsType /\ FreshIrc \in IrcType
<1>1. FreshTcp \in TcpType
  BY Buffers DEF FreshTcp, TcpType
<1>2. NoResolution \in DnsType
  BY DEF NoResolution, DnsType
<1>3. FreshIrc \in IrcType
  BY ConnectionAssumptions DEF FreshIrc, IrcType, PortList
<1> QED BY <1>1, <1>2, <1>3

\* The initial state satisfies the invariant.
LEMMA ConnInit == Init => ConnInv
<1> SUFFICES ASSUME Init PROVE ConnInv
  OBVIOUS
<1>1. SockType
  BY FreshTypes, Zenon DEF Init, SockType
<1>2. SocketInv
  BY DEF Init, SocketInv, FreshTcp
<1>3. ChainInv
  BY DEF Init, ChainInv, FreshTcp, NoResolution
<1> QED BY <1>1, <1>2, <1>3 DEF ConnInv

\* The invariant says what is checked.
LEMMA ConnImplies == ConnInv => SocketConsistent
<1> SUFFICES ASSUME ConnInv PROVE SocketConsistent
  OBVIOUS
<1>1. PollerAgrees
  BY DEF ConnInv, SocketInv, PollerAgrees
<1>2. TimeoutOnlyWhileConnecting
  BY DEF ConnInv, SockType, SocketInv, TimeoutOnlyWhileConnecting
<1>3. UnsentIsWatched
  BY DEF ConnInv, SocketInv, UnsentIsWatched
<1> QED BY <1>1, <1>2, <1>3 DEF SocketConsistent

\* close(), when the resolver is not at work: remove_socket_handler() is called
\* for a managed socket only, and nothing is left of it.
LEMMA CloseKeeps ==
  ASSUME ConnInv, Close, ~dns.resolving
  PROVE  /\ ~threw' /\ threw' \in BOOLEAN
         /\ tcp' \in TcpType /\ dns' \in DnsType
         /\ ~tcp'.connecting /\ ~tcp'.connected /\ ~tcp'.managed /\ tcp'.timers = 0
         /\ tcp'.out = <<>> /\ ~dns'.resolving /\ ~dns'.resolved /\ dns'.queries = {}
<1>1. ~threw' /\ threw' \in BOOLEAN
  BY DEF Close, ConnInv, SockType, SocketInv, IsConnecting
<1>2. /\ tcp' \in TcpType /\ ~tcp'.connecting /\ ~tcp'.connected /\ ~tcp'.managed
      /\ tcp'.timers = 0 /\ tcp'.out = <<>>
  BY Buffers, Zenon DEF Close, Closed, ConnInv, SockType, TcpType
<1>3. dns' \in DnsType /\ ~dns'.resolving /\ ~dns'.resolved /\ dns'.queries = dns.queries
  BY Zenon DEF Close, ConnInv, SockType, DnsType
<1>4. dns.queries = {}
  BY DEF ConnInv, ChainInv
<1> QED BY <1>1, <1>2, <1>3, <1>4

\* A call chain that closed the socket is in order.
LEMMA ClosedIsFine ==
  ASSUME ConnInv, Close, ~dns.resolving, after' = FALSE, alive' \in BOOLEAN, irc' \in IrcType,
         pc' \in {"idle", "failed"}, ~alive' => pc' = "idle"
  PROVE  ConnInv'
<1>1. SockType'
  BY CloseKeeps, Zenon DEF SockType
<1>2. SocketInv'
  BY CloseKeeps DEF SocketInv
<1>3. ChainInv'
  BY CloseKeeps DEF ChainInv
<1> QED BY <1>1, <1>2, <1>3 DEF ConnInv

\* send_data() on a connected socket changes its buffers only, and has the
\* poller watch it.
LEMMA SendKeeps ==
  ASSUME ConnInv, tcp.connected, NEW ms \in Buffer, tcp' = SendData(tcp, ms),
         dns' = dns, irc' \in IrcType, after' = after, alive' = alive, threw' = threw,
         pc' = pc \/ (pc = "connected" /\ pc' = "idle")
  PROVE  ConnInv'
<1>1. /\ tcp' \in TcpType
      /\ tcp'.connecting = tcp.connecting /\ tcp'.connected = tcp.connected
      /\ tcp'.managed = tcp.managed /\ tcp'.timers = tcp.timers
      /\ tcp.watching => tcp'.watching
      /\ tcp'.out # <<>> => tcp'.watching
  BY Buffers, Zenon DEF ConnInv, SockType, TcpType, SocketInv, SendData
<1>2. SockType'
  BY <1>1 DEF ConnInv, SockType
<1>3. SocketInv'
  BY <1>1 DEF ConnInv, SockType, SocketInv
<1>4. ChainInv'
  BY <1>1 DEF ConnInv, SockType, SocketInv, ChainInv
<1> QED BY <1>2, <1>3, <1>4 DEF ConnInv

\* A step that leaves the socket, the resolver and the call chain alone.
LEMMA OthersKeep ==
  ASSUME ConnInv, UNCHANGED <<ctl, tcp, dns>>, irc' \in IrcType
  PROVE  ConnInv'
  BY DEF ConnInv, SockType, SocketInv, ChainInv, ctl

\* Every function of a call chain keeps the invariant.
LEMMA ChainKeeps ==
  ASSUME "at_once" \notin Faults, ConnInv, Chain
  PROVE  ConnInv'
<1>1. CASE Start
  <2>a. irc \in IrcType /\ irc.ports \in PortList
    BY DEF ConnInv, SockType, IrcType
  <2>1. irc' \in IrcType
    <3>1. \/ irc' = irc
          \/ irc' = [irc EXCEPT !.answer = "no_port"]
          \/ irc.ports # <<>> /\ irc' = [irc EXCEPT !.ports = Tail(irc.ports)]
      BY <1>1 DEF Start
    <3>2. irc.ports # <<>> => Tail(irc.ports) \in PortList
      BY <2>a, PortLists
    <3>3. [irc EXCEPT !.answer = "no_port"] \in IrcType
      BY <2>a DEF IrcType
    <3>4. ASSUME irc.ports # <<>> PROVE [irc EXCEPT !.ports = Tail(irc.ports)] \in IrcType
      BY <2>a, <3>2, <3>4, Zenon DEF IrcType
    <3> QED BY <2>a, <3>1, <3>3, <3>4, Zenon
  <2>2. CASE IsConnecting \/ tcp.connected
    BY <1>1, <2>1, <2>2 DEF Start, ConnInv, SockType, SocketInv, ChainInv, Return, IsConnecting
  <2>3. CASE ~IsConnecting /\ ~tcp.connected /\ irc.ports = <<>>
    BY <1>1, <2>1, <2>3 DEF Start, ConnInv, SockType, SocketInv, ChainInv, Return, IsConnecting
  <2>4. CASE ~IsConnecting /\ ~tcp.connected /\ irc.ports # <<>>
    <3>1. Head(irc.ports) \in BOOLEAN
      BY <2>a, <2>4, PortLists
    <3>2. /\ tcp' = [tcp EXCEPT !.use_tls = Head(irc.ports)] /\ pc' = "connect"
          /\ UNCHANGED <<after, alive, threw, dns>>
      BY <1>1, <2>4 DEF Start
    <3>3. tcp' \in TcpType
      BY <3>1, <3>2 DEF ConnInv, SockType, TcpType
    <3>4. /\ tcp'.connecting = tcp.connecting /\ tcp'.connected = tcp.connected
          /\ tcp'.managed = tcp.managed /\ tcp'.timers = tcp.timers
          /\ tcp'.watching = tcp.watching /\ tcp'.out = tcp.out
      BY <3>2 DEF ConnInv, SockType, TcpType
    <3>5. SockType' /\ SocketInv'
      BY <2>1, <3>2, <3>3, <3>4 DEF ConnInv, SockType, SocketInv
    <3>6. ChainInv'
      <4>1. alive /\ ~after /\ ~dns.resolving
        BY <1>1, <2>4 DEF Start, ConnInv, SockType, ChainInv, IsConnecting
      <4>2. dns.queries = {}
        BY <4>1 DEF ConnInv, ChainInv
      <4>3. ~tcp'.connected
        BY <2>4, <3>4
      <4>4. alive' /\ ~after' /\ ~dns'.resolving /\ dns'.queries = {} /\ pc' = "connect"
        BY <3>2, <4>1, <4>2
      <4> QED BY <4>3, <4>4 DEF ChainInv
    <3> QED BY <3>5, <3>6 DEF ConnInv
  <2> QED BY <1>1, <2>2, <2>3, <2>4 DEF Start
<1>2. CASE Resolve
  <2>1. dns' \in DnsType
    <3>1. CASE \E n \in 1..MaxAddrs :
                 dns' = [resolving |-> FALSE, resolved |-> TRUE, addrs |-> n, queries |-> {}]
      BY <3>1, ConnectionAssumptions DEF DnsType
    <3>2. CASE \E qs \in SUBSET {"a4", "a6"} :
                 dns' = [resolving |-> TRUE, resolved |-> FALSE, addrs |-> 0, queries |-> qs]
      BY <3>2 DEF DnsType
    <3> QED BY <1>2, <3>1, <3>2 DEF Resolve
  <2>2. SockType' /\ SocketInv'
    BY <1>2, <2>1 DEF Resolve, Return, ConnInv, SockType, SocketInv
  <2>3. ChainInv'
    BY <1>2 DEF Resolve, Return, ConnInv, SockType, SocketInv, ChainInv
  <2> QED BY <2>2, <2>3 DEF ConnInv
<1>3. CASE Unresolved
  <2>1. irc' \in IrcType
    BY <1>3, Zenon DEF Unresolved, ConnInv, SockType, IrcType
  <2>2. ~dns.resolving /\ after' = FALSE /\ alive' \in BOOLEAN /\ (~alive' => pc' = "idle")
    BY <1>3 DEF Unresolved, ConnInv, SockType, ChainInv
  <2> QED BY <1>3, <2>1, <2>2, ClosedIsFine, Zenon DEF Unresolved
<1>4. CASE AllFail
  <2>1. irc' \in IrcType
    BY <1>4 DEF AllFail, ConnInv, SockType
  <2>2. ~dns.resolving /\ after' = FALSE /\ alive' \in BOOLEAN /\ (~alive' => pc' = "idle")
    BY <1>4 DEF AllFail, Tries, ConnInv, SockType, ChainInv
  <2> QED BY <1>4, <2>1, <2>2, ClosedIsFine, Zenon DEF AllFail
<1>5. CASE InProgress
  <2>1. /\ tcp' \in TcpType /\ tcp'.connecting /\ tcp'.managed /\ tcp'.watching
        /\ tcp'.connected = tcp.connected /\ tcp'.out = tcp.out
    <3>1. tcp \in TcpType /\ tcp.timers + 1 \in Nat
      BY DEF ConnInv, SockType, TcpType
    <3>2. tcp' = [tcp EXCEPT !.connecting = TRUE, !.managed = TRUE, !.watching = TRUE,
                             !.timers = tcp.timers + 1]
      BY <1>5 DEF InProgress
    <3>3. tcp' \in TcpType
      BY <3>1, <3>2, Zenon DEF TcpType
    <3> QED BY <3>1, <3>2, <3>3 DEF TcpType
  <2>2. SockType' /\ SocketInv'
    BY <1>5, <2>1 DEF InProgress, Tries, Return, ConnInv, SockType, SocketInv, ChainInv
  <2>3. ChainInv'
    BY <1>5, <2>1 DEF InProgress, Tries, Return, ConnInv, SockType, ChainInv
  <2> QED BY <2>2, <2>3 DEF ConnInv
<1>6. CASE Established
  <2>1. /\ tcp' \in TcpType /\ ~tcp'.connecting /\ tcp'.managed /\ tcp'.connected
        /\ tcp'.watching = tcp.watching /\ tcp'.timers = 0
        /\ tcp.use_tls \/ tcp'.out = tcp.out
    <3>1. Append(tcp.out, "hello") \in Buffer
      BY Buffers DEF ConnInv, SockType, TcpType, Messages
    <3> QED BY <1>6, <3>1, Zenon DEF Established, ConnInv, SockType, TcpType
  <2>2. tcp'.out # <<>> => tcp'.watching
    BY <1>6, <2>1 DEF Established, Tries, ConnInv, SockType, SocketInv, ChainInv
  <2>3. SockType' /\ SocketInv'
    BY <1>6, <2>1, <2>2 DEF Established, ConnInv, SockType, SocketInv
  <2>4. ChainInv'
    BY <1>6, <2>1 DEF Established, Tries, ConnInv, SockType, ChainInv
  <2> QED BY <2>3, <2>4 DEF ConnInv
<1>7. CASE TlsStartFails
  BY <1>7 DEF TlsStartFails, Tries, ConnInv, SockType, SocketInv, ChainInv
<1>8. CASE CloseAfter
  <2>1. irc' \in IrcType
    BY <1>8 DEF CloseAfter, ConnInv, SockType, IrcType
  <2>2. ~dns.resolving /\ after' = FALSE /\ alive' \in BOOLEAN
    BY <1>8 DEF CloseAfter, ConnInv, SockType, ChainInv
  <2> QED BY <1>8, <2>1, <2>2, ClosedIsFine, Zenon DEF CloseAfter
<1>9. CASE OnConnectionFailed
  <2>1. irc' \in IrcType
    <3>1. <<>> \in PortList
      BY DEF PortList
    <3>2. irc \in IrcType
      BY DEF ConnInv, SockType
    <3>3. TellError(irc) \in IrcType
      BY <3>2 DEF TellError, IrcType
    <3>4. [TellError(irc) EXCEPT !.ports = <<>>] \in IrcType
      BY <3>1, <3>3 DEF IrcType
    <3>5. irc' = irc \/ irc' = [TellError(irc) EXCEPT !.ports = <<>>]
      BY <1>9 DEF OnConnectionFailed
    <3> QED BY <3>2, <3>4, <3>5
  <2>2. SockType' /\ SocketInv'
    BY <1>9, <2>1 DEF OnConnectionFailed, Return, ConnInv, SockType, SocketInv
  <2>3. ChainInv'
    BY <1>9 DEF OnConnectionFailed, Return, ConnInv, SockType, ChainInv
  <2> QED BY <2>2, <2>3 DEF ConnInv
<1>10. CASE OnConnected
  <2>1. irc' \in IrcType
    <3>1. irc \in IrcType /\ Wanted \subseteq {"multi-prefix", "sasl"}
      BY DEF ConnInv, SockType, Wanted
    <3>2. CASE irc' = [irc EXCEPT !.lookup = TRUE, !.ends = 0]
      BY <3>1, <3>2, Zenon DEF IrcType
    <3>3. CASE irc' = [irc EXCEPT !.caps = irc.caps \cup Wanted, !.ends = 0,
                                  !.sasl = IF conf.password THEN "needed" ELSE irc.sasl]
      BY <3>1, <3>3, Zenon DEF IrcType
    <3> QED BY <1>10, <3>2, <3>3 DEF OnConnected
  <2>2. tcp.connected /\ pc = "connected" /\ pc' = "idle" /\ UNCHANGED <<after, alive, threw, dns>>
    BY <1>10 DEF OnConnected, Return, ConnInv, SockType, ChainInv
  <2>3. CASE tcp' = tcp
    BY <2>1, <2>2, <2>3 DEF ConnInv, SockType, SocketInv, ChainInv
  <2>4. CASE \E ms \in Buffer : tcp' = SendData(tcp, ms)
    BY <2>1, <2>2, <2>4, SendKeeps
  <2>5. tcp' = tcp \/ \E ms \in Buffer : tcp' = SendData(tcp, ms)
    <3>1. (IF "sasl" \in irc'.caps THEN <<"sasl">> ELSE <<>>) \in {<<>>, <<"sasl">>}
      OBVIOUS
    <3>2. <<"multi-prefix">> \o (IF "sasl" \in irc'.caps THEN <<"sasl">> ELSE <<>>)
            \o <<"register">> \in Buffer
      BY <3>1, GreetingBuffer, Zenon
    <3> QED BY <1>10, <3>2 DEF OnConnected
  <2> QED BY <2>3, <2>4, <2>5
<1> QED BY <1>1, <1>2, <1>3, <1>4, <1>5, <1>6, <1>7, <1>8, <1>9, <1>10 DEF Chain

\* The one-message buffers, and the two that on_cap() may write.
LEMMA Writes ==
  /\ \A m \in {"credentials", "CAP_END", "QUIT", "JOIN", "PLAIN"} : <<m>> \in Buffer
  /\ \A a \in {<<>>, <<"PLAIN">>}, b \in {<<>>, <<"CAP_END">>} : a \o b \in Buffer
<1>1. \A m \in {"credentials", "CAP_END", "QUIT", "JOIN", "PLAIN"} : <<m>> \in Buffer
  BY Buffers DEF Messages
<1>2. <<"PLAIN">> \in Buffer /\ <<"CAP_END">> \in Buffer
  BY <1>1
<1> QED BY <1>1, <1>2, Buffers

\* cap_end() counts.
LEMMA EndTypes == \A i \in IrcType : EndNow(i) \in IrcType
<1> TAKE i \in IrcType
<1>0. i.ends \in Nat
  BY DEF IrcType
<1>1. i.ends + 1 \in Nat
  BY <1>0
<1>2. EndNow(i) = [i EXCEPT !.ends = i.ends + 1]
  BY DEF EndNow
<1> QED BY <1>1, <1>2 DEF IrcType

\* Every line that is received keeps the invariant.
LEMMA ReceiveKeeps ==
  ASSUME ConnInv, Receive
  PROVE  ConnInv'
<1>0. irc \in IrcType /\ tcp \in TcpType
  BY DEF ConnInv, SockType
<1>1. CASE OnEnd
  <2>1. irc' \in IrcType
    BY <1>0, <1>1 DEF OnEnd, OnClose, IrcType
  <2>2. ~dns.resolving /\ after' = FALSE /\ alive' \in BOOLEAN /\ pc' = "idle"
    BY <1>1 DEF OnEnd, OnClose, Receives, Idle, ConnInv, SockType, ChainInv
  <2> QED BY <1>1, <2>1, <2>2, ClosedIsFine, Zenon DEF OnEnd, OnClose
<1>2. CASE OnTlsActivated
  <2>1. /\ tcp' = SendData([tcp EXCEPT !.tls = "active", !.pre = <<>>], tcp.pre)
        /\ UNCHANGED <<ctl, dns, irc>> /\ tcp.connected
    BY <1>2 DEF OnTlsActivated, Receives
  <2>2. tcp' = [tcp EXCEPT !.tls = "active", !.pre = <<>>, !.out = tcp.out \o tcp.pre,
                           !.watching = TRUE]
    BY <1>0, <2>1, Zenon DEF SendData, TcpType
  <2>3. tcp' \in TcpType
    BY <1>0, <2>2, Buffers, Zenon DEF TcpType
  <2>4. /\ tcp'.connecting = tcp.connecting /\ tcp'.connected = tcp.connected
        /\ tcp'.managed = tcp.managed /\ tcp'.timers = tcp.timers /\ tcp'.watching
    BY <1>0, <2>2 DEF TcpType
  <2>5. SockType' /\ SocketInv' /\ ChainInv'
    BY <2>1, <2>3, <2>4, Zenon DEF ConnInv, SockType, SocketInv, ChainInv, ctl
  <2> QED BY <2>5 DEF ConnInv
<1>3. CASE OnCap
  <2> PICK cap \in {"multi-prefix", "sasl"}, sub \in {"ACK", "NAK"} : OnCap!(cap, sub)
    BY <1>3, Zenon DEF OnCap
  <2> DEFINE i == [irc EXCEPT !.caps = irc.caps \ {cap}]
             ends == cap \in irc.caps /\ i.caps = {} /\ MayEnd(i)
             auth == IF cap \in irc.caps /\ cap = "sasl" /\ sub = "ACK" THEN <<"PLAIN">> ELSE <<>>
             end == IF ends THEN <<"CAP_END">> ELSE <<>>
  <2>1. i \in IrcType
    BY <1>0 DEF IrcType
  <2>2. EndNow(i) \in IrcType
    BY <2>1, EndTypes
  <2>3. irc' \in IrcType
    BY <2>1, <2>2
  <2>4. auth \o end \in Buffer
    BY Writes, Zenon
  <2>5. tcp' = SendData(tcp, auth \o end) /\ tcp.connected /\ UNCHANGED <<ctl, dns>>
    BY DEF Receives
  <2> QED BY <2>3, <2>4, <2>5, SendKeeps, Zenon DEF ctl
<1>4. CASE OnAuthenticate
  <2>1. CASE tcp' = tcp
    BY <1>0, <1>4, <2>1, OthersKeep DEF OnAuthenticate
  <2>2. CASE tcp' = SendData(tcp, <<"credentials">>)
    BY <1>0, <1>4, <2>2, Writes, SendKeeps DEF OnAuthenticate, Receives, ctl
  <2> QED BY <1>4, <2>1, <2>2 DEF OnAuthenticate
<1>5. CASE OnSaslSuccess
  <2>1. [irc EXCEPT !.sasl = "success"] \in IrcType
    BY <1>0 DEF IrcType
  <2>2. irc' \in IrcType
    BY <1>5, <2>1, EndTypes DEF OnSaslSuccess
  <2> QED BY <1>5, <2>2, Writes, SendKeeps DEF OnSaslSuccess, Receives, ctl
<1>6. CASE OnSaslFailure
  <2>1. [irc EXCEPT !.sasl = "failure"] \in IrcType
    BY <1>0 DEF IrcType
  <2>2. irc' \in IrcType
    BY <1>6, <2>1, Zenon DEF OnSaslFailure, TellError, IrcType
  <2> QED BY <1>6, <2>2, Writes, SendKeeps DEF OnSaslFailure, Receives, ctl
<1>7. CASE OnNicknameConflict
  BY <1>0, <1>7, OthersKeep DEF OnNicknameConflict
<1>8. CASE OnWelcome
  <2>1. irc' \in IrcType
    BY <1>0, <1>8, Zenon DEF OnWelcome, IrcType
  <2>2. CASE tcp' = tcp
    BY <1>8, <2>1, <2>2, OthersKeep DEF OnWelcome
  <2>3. CASE tcp' = SendData(tcp, <<"JOIN">>)
    BY <1>8, <2>1, <2>3, Writes, SendKeeps DEF OnWelcome, Receives, ctl
  <2> QED BY <1>8, <2>2, <2>3 DEF OnWelcome
<1> QED BY <1>1, <1>2, <1>3, <1>4, <1>5, <1>6, <1>7, <1>8 DEF Receive

\* Every step keeps the invariant.
LEMMA ConnStep ==
  ASSUME "at_once" \notin Faults, "disconnect" \notin Faults, ConnInv, [Next]_vars
  PROVE  ConnInv'
<1>0. irc \in IrcType /\ tcp \in TcpType /\ dns \in DnsType
  BY DEF ConnInv, SockType
<1>1. CASE Chain
  BY <1>1, ChainKeeps
<1>2. CASE DnsAnswer
  <2> PICK q \in dns.queries, n \in 0..1 : DnsAnswer!2!(q, n)
    BY <1>2, Zenon DEF DnsAnswer
  <2> DEFINE left == dns.queries \ {q}
  <2>1. dns' = [dns EXCEPT !.queries = left,
                           !.addrs = IF dns.addrs + n > MaxAddrs THEN dns.addrs ELSE dns.addrs + n,
                           !.resolved = (left = {}), !.resolving = (left # {})]
    BY Zenon
  <2>2. dns' \in DnsType
    <3>1. \A a \in {dns.addrs, dns.addrs + n} : a \in Nat
      BY <1>0 DEF DnsType
    <3>2. \E a \in Nat, l \in SUBSET {"a4", "a6"}, u, v \in BOOLEAN :
            dns' = [dns EXCEPT !.queries = l, !.addrs = a, !.resolved = u, !.resolving = v]
      <4>1. left \in SUBSET {"a4", "a6"} /\ (left = {}) \in BOOLEAN /\ (left # {}) \in BOOLEAN
        BY <1>0 DEF DnsType
      <4> HIDE DEF left
      <4> QED BY <2>1, <3>1, <4>1, Zenon
    <3> QED BY <1>0, <3>2, Zenon DEF DnsType
  <2>3. dns'.queries = left /\ dns'.resolved = (left = {}) /\ dns'.resolving = (left # {})
    BY <1>0, <2>1 DEF DnsType
  <2>4. dns.resolving /\ pc = "idle" /\ alive /\ UNCHANGED <<after, alive, threw, tcp, irc>>
    BY <1>2 DEF DnsAnswer, Idle, ConnInv, ChainInv
  <2>5. pc' = IF left = {} THEN "connect" ELSE "idle"
    OBVIOUS
  <2>6. SockType' /\ SocketInv'
    BY <2>2, <2>4, <2>5 DEF ConnInv, SockType, SocketInv
  <2>7. ChainInv'
    BY <2>3, <2>4, <2>5, Zenon DEF ConnInv, ChainInv
  <2> QED BY <2>6, <2>7, Zenon DEF ConnInv
<1>3. CASE Timeout
  <2>1. ~dns.resolving /\ after' = FALSE /\ alive' \in BOOLEAN /\ alive'
    BY <1>3 DEF Timeout, Idle, ConnInv, SockType, SocketInv, ChainInv
  <2> QED BY <1>0, <1>3, <2>1, ClosedIsFine, Zenon DEF Timeout
<1>4. CASE PollConnect
  <2>1. ~dns.resolving
    BY <1>4 DEF PollConnect, ConnInv, SocketInv, ChainInv
  <2> QED BY <1>4, <2>1 DEF PollConnect, Idle, ConnInv, SockType, SocketInv, ChainInv
<1>5. CASE OnSend
  <2>1. tcp' = [tcp EXCEPT !.out = <<>>, !.watching = FALSE]
    BY <1>5 DEF OnSend
  <2>2. tcp' \in TcpType
    BY <1>0, <2>1, Buffers, Zenon DEF TcpType
  <2>3. /\ tcp'.connecting = tcp.connecting /\ tcp'.connected = tcp.connected
        /\ tcp'.managed = tcp.managed /\ tcp'.timers = tcp.timers /\ tcp'.out = <<>>
    BY <1>0, <2>1 DEF TcpType
  <2>4. SockType' /\ SocketInv' /\ ChainInv'
    BY <1>5, <2>2, <2>3 DEF OnSend, ConnInv, SockType, SocketInv, ChainInv, ctl
  <2> QED BY <2>4 DEF ConnInv
<1>6. CASE SendFails
  <2>1. irc' \in IrcType
    BY <1>0, <1>6 DEF SendFails, OnClose, IrcType
  <2>2. ~dns.resolving /\ after' = FALSE /\ alive' \in BOOLEAN /\ pc' = "idle"
    BY <1>6 DEF SendFails, OnClose, Idle, ConnInv, SockType, ChainInv
  <2> QED BY <1>6, <2>1, <2>2, ClosedIsFine, Zenon DEF SendFails, OnClose
<1>7. CASE Receive
  BY <1>7, ReceiveKeeps
<1>8. CASE LookupAnswer
  <2>1. irc' \in IrcType
    BY <1>0, <1>8, ZenonT(30) DEF LookupAnswer, IrcType
  <2>2. CASE tcp' = tcp /\ pc' = IF tcp.connected THEN "connected" ELSE "idle"
    BY <1>8, <2>1, <2>2 DEF LookupAnswer, Idle, ConnInv, SockType, SocketInv, ChainInv
  <2>3. CASE tcp' = tcp /\ pc' = pc
    BY <1>8, <2>1, <2>3 DEF LookupAnswer, Idle, ConnInv, SockType, SocketInv, ChainInv
  <2>4. CASE tcp.connected /\ tcp' = SendData(tcp, <<"QUIT">>) /\ pc' = pc
    BY <1>8, <2>1, <2>4, Writes, SendKeeps DEF LookupAnswer
  <2> QED BY <1>8, <2>2, <2>3, <2>4 DEF LookupAnswer
<1>9. CASE Rejoin
  <2>1. irc' \in IrcType
    BY <1>0, <1>9 DEF Rejoin, IrcType
  <2> QED BY <1>9, <2>1 DEF Rejoin, Idle, ConnInv, SockType, SocketInv, ChainInv
<1>10. CASE Clean
  BY <1>10, Zenon DEF Clean, Idle, ConnInv, SockType, SocketInv, ChainInv
<1>11. CASE DisconnectUserFromServer
  <2>1. irc' \in IrcType
    BY <1>0, <1>11 DEF DisconnectUserFromServer, IrcType
  <2>2. ~dns.resolving /\ after' = FALSE /\ alive' \in BOOLEAN /\ pc' = "idle"
    BY <1>11, Zenon DEF DisconnectUserFromServer, Idle, ConnInv, SockType, ChainInv
  <2> QED BY <1>11, <2>1, <2>2, ClosedIsFine, Zenon DEF DisconnectUserFromServer
<1>12. CASE NewClient
  <2>1. FreshTcp \in TcpType /\ NoResolution \in DnsType /\ FreshIrc \in IrcType
    BY FreshTypes
  <2>2. ~after /\ ~threw
    BY <1>12 DEF NewClient, ConnInv, SockType, SocketInv, ChainInv
  <2>3. SockType'
    <3>1. tcp' \in TcpType /\ dns' \in DnsType /\ irc' \in IrcType
      BY <1>12, <2>1 DEF NewClient
    <3> QED BY <1>12, <2>2, <3>1 DEF NewClient, ConnInv, SockType
  <2>4. SocketInv'
    BY <1>12, <2>2 DEF NewClient, SocketInv, FreshTcp
  <2>5. ChainInv'
    BY <1>12, <2>2 DEF NewClient, ChainInv, FreshTcp, NoResolution
  <2> QED BY <2>3, <2>4, <2>5 DEF ConnInv
<1>13. CASE ServerReads \/ ServerWelcomes \/ ServerCloses
  BY <1>0, <1>13, OthersKeep DEF ServerReads, ServerWelcomes, ServerCloses
<1>14. CASE UNCHANGED vars
  BY <1>0, <1>14, OthersKeep DEF vars, ctl
<1> QED BY <1>1, <1>2, <1>3, <1>4, <1>5, <1>6, <1>7, <1>8, <1>9, <1>10, <1>11, <1>12, <1>13,
           <1>14 DEF Next

\* The socket, the poller and the timed events agree between two events
\* (tcp_client_socket_handler.cpp, tcp_socket_handler.cpp), for every list of ports,
\* when connect() does not succeed at once on a TLS port and the ad-hoc command
\* is not used on a client that is resolving.
THEOREM SocketAgrees ==
  ASSUME "at_once" \notin Faults, "disconnect" \notin Faults
  PROVE  Spec => []SocketConsistent
<1>1. Init => ConnInv
  BY ConnInit
<1>2. ConnInv /\ [Next]_vars => ConnInv'
  BY ConnStep
<1>3. ConnInv => SocketConsistent
  BY ConnImplies
<1> QED BY <1>1, <1>2, <1>3, PTL DEF Spec

-----------------------------------------------------------------------------
(* The negotiation.                                                        *)

\* Three sequences after each other.
LEMMA Assoc == ASSUME NEW M, NEW a \in Seq(M), NEW b \in Seq(M), NEW c \in Seq(M)
  PROVE (a \o b) \o c = a \o (b \o c)
  OBVIOUS

\* One buffer after another.
LEMMA ConcatIs ==
  ASSUME NEW M, NEW a \in Seq(M), NEW b \in Seq(M)
  PROVE  /\ a \o b \in Seq(M) /\ Len(a) \in Nat /\ Len(b) \in Nat /\ Len(a \o b) = Len(a) + Len(b)
         /\ \A k \in 1..Len(a) : (a \o b)[k] = a[k]
         /\ \A k \in 1..Len(b) : (a \o b)[Len(a) + k] = b[k]
         /\ \A k \in 1..Len(a \o b) : k \in 1..Len(a) \/ (k - Len(a) \in 1..Len(b) /\ (a \o b)[k] = b[k - Len(a)])
  OBVIOUS

\* A buffer without its first element.
LEMMA TailIs ==
  ASSUME NEW M, NEW a \in Seq(M), a # <<>>
  PROVE  /\ Tail(a) \in Seq(M) /\ Len(a) \in Nat \ {0} /\ Len(Tail(a)) = Len(a) - 1 /\ Head(a) = a[1] /\ Head(a) \in M
         /\ \A k \in 1..Len(Tail(a)) : Tail(a)[k] = a[k + 1]
  OBVIOUS

\* What one of two buffers holds.
LEMMA HasConcat ==
  ASSUME NEW M, NEW a \in Seq(M), NEW b \in Seq(M), NEW T
  PROVE  Has(a \o b, T) <=> Has(a, T) \/ Has(b, T)
<1>1. ASSUME NEW c, c = a \o b PROVE Has(c, T) <=> Has(a, T) \/ Has(b, T)
  <2>1. /\ \A k \in 1..Len(a) : c[k] = a[k] /\ k \in 1..Len(c)
        /\ \A k \in 1..Len(b) : c[Len(a) + k] = b[k] /\ Len(a) + k \in 1..Len(c)
        /\ \A k \in 1..Len(c) : k \in 1..Len(a) \/ (k - Len(a) \in 1..Len(b) /\ c[k] = b[k - Len(a)])
    BY <1>1, ConcatIs
  <2> QED BY ONLY <2>1, Zenon DEF Has
<1> QED BY <1>1, Zenon

\* The same for the buffers of the socket.
LEMMA BufferHas ==
  ASSUME NEW a \in Buffer, NEW b \in Buffer, NEW T
  PROVE  Has(a \o b, T) <=> Has(a, T) \/ Has(b, T)
  BY HasConcat, Zenon DEF Buffer

\* What a buffer holds is its first element or follows it.
LEMMA HasTail ==
  ASSUME NEW M, NEW a \in Seq(M), a # <<>>, NEW T
  PROVE  Has(a, T) <=> Head(a) \in T \/ Has(Tail(a), T)
<1>1. ASSUME NEW t, t = Tail(a) PROVE Has(a, T) <=> a[1] \in T \/ Has(t, T)
  <2>1. /\ 1 \in 1..Len(a)
        /\ \A k \in 1..Len(a) : k = 1 \/ (k - 1 \in 1..Len(t) /\ a[k] = t[k - 1])
        /\ \A k \in 1..Len(t) : k + 1 \in 1..Len(a) /\ t[k] = a[k + 1]
    BY <1>1, TailIs
  <2> QED BY ONLY <2>1, Zenon DEF Has
<1> QED BY <1>1, TailIs, Zenon

\* A buffer of one element.
LEMMA HasOne ==
  ASSUME NEW T, NEW m
  PROVE  /\ Has(<<m>>, T) <=> m \in T
         /\ One(<<m>>, T) /\ ~Has(<<>>, T) /\ One(<<>>, T)
<1>1. 1..Len(<<m>>) = {1} /\ <<m>>[1] = m /\ 1..Len(<<>>) = {}
  OBVIOUS
<1> QED BY <1>1 DEF Has, One

\* At most one of a kind, in one of two buffers.
LEMMA OneConcat ==
  ASSUME NEW M, NEW a \in Seq(M), NEW b \in Seq(M), NEW T,
         One(a, T), One(b, T), ~Has(a, T) \/ ~Has(b, T)
  PROVE  One(a \o b, T)
<1>1. ASSUME NEW c, c = a \o b, NEW j \in 1..Len(c), NEW k \in 1..Len(c), c[j] \in T, c[k] \in T
      PROVE  j = k
  <2>1. \A n \in 1..Len(c) : \/ n \in 1..Len(a) /\ c[n] = a[n]
                             \/ n - Len(a) \in 1..Len(b) /\ c[n] = b[n - Len(a)]
    BY <1>1, ConcatIs
  <2>2. CASE Has(a, T)
    BY <1>1, <2>1, <2>2 DEF Has, One
  <2>3. CASE ~Has(a, T)
    <3>1. /\ j - Len(a) \in 1..Len(b) /\ b[j - Len(a)] \in T
          /\ k - Len(a) \in 1..Len(b) /\ b[k - Len(a)] \in T
      BY <1>1, <2>1, <2>3 DEF Has
    <3>2. j - Len(a) = k - Len(a)
      BY <3>1 DEF One
    <3> QED BY <1>1, <3>2
  <2> QED BY <2>2, <2>3
<1> QED BY <1>1, Zenon DEF One

\* At most one of a kind, and it was the first.
LEMMA OneTail ==
  ASSUME NEW M, NEW a \in Seq(M), a # <<>>, NEW T, One(a, T)
  PROVE  One(Tail(a), T) /\ (Head(a) \in T => ~Has(Tail(a), T))
<1>1. ASSUME NEW t, t = Tail(a) PROVE One(t, T) /\ (a[1] \in T => ~Has(t, T))
  <2>1. /\ 1 \in 1..Len(a)
        /\ \A k \in 1..Len(t) : k + 1 \in 1..Len(a) /\ t[k] = a[k + 1] /\ k \in Nat /\ k + 1 # 1
    BY <1>1, TailIs
  <2>2. ASSUME NEW j \in 1..Len(t), NEW k \in 1..Len(t), t[j] \in T, t[k] \in T PROVE j = k
    <3>1. j + 1 = k + 1
      BY <2>1, <2>2 DEF One
    <3> QED BY <2>1, <3>1
  <2>3. ASSUME a[1] \in T, NEW k \in 1..Len(t), t[k] \in T PROVE FALSE
    BY <2>1, <2>3 DEF One
  <2> QED BY <2>2, <2>3 DEF One, Has
<1> QED BY <1>1, TailIs, Zenon

\* The order of two kinds in one buffer after another.
LEMMA LedConcat ==
  ASSUME NEW M, NEW a \in Seq(M), NEW b \in Seq(M), NEW A, NEW B,
         Led(a, A, B), Led(b, A, B) \/ Has(a, B)
  PROVE  Led(a \o b, A, B)
<1>1. ASSUME NEW c, c = a \o b, NEW k \in 1..Len(c), c[k] \in A
      PROVE  \E j \in 1..(k - 1) : c[j] \in B
  <2>1. /\ Len(a) \in Nat /\ Len(b) \in Nat /\ Len(c) = Len(a) + Len(b)
        /\ \A n \in 1..Len(a) : c[n] = a[n]
        /\ \A n \in 1..Len(b) : c[Len(a) + n] = b[n]
    BY <1>1, ConcatIs
  <2>2. CASE k \in 1..Len(a)
    BY <1>1, <2>1, <2>2 DEF Led
  <2>3. CASE k \notin 1..Len(a) /\ Has(a, B)
    <3>1. PICK j \in 1..Len(a) : a[j] \in B
      BY <2>3 DEF Has
    <3>2. j \in 1..(k - 1) /\ c[j] = a[j]
      BY <1>1, <2>1, <2>3
    <3> QED BY <3>1, <3>2
  <2>4. CASE k \notin 1..Len(a) /\ Led(b, A, B)
    <3>1. k - Len(a) \in 1..Len(b) /\ c[k] = b[k - Len(a)]
      BY <1>1, <2>1, <2>4
    <3>2. PICK j \in 1..(k - Len(a) - 1) : b[j] \in B
      BY <1>1, <2>4, <3>1, Zenon DEF Led
    <3>3. Len(a) + j \in 1..(k - 1) /\ c[Len(a) + j] = b[j]
      BY <1>1, <2>1, <3>1, <3>2
    <3> QED BY <3>2, <3>3
  <2> QED BY <2>2, <2>3, <2>4
<1> QED BY <1>1, Zenon DEF Led

\* The order of two kinds in what follows the first element.
LEMMA LedTail ==
  ASSUME NEW M, NEW a \in Seq(M), a # <<>>, NEW A, NEW B, Led(a, A, B)
  PROVE  /\ Head(a) \notin A
         /\ Head(a) \notin B => Led(Tail(a), A, B)
<1>0. 1 \in 1..Len(a) /\ Head(a) = a[1] /\ 1..(1 - 1) = {}
  BY TailIs
<1>1. Head(a) \notin A
  BY <1>0 DEF Led
<1>2. ASSUME a[1] \notin B, NEW t, t = Tail(a), NEW k \in 1..Len(t), t[k] \in A
      PROVE  \E j \in 1..(k - 1) : t[j] \in B
  <2>1. /\ Len(t) \in Nat /\ Len(a) = Len(t) + 1
        /\ \A n \in 1..Len(t) : t[n] = a[n + 1]
    BY <1>2, TailIs
  <2>2. PICK j \in 1..k : a[j] \in B
    BY <1>2, <2>1 DEF Led
  <2>3. j - 1 \in 1..(k - 1) /\ t[j - 1] = a[j]
    BY <1>2, <2>1, <2>2
  <2> QED BY <2>2, <2>3
<1> QED BY <1>0, <1>1, <1>2, Zenon DEF Led

\* Nothing to be led.
LEMMA LedNone ==
  ASSUME NEW s, NEW A, NEW B, ~Has(s, A)
  PROVE  Led(s, A, B)
  BY DEF Led, Has

\* A line that is not a step of the authentication, nor a request for sasl,
\* is written.
LEMMA TalkGrows ==
  ASSUME NEW p \in BOOLEAN, NEW kind, NEW s \in Buffer, NEW r \in Replied, NEW caps, NEW sasl, NEW ends,
         Talk(p, kind, s, r, caps, sasl, ends),
         NEW m \in Messages \ (Steps \cup {"sasl"})
  PROVE  Talk(p, kind, s \o <<m>>, r, caps, sasl, ends)
<1> DEFINE t == s \o <<m>>
<1>0. <<m>> \in Buffer
  BY DEF Buffer
<1>1. \A T : Has(t, T) <=> Has(s, T) \/ m \in T
  BY <1>0, HasConcat, HasOne, Zenon DEF Buffer
<1>2. One(s, Steps) => One(t, Steps)
  BY <1>0, OneConcat, HasOne, Zenon DEF Buffer
<1>3. Led(s, {"sasl"}, {"multi-prefix"}) => Led(t, {"sasl"}, {"multi-prefix"})
  <2>1. ~Has(<<m>>, {"sasl"})
    BY HasOne
  <2>2. Led(<<m>>, {"sasl"}, {"multi-prefix"})
    BY <2>1, LedNone
  <2> QED BY <1>0, <2>2, LedConcat, Zenon DEF Buffer
<1> HIDE DEF t
<1>4. (None(s, r) => None(t, r)) /\ (~Has(s, {"sasl"}) => ~Has(t, {"sasl"}))
  BY <1>1 DEF None
<1>5. Once(s, r) => Once(t, r)
  BY <1>1, <1>2 DEF Once
<1>6. Ordered(s, r) => Ordered(t, r)
  BY <1>3 DEF Ordered
<1>7. Talk(p, kind, t, r, caps, sasl, ends)
  BY <1>4, <1>5, <1>6 DEF Talk
<1> QED BY <1>7 DEF t

\* A line of the server is taken that is not the answer that is waited for first.
LEMMA TalkTakes ==
  ASSUME NEW p \in BOOLEAN, NEW kind, NEW s \in Buffer, NEW r \in Replied, NEW caps, NEW sasl, NEW ends,
         Talk(p, kind, s, r, caps, sasl, ends), r # <<>>,
         Head(r) \notin About("multi-prefix") \/ "multi-prefix" \notin caps
  PROVE  Talk(p, kind, s, Tail(r), caps, sasl, ends)
<1> DEFINE t == Tail(r)
<1>1. \A T : Has(r, T) <=> Head(r) \in T \/ Has(t, T)
  BY HasTail DEF Replied
<1>2. One(r, Answers) => One(t, Answers)
  BY OneTail DEF Replied
<1>3. Head(r) \notin About("multi-prefix") /\ Led(r, About("sasl"), About("multi-prefix"))
        => Led(t, About("sasl"), About("multi-prefix"))
  BY LedTail DEF Replied
<1> HIDE DEF t
<1>4. /\ None(s, r) => None(s, t)
      /\ ~Has(r, About("sasl")) => ~Has(t, About("sasl"))
      /\ ~Has(r, About("multi-prefix")) => ~Has(t, About("multi-prefix"))
  BY <1>1 DEF None
<1>5. Once(s, r) => Once(s, t)
  BY <1>1, <1>2 DEF Once
<1>6. Ordered(s, r) /\ Head(r) \notin About("multi-prefix") => Ordered(s, t)
  BY <1>1, <1>3 DEF Ordered
<1>7. Talk(p, kind, s, t, caps, sasl, ends)
  BY <1>4, <1>5, <1>6 DEF Talk
<1> QED BY <1>7 DEF t

\* The server reads the first line and answers it.
LEMMA TalkReads ==
  ASSUME NEW p \in BOOLEAN, NEW kind, NEW s \in Buffer, NEW r \in Replied, NEW caps, NEW sasl, NEW ends,
         Talk(p, kind, s, r, caps, sasl, ends), s # <<>>, NEW ms \in Replied,
         Has(ms, Answers) => Head(s) \in Steps, One(ms, Answers),
         Has(ms, About("multi-prefix")) <=> Head(s) = "multi-prefix" /\ kind # "nocap",
         Has(ms, About("sasl")) => Head(s) = "sasl" /\ kind # "nocap"
  PROVE  Talk(p, kind, Tail(s), r \o ms, caps, sasl, ends)
<1> DEFINE t == Tail(s)
           u == r \o ms
<1>1. \A T : Has(s, T) <=> Head(s) \in T \/ Has(t, T)
  BY HasTail DEF Buffer
<1>2. \A T : Has(u, T) <=> Has(r, T) \/ Has(ms, T)
  BY HasConcat DEF Replied
<1>3. One(s, Steps) => One(t, Steps) /\ (Head(s) \in Steps => ~Has(t, Steps))
  BY OneTail DEF Buffer
<1>4. One(r, Answers) /\ (~Has(r, Answers) \/ ~Has(ms, Answers)) => One(u, Answers)
  BY OneConcat DEF Replied
<1>5. Led(s, {"sasl"}, {"multi-prefix"}) =>
        Head(s) # "sasl" /\ (Head(s) # "multi-prefix" => Led(t, {"sasl"}, {"multi-prefix"}))
  BY LedTail DEF Buffer
<1>6. Led(r, About("sasl"), About("multi-prefix"))
        /\ (~Has(ms, About("sasl")) \/ Has(r, About("multi-prefix")))
        => Led(u, About("sasl"), About("multi-prefix"))
  BY LedConcat, LedNone DEF Replied
<1> HIDE DEF t, u
<1>7. Has(s, Steps) <=> Head(s) \in Steps \/ Has(t, Steps)
  BY <1>1
<1>8. Has(u, Answers) <=> Has(r, Answers) \/ Has(ms, Answers)
  BY <1>2
<1>9. Has(u, About("multi-prefix")) <=> Has(r, About("multi-prefix")) \/ Has(ms, About("multi-prefix"))
  BY <1>2
<1>10. Has(u, About("sasl")) <=> Has(r, About("sasl")) \/ Has(ms, About("sasl"))
  BY <1>2
<1>11. Has(s, {"sasl"}) <=> Head(s) = "sasl" \/ Has(t, {"sasl"})
  BY <1>1
<1>12. None(s, r) => None(t, u)
  BY <1>7, <1>8 DEF None
<1>13. Once(s, r) => Once(t, u)
  BY <1>3, <1>4, <1>7, <1>8 DEF Once
<1>14. Ordered(s, r) /\ kind # "nocap" => Ordered(t, u)
  BY <1>5, <1>6, <1>9 DEF Ordered
<1>15. Talk(p, kind, t, u, caps, sasl, ends)
  BY <1>9, <1>10, <1>11, <1>12, <1>13, <1>14 DEF Talk
<1> QED BY <1>15 DEF t, u

\* on_authenticate(): the server accepted PLAIN and the credentials follow.
LEMMA TalkAuthenticate ==
  ASSUME NEW p \in BOOLEAN, NEW kind, NEW s \in Buffer, NEW r \in Replied, NEW caps, NEW sasl, NEW ends,
         Talk(p, kind, s, r, caps, sasl, ends), r # <<>>, Head(r) = <<"AUTHENTICATE">>
  PROVE  Talk(p, kind, s \o <<"credentials">>, Tail(r), caps, sasl, ends) /\ p /\ sasl = "needed" /\ "sasl" \notin caps
<1> DEFINE t == Tail(r)
           u == s \o <<"credentials">>
<1>a. <<"credentials">> \in Buffer
  BY Writes
<1>b. Head(r) \in Answers /\ Head(r) \notin About("multi-prefix")
  BY DEF Answers, About
<1>0. <<"credentials">> \in Buffer /\ Head(r) \in Answers /\ Head(r) \notin About("multi-prefix")
  BY <1>a, <1>b
<1>1. Talk(p, kind, s, t, caps, sasl, ends)
  BY <1>0, TalkTakes
<1>2. Has(r, Answers)
  BY <1>0, HasTail DEF Replied
<1>3. p /\ sasl = "needed" /\ "sasl" \notin caps /\ Once(s, r)
  BY <1>2 DEF Talk, None
<1>4. ~Has(s, Steps) /\ ~Has(t, Answers) /\ One(t, Answers)
  BY <1>0, <1>2, <1>3, OneTail DEF Once, Replied
<1>5. One(u, Steps)
  BY <1>0, <1>3, <1>4, OneConcat, HasOne, Zenon DEF Buffer, Once
<1>6. Led(s, {"sasl"}, {"multi-prefix"}) => Led(u, {"sasl"}, {"multi-prefix"})
  <2>1. ~Has(<<"credentials">>, {"sasl"})
    BY HasOne
  <2>2. Led(<<"credentials">>, {"sasl"}, {"multi-prefix"})
    BY <2>1, LedNone
  <2> QED BY <1>0, <2>2, LedConcat, Zenon DEF Buffer
<1> HIDE DEF t, u
<1>7. Once(u, t)
  BY <1>4, <1>5 DEF Once
<1>8. Ordered(s, t) => Ordered(u, t)
  BY <1>6 DEF Ordered
<1>9. Talk(p, kind, u, t, caps, sasl, ends)
  BY <1>1, <1>3, <1>7, <1>8 DEF Talk
<1> QED BY <1>3, <1>9, Zenon DEF t, u

\* The server decided: on_sasl_success() ends the negotiation, on_sasl_failure()
\* leaves.
LEMMA TalkDecided ==
  ASSUME NEW p \in BOOLEAN, NEW kind, NEW s \in Buffer, NEW r \in Replied, NEW caps, NEW sasl, NEW ends,
         Talk(p, kind, s, r, caps, sasl, ends), r # <<>>, Head(r) \in {<<"903">>, <<"904">>}
  PROVE  /\ p /\ sasl = "needed" /\ "sasl" \notin caps /\ ends = 0
         /\ Talk(p, kind, s \o <<"CAP_END">>, Tail(r), caps, "success", 1)
         /\ Talk(p, kind, s \o <<"QUIT">>, Tail(r), caps, "failure", 0)
<1> DEFINE t == Tail(r)
<1>0. Head(r) \in Answers /\ Head(r) \notin About("multi-prefix")
  BY DEF Answers, About
<1>1. Talk(p, kind, s, t, caps, sasl, ends)
  BY <1>0, TalkTakes
<1>2. Has(r, Answers)
  BY <1>0, HasTail DEF Replied
<1>3. p /\ sasl = "needed" /\ "sasl" \notin caps /\ Once(s, r) /\ ends = 0
  BY <1>2 DEF Talk, None
<1>4. ~Has(s, Steps) /\ ~Has(t, Answers)
  BY <1>0, <1>2, <1>3, OneTail DEF Once, Replied
<1>5. t \in Replied
  BY TailIs DEF Replied
<1> HIDE DEF t
<1>6. Talk(p, kind, s, t, caps, "success", 1) /\ Talk(p, kind, s, t, caps, "failure", 0)
  BY <1>1, <1>3, <1>4 DEF Talk, None
<1>7. /\ Talk(p, kind, s \o <<"CAP_END">>, t, caps, "success", 1)
      /\ Talk(p, kind, s \o <<"QUIT">>, t, caps, "failure", 0)
  <2>1. "CAP_END" \in Messages \ (Steps \cup {"sasl"}) /\ "QUIT" \in Messages \ (Steps \cup {"sasl"})
    BY DEF Messages, Steps
  <2> QED BY <1>5, <1>6, <2>1, TalkGrows
<1> QED BY <1>3, <1>7, Zenon DEF t

\* on_cap() does one of the three.
LEMMA TalkAfterCap ==
  ASSUME NEW p \in BOOLEAN, NEW kind, NEW s \in Buffer, NEW r \in Replied, NEW caps, NEW sasl, NEW ends,
         Talk(p, kind, s, r, caps, sasl, ends), r # <<>>,
         NEW cap \in {"multi-prefix", "sasl"}, Head(r) \in About(cap)
  PROVE  AfterCap(p, kind, s, r, caps, sasl, ends, cap)
<1> SUFFICES
        ASSUME NEW left, left = caps \ {cap}
        PROVE  /\ cap \in caps /\ cap = "sasl" =>
                    sasl = "needed" /\ Talk(p, kind, s \o <<"PLAIN">>, Tail(r), left, sasl, ends)
               /\ ~(cap \in caps /\ left = {} /\ sasl # "needed") => Talk(p, kind, s, Tail(r), left, sasl, ends)
               /\ cap \in caps /\ left = {} /\ sasl # "needed" =>
                    ~p /\ ends = 0 /\ Talk(p, kind, s \o <<"CAP_END">>, Tail(r), left, sasl, 1)
  BY DEF AfterCap
<1> DEFINE t == Tail(r)
<1>0. t \in Replied
  BY TailIs DEF Replied
<1>1. CASE cap \notin caps
  <2>1. left = caps
    BY <1>1
  <2>2. Head(r) \notin About("multi-prefix") \/ "multi-prefix" \notin caps
    BY <1>1 DEF About
  <2>3. Talk(p, kind, s, t, caps, sasl, ends)
    BY <2>2, TalkTakes
  <2> QED BY <1>1, <2>1, <2>3, Zenon
<1>2. CASE cap \in caps /\ cap = "multi-prefix"
  <2>0. "multi-prefix" \notin left
    BY <1>2
  <2>1. CASE ~p
    <3>1. left = {} /\ ends = 0 /\ Talk(p, kind, s, r, left, sasl, ends) /\ Talk(p, kind, s, r, left, sasl, 1)
      BY <1>2, <2>1, Zenon DEF Talk
    <3>2. Talk(p, kind, s, t, left, sasl, ends) /\ Talk(p, kind, s, t, left, sasl, 1)
      BY <2>0, <3>1, TalkTakes
    <3>3. "CAP_END" \in Messages \ (Steps \cup {"sasl"})
      BY DEF Messages, Steps
    <3>4. Talk(p, kind, s \o <<"CAP_END">>, t, left, sasl, 1)
      BY <1>0, <3>2, <3>3, TalkGrows
    <3> QED BY <1>2, <2>1, <3>1, <3>2, <3>4
  <2>2. CASE p
    <3>1. left = {"sasl"} /\ Talk(p, kind, s, r, left, sasl, ends)
      BY <1>2, <2>2, Zenon DEF Talk
    <3>2. Talk(p, kind, s, t, left, sasl, ends)
      BY <2>0, <3>1, TalkTakes
    <3> QED BY <1>2, <3>1, <3>2
  <2> QED BY <2>1, <2>2
<1>3. CASE cap \in caps /\ cap = "sasl"
  <2>0. Has(r, About("sasl"))
    BY <1>3, HasTail DEF Replied
  <2>1. p /\ sasl = "needed" /\ None(s, r) /\ kind # "nocap"
    BY <1>3, <2>0 DEF Talk
  <2>2. "multi-prefix" \notin caps
    <3>1. ~Led(r, About("sasl"), About("multi-prefix"))
      BY <1>3, LedTail DEF Replied
    <3> QED BY <2>1, <3>1 DEF Talk, Ordered
  <2>3. left = {} /\ Talk(p, kind, s, r, left, sasl, ends)
    BY <1>3, <2>1, <2>2 DEF Talk
  <2>4. Talk(p, kind, s, t, left, sasl, ends)
    BY <2>2, <2>3, TalkTakes
  <2>5. ~Has(s, Steps) /\ ~Has(t, Answers)
    BY <2>1, HasTail DEF None, Replied
  <2> DEFINE u == s \o <<"PLAIN">>
  <2>6. One(u, Steps)
    <3>1. <<"PLAIN">> \in Buffer
      BY Writes
    <3>2. One(s, Steps)
      BY <2>5 DEF One, Has
    <3> QED BY <2>5, <3>1, <3>2, OneConcat, HasOne, Zenon DEF Buffer
  <2> HIDE DEF u, t
  <2>7. Once(u, t)
    BY <2>5, <2>6 DEF Once, One, Has
  <2>8. Talk(p, kind, u, t, left, sasl, ends)
    BY <2>1, <2>3, <2>4, <2>7 DEF Talk
  <2> QED BY <2>1, <2>4, <2>8, Zenon DEF u, t
<1> QED BY <1>1, <1>2, <1>3

\* What the greeting holds, and in which order.
LEMMA GreetingIs ==
  ASSUME NEW p \in BOOLEAN
  PROVE  /\ Greeting(p) \in Buffer
         /\ \A T : Has(Greeting(p), T) <=> "multi-prefix" \in T \/ "register" \in T \/ (p /\ "sasl" \in T)
         /\ \A A : "multi-prefix" \notin A => Led(Greeting(p), A, {"multi-prefix"})
<1> DEFINE q == IF p THEN <<"sasl">> ELSE <<>>
           a == <<"multi-prefix">>
           b == <<"register">>
<1>1. a \in Buffer /\ b \in Buffer /\ q \in Buffer
  BY Buffers DEF Messages
<1>2. \A T : Has(q, T) <=> p /\ "sasl" \in T
  BY HasOne
<1>3. \A T : (Has(a, T) <=> "multi-prefix" \in T) /\ (Has(b, T) <=> "register" \in T)
  BY HasOne
<1>4. Greeting(p) = (a \o q) \o b
  BY DEF Greeting
<1> HIDE DEF a, b, q
<1>5. a \o q \in Buffer /\ (a \o q) \o b \in Buffer
  BY <1>1, ConcatIs DEF Buffer
<1>6. \A T : Has((a \o q) \o b, T) <=> Has(a, T) \/ Has(q, T) \/ Has(b, T)
  BY <1>1, <1>5, HasConcat, ZenonT(30) DEF Buffer
<1>7. ASSUME NEW A, "multi-prefix" \notin A PROVE Led((a \o q) \o b, A, {"multi-prefix"})
  <2>1. Led(a, A, {"multi-prefix"}) /\ Has(a, {"multi-prefix"})
    BY <1>3, <1>7, LedNone
  <2>2. Led(a \o q, A, {"multi-prefix"}) /\ Has(a \o q, {"multi-prefix"})
    BY <1>1, <2>1, LedConcat, HasConcat DEF Buffer
  <2> QED BY <1>1, <1>5, <2>2, LedConcat, Zenon DEF Buffer
<1> QED BY <1>2, <1>3, <1>4, <1>5, <1>6, <1>7

\* A line that neither registers nor ends the negotiation is written.
LEMMA UnservedGrows ==
  ASSUME NEW s \in Buffer, NEW r, NEW neg, NEW reg, NEW done, Unserved(s, r, neg, reg, done),
         NEW m \in Messages \ {"CAP_END", "register"}
  PROVE  Unserved(s \o <<m>>, r, neg, reg, done)
<1>1. <<m>> \in Buffer
  BY Buffers
<1>2. ~Has(s, {"CAP_END"}) => ~Has(s \o <<m>>, {"CAP_END"})
  <2>1. ~Has(<<m>>, {"CAP_END"})
    BY HasOne
  <2> QED BY <1>1, <2>1, HasConcat, Zenon DEF Buffer
<1>3. Led(s, {"register"}, {"multi-prefix"}) => Led(s \o <<m>>, {"register"}, {"multi-prefix"})
  <2>1. ~Has(<<m>>, {"register"})
    BY HasOne
  <2>2. Led(<<m>>, {"register"}, {"multi-prefix"})
    BY <2>1, LedNone
  <2> QED BY <1>1, <2>2, LedConcat, Zenon DEF Buffer
<1> QED BY <1>2, <1>3 DEF Unserved

\* A line of the server is taken, and it is not the welcome.
LEMMA UnservedTakes ==
  ASSUME NEW s, NEW r \in Replied, NEW neg, NEW reg, NEW done, Unserved(s, r, neg, reg, done), r # <<>>
  PROVE  Unserved(s, Tail(r), neg, reg, done) /\ Head(r) # <<"001">>
<1>1. ~Has(Tail(r), {<<"001">>}) /\ Head(r) # <<"001">>
  BY HasTail, Zenon DEF Unserved, Replied
<1> QED BY <1>1 DEF Unserved

\* The server reads a line: it negotiates before it can register.
LEMMA UnservedReads ==
  ASSUME NEW s \in Buffer, NEW r \in Replied, NEW neg, NEW reg, NEW done,
         Unserved(s, r, neg, reg, done), s # <<>>, NEW ms \in Replied, NEW neg2, NEW reg2,
         ~Has(ms, {<<"001">>}), Head(s) = "multi-prefix" => neg2,
         Head(s) # "CAP_END" /\ neg => neg2, Head(s) # "register" => reg2 = reg
  PROVE  Unserved(Tail(s), r \o ms, neg2, reg2, done) /\ Head(s) # "CAP_END"
<1>1. ~Has(Tail(s), {"CAP_END"}) /\ Head(s) # "CAP_END"
  BY HasTail DEF Unserved, Buffer
<1>2. ~Has(r \o ms, {<<"001">>})
  BY HasConcat DEF Unserved, Replied
<1>3. neg2 \/ (~reg2 /\ Led(Tail(s), {"register"}, {"multi-prefix"}))
  BY <1>1, LedTail DEF Unserved, Buffer
<1> QED BY <1>1, <1>2, <1>3 DEF Unserved

\* on_connected() greets the server, after what was written before.
LEMMA TalkGreets ==
  ASSUME NEW p \in BOOLEAN, NEW kind, NEW x \in Buffer, NEW h \in Buffer, NEW r \in Replied, NEW sasl,
         ~Has(x, Messages \ Early), ~Has(h, Messages \ Stale), ~p => ~Has(h, {"sasl"}),
         Led(h, {"sasl"}, {"multi-prefix"}), Led(h, {"register"}, {"multi-prefix"}),
         ~Has(r, Lines), NEW s, s = (x \o h) \o Greeting(p)
  PROVE  /\ Talk(p, kind, s, r, IF p THEN {"multi-prefix", "sasl"} ELSE {"multi-prefix"},
                 IF p THEN "needed" ELSE sasl, 0)
         /\ Unserved(s, r, FALSE, FALSE, FALSE)
<1> DEFINE g == Greeting(p)
<1>0. g \in Buffer /\ x \o h \in Buffer
  BY GreetingIs, ConcatIs DEF Buffer
<1>1. \A T : Has(s, T) <=> Has(x, T) \/ Has(h, T) \/ Has(g, T)
  BY <1>0, HasConcat, Zenon DEF Buffer
<1>2. ASSUME NEW T, ~Has(x, T), ~Has(h, T), ~Has(g, T) PROVE ~Has(s, T)
  BY <1>1, <1>2
<1>3. ASSUME NEW U, NEW T, ~Has(x, U), T \subseteq U PROVE ~Has(x, T)
  BY <1>3 DEF Has
<1>4. ASSUME NEW U, NEW T, ~Has(h, U), T \subseteq U PROVE ~Has(h, T)
  BY <1>4 DEF Has
<1>5. ASSUME NEW U, NEW T, ~Has(r, U), T \subseteq U PROVE ~Has(r, T)
  BY <1>5 DEF Has
<1>6. /\ ~Has(x, Steps) /\ ~Has(x, {"CAP_END"}) /\ ~Has(x, {"sasl"}) /\ ~Has(x, {"register"})
  <2>1. /\ Steps \subseteq Messages \ Early /\ {"CAP_END"} \subseteq Messages \ Early
        /\ {"sasl"} \subseteq Messages \ Early /\ {"register"} \subseteq Messages \ Early
    BY DEF Steps, Messages, Early
  <2> QED BY <1>3, <2>1
<1>7. ~Has(h, Steps) /\ ~Has(h, {"CAP_END"})
  <2>1. Steps \subseteq Messages \ Stale /\ {"CAP_END"} \subseteq Messages \ Stale
    BY DEF Steps, Messages, Stale
  <2> QED BY <1>4, <2>1
<1>8. ~Has(g, Steps) /\ ~Has(g, {"CAP_END"}) /\ (~p => ~Has(g, {"sasl"}))
  BY GreetingIs DEF Steps
<1>9. /\ ~Has(r, Answers) /\ ~Has(r, {<<"001">>}) /\ ~Has(r, About("sasl")) /\ ~Has(r, About("multi-prefix"))
  <2>1. /\ Answers \subseteq Lines /\ {<<"001">>} \subseteq Lines /\ About("sasl") \subseteq Lines
        /\ About("multi-prefix") \subseteq Lines
    BY DEF Answers, Lines, About
  <2> QED BY <1>5, <2>1
<1>10. ASSUME NEW A \in {{"sasl"}, {"register"}} PROVE Led(s, A, {"multi-prefix"})
  <2>1. Led(x, A, {"multi-prefix"})
    BY <1>6, LedNone, Zenon
  <2>2. Led(x \o h, A, {"multi-prefix"})
    BY <2>1, LedConcat, Zenon DEF Buffer
  <2>3. Led(g, A, {"multi-prefix"})
    BY GreetingIs
  <2> QED BY <1>0, <2>2, <2>3, LedConcat, Zenon DEF Buffer
<1> HIDE DEF g
<1>11. ~Has(s, Steps) /\ ~Has(s, {"CAP_END"}) /\ (~p => ~Has(s, {"sasl"}))
  BY <1>2, <1>6, <1>7, <1>8
<1>12. None(s, r) /\ Once(s, r)
  BY <1>9, <1>11 DEF None, Once, One, Has
<1>13. Ordered(s, r)
  BY <1>9, <1>10, LedNone DEF Ordered
<1>14. Unserved(s, r, FALSE, FALSE, FALSE)
  BY <1>9, <1>10, <1>11 DEF Unserved
<1>15. CASE p
  <2>1. Talk(p, kind, s, r, {"multi-prefix", "sasl"}, "needed", 0)
    BY <1>9, <1>12, <1>13, <1>15 DEF Talk
  <2> QED BY <1>14, <1>15, <2>1, Zenon
<1>16. CASE ~p
  BY <1>9, <1>11, <1>12, <1>14, <1>16, Zenon DEF Talk
<1> QED BY <1>15, <1>16, Zenon

\* What the server says grows by concatenation.
LEMMA RepliedIs ==
  /\ <<>> \in Replied
  /\ \A a, b \in Replied : a \o b \in Replied
  /\ \A a \in Replied, m \in Replies : Append(a, m) = a \o <<m>> /\ Append(a, m) \in Replied
  /\ \A m \in Replies : <<m>> \in Replied
<1>1. <<>> \in Replied
  BY DEF Replied
<1>2. ASSUME NEW a \in Replied, NEW b \in Replied PROVE a \o b \in Replied
  BY DEF Replied
<1>3. ASSUME NEW a \in Replied, NEW m \in Replies PROVE Append(a, m) = a \o <<m>> /\ Append(a, m) \in Replied
  BY DEF Replied
<1>4. ASSUME NEW m \in Replies PROVE <<m>> \in Replied
  BY DEF Replied
<1> QED BY <1>1, <1>2, <1>3, <1>4

\* A connection that was not made, or was just made.
LEMMA NoNetType == NoNet \in NetType /\ [NoNet EXCEPT !.up = TRUE] \in NetType
  BY Buffers, RepliedIs, Zenon DEF NoNet, NetType

\* close() keeps the types.
LEMMA CloseTypes ==
  ASSUME NegType, Close
  PROVE  tcp' \in TcpType /\ dns' \in DnsType /\ net' \in NetType /\ threw' \in BOOLEAN
<1>1. tcp' \in TcpType
  BY Buffers, Zenon DEF Close, Closed, NegType, SockType, TcpType
<1>2. dns' \in DnsType
  BY Zenon DEF Close, NegType, SockType, DnsType
<1>3. net' \in NetType
  BY NoNetType DEF Close
<1>4. threw' \in BOOLEAN
  BY DEF Close, NegType, SockType
<1> QED BY <1>1, <1>2, <1>3, <1>4

\* send_data() keeps the types.
LEMMA SendTypes ==
  ASSUME NEW t \in TcpType, NEW ms \in Buffer
  PROVE  SendData(t, ms) \in TcpType
<1>1. t.out \o ms \in Buffer /\ t.pre \o ms \in Buffer
  BY Buffers DEF TcpType
<1>2. CASE t.use_tls /\ t.tls # "active"
  BY <1>1, <1>2, Zenon DEF SendData, TcpType
<1>3. CASE ~(t.use_tls /\ t.tls # "active")
  BY <1>1, <1>3, Zenon DEF SendData, TcpType
<1> QED BY <1>2, <1>3

\* The functions of a call chain keep the types.
LEMMA ChainTypes ==
  ASSUME NegType, Chain
  PROVE  NegType'
<1>0. tcp \in TcpType /\ dns \in DnsType /\ irc \in IrcType /\ net \in NetType /\ conf \in ConfType
      /\ irc.ports \in PortList
  BY DEF NegType, SockType, IrcType
<1>1. CASE Start
  <2>1. irc' \in IrcType
    <3>1. irc.ports # <<>> => Tail(irc.ports) \in PortList
      BY <1>0, PortLists
    <3>2. \/ irc' = irc
          \/ irc' = [irc EXCEPT !.answer = "no_port"]
          \/ irc.ports # <<>> /\ irc' = [irc EXCEPT !.ports = Tail(irc.ports)]
      BY <1>1 DEF Start
    <3>3. [irc EXCEPT !.answer = "no_port"] \in IrcType
      BY <1>0 DEF IrcType
    <3>4. ASSUME irc.ports # <<>> PROVE [irc EXCEPT !.ports = Tail(irc.ports)] \in IrcType
      BY <1>0, <3>1, <3>4, Zenon DEF IrcType
    <3> QED BY <1>0, <3>2, <3>3, <3>4
  <2>2. tcp' \in TcpType
    <3>1. irc.ports # <<>> => Head(irc.ports) \in BOOLEAN
      BY <1>0, PortLists
    <3>2. tcp' = tcp \/ \E b \in BOOLEAN : tcp' = [tcp EXCEPT !.use_tls = b]
      BY <1>1, <3>1 DEF Start
    <3> QED BY <1>0, <3>2 DEF TcpType
  <2> QED BY <1>0, <1>1, <2>1, <2>2 DEF Start, Return, NegType, SockType
<1>2. CASE Resolve
  <2>1. dns' \in DnsType
    <3>1. CASE \E n \in 1..MaxAddrs :
                 dns' = [resolving |-> FALSE, resolved |-> TRUE, addrs |-> n, queries |-> {}]
      BY <3>1, ConnectionAssumptions DEF DnsType
    <3>2. CASE \E qs \in SUBSET {"a4", "a6"} :
                 dns' = [resolving |-> TRUE, resolved |-> FALSE, addrs |-> 0, queries |-> qs]
      BY <3>2 DEF DnsType
    <3> QED BY <1>2, <3>1, <3>2 DEF Resolve
  <2> QED BY <1>0, <1>2, <2>1 DEF Resolve, Return, NegType, SockType
<1>3. CASE Unresolved
  <2>1. irc' \in IrcType
    BY <1>0, <1>3, Zenon DEF Unresolved, IrcType
  <2> QED BY <1>0, <1>3, <2>1, CloseTypes DEF Unresolved, NegType, SockType
<1>4. CASE AllFail
  BY <1>0, <1>4, CloseTypes DEF AllFail, NegType, SockType
<1>5. CASE InProgress
  <2>1. tcp.timers + 1 \in Nat
    BY <1>0 DEF TcpType
  <2>2. tcp' = [tcp EXCEPT !.connecting = TRUE, !.managed = TRUE, !.watching = TRUE,
                           !.timers = tcp.timers + 1]
    BY <1>5 DEF InProgress
  <2>3. tcp' \in TcpType
    BY <1>0, <2>1, <2>2, Zenon DEF TcpType
  <2> QED BY <1>0, <1>5, <2>3 DEF InProgress, Return, NegType, SockType
<1>6. CASE Established
  <2>1. Append(tcp.out, "hello") \in Buffer
    BY <1>0, Buffers DEF TcpType, Messages
  <2>2. tcp' \in TcpType
    BY <1>0, <1>6, <2>1, Zenon DEF Established, TcpType
  <2> QED BY <1>0, <1>6, <2>2, NoNetType DEF Established, NegType, SockType
<1>7. CASE TlsStartFails
  BY <1>0, <1>7 DEF TlsStartFails, NegType, SockType
<1>8. CASE CloseAfter
  <2>1. irc' \in IrcType
    BY <1>0, <1>8 DEF CloseAfter, IrcType
  <2> QED BY <1>0, <1>8, <2>1, CloseTypes, Zenon DEF CloseAfter, NegType, SockType
<1>9. CASE OnConnectionFailed
  <2>1. irc' \in IrcType
    <3>1. <<>> \in PortList
      BY DEF PortList
    <3>2. TellError(irc) \in IrcType
      BY <1>0 DEF TellError, IrcType
    <3>3. [TellError(irc) EXCEPT !.ports = <<>>] \in IrcType
      BY <3>1, <3>2 DEF IrcType
    <3>4. irc' = irc \/ irc' = [TellError(irc) EXCEPT !.ports = <<>>]
      BY <1>9 DEF OnConnectionFailed
    <3> QED BY <1>0, <3>3, <3>4
  <2> QED BY <1>0, <1>9, <2>1 DEF OnConnectionFailed, Return, NegType, SockType
<1>10. CASE OnConnected
  <2>1. irc' \in IrcType
    <3>1. Wanted \subseteq {"multi-prefix", "sasl"}
      BY DEF Wanted
    <3>2. CASE irc' = [irc EXCEPT !.lookup = TRUE, !.ends = 0]
      BY <1>0, <3>2, Zenon DEF IrcType
    <3>3. CASE irc' = [irc EXCEPT !.caps = irc.caps \cup Wanted, !.ends = 0,
                                  !.sasl = IF conf.password THEN "needed" ELSE irc.sasl]
      BY <1>0, <3>1, <3>3, Zenon DEF IrcType
    <3> QED BY <1>10, <3>2, <3>3 DEF OnConnected
  <2>2. tcp' \in TcpType
    <3>1. ASSUME NEW b \in BOOLEAN PROVE Greeting(b) \in Buffer
      BY GreetingIs
    <3>2. tcp' = tcp \/ \E b \in BOOLEAN : tcp' = SendData(tcp, Greeting(b))
      BY <1>10, Zenon DEF OnConnected, Greeting
    <3> QED BY <1>0, <3>1, <3>2, SendTypes
  <2> QED BY <1>0, <1>10, <2>1, <2>2 DEF OnConnected, Return, NegType, SockType
<1> QED BY <1>1, <1>2, <1>3, <1>4, <1>5, <1>6, <1>7, <1>8, <1>9, <1>10 DEF Chain

\* The lines that are received keep the types.
LEMMA ReceiveTypes ==
  ASSUME NegType, Receive
  PROVE  NegType'
<1>0. tcp \in TcpType /\ dns \in DnsType /\ irc \in IrcType /\ net \in NetType /\ conf \in ConfType
  BY DEF NegType, SockType
<1>a. ASSUME Taken, net.reply # <<>> PROVE net' \in NetType
  <2>1. Tail(net.reply) \in Replied
    BY <1>0, <1>a, TailIs DEF NetType, Replied
  <2> QED BY <1>0, <1>a, <2>1, Zenon DEF Taken, NetType
<1>b. ASSUME net' \in NetType, tcp' \in TcpType, irc' \in IrcType, UNCHANGED <<ctl, dns, conf>> PROVE NegType'
  BY <1>b DEF NegType, SockType, ctl
<1>c. ASSUME NEW m, Receives(m) PROVE net.reply # <<>>
  BY <1>c DEF Receives
<1>1. CASE OnEnd
  <2>1. irc' \in IrcType
    BY <1>0, <1>1 DEF OnEnd, OnClose, IrcType
  <2> QED BY <1>0, <1>1, <2>1, CloseTypes DEF OnEnd, OnClose, NegType, SockType
<1>2. CASE OnTlsActivated
  <2>1. [tcp EXCEPT !.tls = "active", !.pre = <<>>] \in TcpType /\ tcp.pre \in Buffer
    BY <1>0, Buffers, Zenon DEF TcpType
  <2>2. tcp' \in TcpType
    BY <1>2, <2>1, SendTypes DEF OnTlsActivated
  <2> QED BY <1>0, <1>2, <1>a, <1>b, <1>c, <2>2 DEF OnTlsActivated
<1>3. CASE OnCap
  <2> PICK cap \in {"multi-prefix", "sasl"}, sub \in {"ACK", "NAK"} : OnCap!(cap, sub)
    BY <1>3, Zenon DEF OnCap
  <2> DEFINE i == [irc EXCEPT !.caps = irc.caps \ {cap}]
             ends == cap \in irc.caps /\ i.caps = {} /\ MayEnd(i)
             auth == IF cap \in irc.caps /\ cap = "sasl" /\ sub = "ACK" THEN <<"PLAIN">> ELSE <<>>
             end == IF ends THEN <<"CAP_END">> ELSE <<>>
  <2>1. i \in IrcType
    BY <1>0 DEF IrcType
  <2>2. irc' \in IrcType
    BY <2>1, EndTypes
  <2>3. auth \o end \in Buffer
    BY Writes, Zenon
  <2>4. tcp' = SendData(tcp, auth \o end)
    OBVIOUS
  <2>5. tcp' \in TcpType
    BY <1>0, <2>3, <2>4, SendTypes
  <2> QED BY <1>0, <1>a, <1>b, <1>c, <2>2, <2>5
<1>4. CASE OnAuthenticate
  <2>1. tcp' \in TcpType
    BY <1>0, <1>4, SendTypes, Writes DEF OnAuthenticate
  <2> QED BY <1>0, <1>4, <1>a, <1>b, <1>c, <2>1 DEF OnAuthenticate
<1>5. CASE OnSaslSuccess
  <2>1. tcp' \in TcpType
    BY <1>0, <1>5, SendTypes, Writes DEF OnSaslSuccess
  <2>2. [irc EXCEPT !.sasl = "success"] \in IrcType
    BY <1>0 DEF IrcType
  <2>3. irc' \in IrcType
    BY <1>5, <2>2, EndTypes DEF OnSaslSuccess
  <2> QED BY <1>0, <1>5, <1>a, <1>b, <1>c, <2>1, <2>3 DEF OnSaslSuccess
<1>6. CASE OnSaslFailure
  <2>1. tcp' \in TcpType
    BY <1>0, <1>6, SendTypes, Writes DEF OnSaslFailure
  <2>2. [irc EXCEPT !.sasl = "failure"] \in IrcType
    BY <1>0 DEF IrcType
  <2>3. irc' \in IrcType
    BY <1>6, <2>2, Zenon DEF OnSaslFailure, TellError, IrcType
  <2> QED BY <1>0, <1>6, <1>a, <1>b, <1>c, <2>1, <2>3 DEF OnSaslFailure
<1>7. CASE OnNicknameConflict
  BY <1>0, <1>7, <1>a, <1>b, <1>c DEF OnNicknameConflict
<1>8. CASE OnWelcome
  <2>1. tcp' \in TcpType
    BY <1>0, <1>8, SendTypes, Writes DEF OnWelcome
  <2>2. irc' \in IrcType
    BY <1>0, <1>8, Zenon DEF OnWelcome, IrcType
  <2> QED BY <1>0, <1>8, <1>a, <1>b, <1>c, <2>1, <2>2 DEF OnWelcome
<1> QED BY <1>1, <1>2, <1>3, <1>4, <1>5, <1>6, <1>7, <1>8 DEF Receive

\* ServerReads, line by line.
LEMMA ServerReadsIs ==
  ASSUME net \in NetType, ServerReads
  PROVE  /\ net' \in NetType /\ net'.wire = Tail(net.wire) /\ net'.done = net.done
         /\ \E ms \in Replied : net'.reply = net.reply \o ms /\ Reads(Head(net.wire), ms, net'.neg, net'.reg)
<1> DEFINE m == Head(net.wire)
           Result(n, ms, neg, reg) ==
             /\ n \in NetType /\ n.wire = Tail(net.wire) /\ n.done = net.done
             /\ n.reply = net.reply \o ms /\ n.neg = neg /\ n.reg = reg
<1>0. net.neg \in BOOLEAN /\ net.reg \in BOOLEAN /\ net.done \in BOOLEAN /\ Tail(net.wire) \in Buffer
      /\ net.reply \in Replied
  BY TailIs DEF NetType, ServerReads, Buffer
<1>a. ASSUME NEW ms \in Replied PROVE Result(Says(net, ms), ms, net.neg, net.reg)
  <2>1. net.reply \o ms \in Replied
    BY <1>0, RepliedIs
  <2> QED BY <1>0, <2>1, Zenon DEF Says, NetType
<1>b. ASSUME NEW n, NEW ms, NEW neg, NEW reg, Result(n, ms, neg, reg), NEW b \in BOOLEAN
      PROVE  /\ Result([n EXCEPT !.neg = b], ms, b, reg) /\ Result([n EXCEPT !.reg = b], ms, neg, b)
             /\ Result([n EXCEPT !.up = b], ms, neg, reg)
  BY <1>b, Zenon DEF NetType
<1>c. ASSUME NEW ms \in Replied, NEW neg \in BOOLEAN, NEW reg \in BOOLEAN, Result(net', ms, neg, reg),
             Reads(m, ms, neg, reg)
      PROVE  /\ net' \in NetType /\ net'.wire = Tail(net.wire) /\ net'.done = net.done
             /\ \E l \in Replied : net'.reply = net.reply \o l /\ Reads(m, l, net'.neg, net'.reg)
  BY <1>c
<1>d. /\ \A x \in {"tls", "tls_alert", "end", "AUTHENTICATE", "903", "904", "433"} : <<<<x>>>> \in Replied
      /\ \A c \in {"multi-prefix", "sasl"} : \A x \in About(c) : <<x>> \in Replied
      /\ <<>> \in Replied
  <2>1. \A x \in {"tls", "tls_alert", "end", "AUTHENTICATE", "903", "904", "433"} : <<x>> \in Replies
    BY DEF Replies, Lines
  <2>2. \A c \in {"multi-prefix", "sasl"} : About(c) \subseteq Replies
    BY DEF Replies, Lines, About
  <2> QED BY <2>1, <2>2, RepliedIs, Zenon
<1> HIDE DEF Result
<1>2. CASE m = "hello" /\ \E r \in {"tls", "tls_alert"} : net' = Says(net, <<<<r>>>>)
  <2> PICK r \in {"tls", "tls_alert"} : net' = Says(net, <<<<r>>>>)
    BY <1>2
  <2>1. Reads(m, <<<<r>>>>, net.neg, net.reg)
    BY <1>0, <1>2 DEF Reads
  <2> QED BY <1>0, <1>a, <1>c, <1>d, <2>1, Zenon
<1>3. CASE m \in {"multi-prefix", "sasl"} /\ conf.kind = "nocap" /\ net' = Says(net, <<>>)
  <2>1. Reads(m, <<>>, net.neg, net.reg)
    BY <1>0, <1>3 DEF Reads
  <2> QED BY <1>0, <1>3, <1>a, <1>c, <1>d, <2>1, Zenon
<1>4. CASE /\ m \in {"multi-prefix", "sasl"} /\ conf.kind # "nocap"
           /\ net' = [Says(net, <<<<IF m = "sasl" /\ conf.kind = "cap" THEN "NAK" ELSE "ACK", m>>>>)
                         EXCEPT !.neg = ~net.done]
  <2>1. PICK x \in About(m) : net' = [Says(net, <<x>>) EXCEPT !.neg = ~net.done]
    BY <1>4 DEF About
  <2>2. Reads(m, <<x>>, ~net.done, net.reg)
    BY <1>0, <1>4 DEF Reads
  <2>3. <<x>> \in Replied
    BY <1>4, <1>d
  <2>4. Result(net', <<x>>, ~net.done, net.reg)
    BY <1>0, <1>a, <1>b, <2>1, <2>3, Zenon
  <2> QED BY <1>0, <1>c, <2>2, <2>3, <2>4, Zenon
<1>5. CASE m = "PLAIN" /\ net' = Says(net, <<<<"AUTHENTICATE">>>>)
  <2>1. Reads(m, <<<<"AUTHENTICATE">>>>, net.neg, net.reg)
    BY <1>0, <1>5 DEF Reads
  <2> QED BY <1>0, <1>5, <1>a, <1>c, <1>d, <2>1
<1>6. CASE m = "credentials" /\ \E r \in {"903", "904"} : net' = Says(net, <<<<r>>>>)
  <2> PICK r \in {"903", "904"} : net' = Says(net, <<<<r>>>>)
    BY <1>6
  <2>1. Reads(m, <<<<r>>>>, net.neg, net.reg)
    BY <1>0, <1>6 DEF Reads
  <2> QED BY <1>0, <1>a, <1>c, <1>d, <2>1, Zenon
<1>7. CASE m = "register" /\ net' = [Says(net, <<>>) EXCEPT !.reg = TRUE]
  <2>1. Reads(m, <<>>, net.neg, TRUE)
    BY <1>0, <1>7 DEF Reads
  <2> QED BY <1>0, <1>7, <1>a, <1>b, <1>c, <1>d, <2>1, Zenon
<1>8. CASE m = "register" /\ ~net.reg /\ net' = Says(net, <<<<"433">>>>)
  <2>1. Reads(m, <<<<"433">>>>, net.neg, net.reg)
    BY <1>0, <1>8 DEF Reads
  <2> QED BY <1>0, <1>8, <1>a, <1>c, <1>d, <2>1, Zenon
<1>9. CASE m = "CAP_END" /\ net' = [Says(net, <<>>) EXCEPT !.neg = FALSE]
  <2>1. Reads(m, <<>>, FALSE, net.reg)
    BY <1>0, <1>9 DEF Reads
  <2> QED BY <1>0, <1>9, <1>a, <1>b, <1>c, <1>d, <2>1, ZenonT(30)
<1>10. CASE m = "JOIN" /\ net' = Says(net, <<>>)
  <2>1. Reads(m, <<>>, net.neg, net.reg)
    BY <1>0, <1>10 DEF Reads
  <2> QED BY <1>0, <1>10, <1>a, <1>c, <1>d, <2>1, Zenon
<1>11. CASE m = "QUIT" /\ net' = [Says(net, <<<<"end">>>>) EXCEPT !.up = FALSE]
  <2>1. Reads(m, <<<<"end">>>>, net.neg, net.reg)
    BY <1>0, <1>11 DEF Reads
  <2>2. <<<<"end">>>> \in Replied
    BY <1>d
  <2>3. Result(net', <<<<"end">>>>, net.neg, net.reg)
    BY <1>11, <1>a, <1>b, <2>2, Zenon
  <2> QED BY <1>0, <1>c, <2>1, <2>2, <2>3
<1> QED BY <1>2, <1>3, <1>4, <1>5, <1>6, <1>7, <1>8, <1>9, <1>10, <1>11, Zenon DEF ServerReads

\* Every step keeps the types.
LEMMA TypeStep ==
  ASSUME NegType, [Next]_vars
  PROVE  NegType'
<1>0. tcp \in TcpType /\ dns \in DnsType /\ irc \in IrcType /\ net \in NetType /\ conf \in ConfType
  BY DEF NegType, SockType
<1>1. CASE Chain
  BY <1>1, ChainTypes
<1>2. CASE DnsAnswer
  <2>1. PICK q \in dns.queries, n \in 0..1 : DnsAnswer!2!(q, n)
    BY <1>2, Zenon DEF DnsAnswer
  <2> DEFINE left == dns.queries \ {q}
             a == IF dns.addrs + n > MaxAddrs THEN dns.addrs ELSE dns.addrs + n
  <2>2. a \in Nat /\ left \in SUBSET {"a4", "a6"} /\ (left = {}) \in BOOLEAN /\ (left # {}) \in BOOLEAN
    BY <1>0 DEF DnsType
  <2>3. dns' = [dns EXCEPT !.queries = left, !.addrs = a, !.resolved = (left = {}), !.resolving = (left # {})]
    BY <2>1, Zenon
  <2> HIDE DEF left, a
  <2>4. dns' \in DnsType
    BY <1>0, <2>2, <2>3, Zenon DEF DnsType
  <2>5. pc' \in {"idle", "connect"}
    BY <2>1
  <2> QED BY <1>0, <1>2, <2>4, <2>5 DEF DnsAnswer, NegType, SockType
<1>3. CASE Timeout
  BY <1>0, <1>3, CloseTypes DEF Timeout, NegType, SockType
<1>4. CASE PollConnect
  BY <1>0, <1>4 DEF PollConnect, NegType, SockType
<1>5. CASE OnSend
  <2>1. tcp' \in TcpType
    BY <1>0, <1>5, Buffers, Zenon DEF OnSend, TcpType
  <2>2. net.wire \o tcp.out \in Buffer
    BY <1>0, Buffers DEF NetType, TcpType
  <2>3. net' \in NetType
    BY <1>0, <1>5, <2>2, Zenon DEF OnSend, NetType
  <2> QED BY <1>0, <1>5, <2>1, <2>3 DEF OnSend, NegType, SockType, ctl
<1>6. CASE SendFails
  <2>1. irc' \in IrcType
    BY <1>0, <1>6 DEF SendFails, OnClose, IrcType
  <2> QED BY <1>0, <1>6, <2>1, CloseTypes DEF SendFails, OnClose, NegType, SockType
<1>7. CASE Receive
  BY <1>7, ReceiveTypes
<1>8. CASE LookupAnswer
  <2>1. irc' \in IrcType
    BY <1>0, <1>8, ZenonT(30) DEF LookupAnswer, IrcType
  <2>2. tcp' \in TcpType
    BY <1>0, <1>8, SendTypes, Writes DEF LookupAnswer
  <2>3. conf' \in ConfType
    BY <1>0, <1>8, Zenon DEF LookupAnswer, ConfType
  <2> QED BY <1>0, <1>8, <2>1, <2>2, <2>3 DEF LookupAnswer, NegType, SockType
<1>9. CASE Rejoin
  <2>1. irc' \in IrcType
    BY <1>0, <1>9 DEF Rejoin, IrcType
  <2> QED BY <1>0, <1>9, <2>1 DEF Rejoin, NegType, SockType
<1>10. CASE Clean
  BY <1>0, <1>10, Zenon DEF Clean, NegType, SockType
<1>11. CASE DisconnectUserFromServer
  <2>1. irc' \in IrcType
    BY <1>0, <1>11 DEF DisconnectUserFromServer, IrcType
  <2> QED BY <1>0, <1>11, <2>1, CloseTypes, Zenon DEF DisconnectUserFromServer, NegType, SockType
<1>12. CASE NewClient
  <2>1. tcp' \in TcpType /\ dns' \in DnsType /\ irc' \in IrcType /\ net' \in NetType
    BY <1>12, FreshTypes, NoNetType DEF NewClient
  <2> QED BY <1>0, <1>12, <2>1 DEF NewClient, NegType, SockType
<1>13. CASE ServerReads
  BY <1>0, <1>13, ServerReadsIs DEF ServerReads, NegType, SockType, ctl
<1>14. CASE ServerWelcomes \/ ServerCloses
  <2>1. <<"001">> \in Replies /\ <<"end">> \in Replies
    BY DEF Replies, Lines
  <2>2. Append(net.reply, <<"001">>) \in Replied /\ Append(net.reply, <<"end">>) \in Replied
    BY <1>0, <2>1, RepliedIs, Zenon DEF NetType
  <2>3. net' \in NetType
    BY <1>0, <1>14, <2>2, Zenon DEF ServerWelcomes, ServerCloses, NetType
  <2> QED BY <1>0, <1>14, <2>3 DEF ServerWelcomes, ServerCloses, NegType, SockType, ctl
<1>15. CASE UNCHANGED vars
  BY <1>0, <1>15 DEF vars, NegType, SockType
<1> QED BY <1>1, <1>2, <1>3, <1>4, <1>5, <1>6, <1>7, <1>8, <1>9, <1>10, <1>11, <1>12, <1>13,
           <1>14, <1>15 DEF Next

\* The types of the initial state.
LEMMA TypeInit == Init => NegType
<1>1. SUFFICES ASSUME Init PROVE NegType
  OBVIOUS
<1>2. conf \in ConfType
  BY <1>1, ConnectionAssumptions, Zenon DEF Init, ConfType
<1> QED BY <1>1, <1>2, FreshTypes, NoNetType, Zenon DEF Init, NegType, SockType

\* send_data() writes to out_buf, or to pre_buf until TLS is active.
LEMMA SendIs ==
  ASSUME NEW t \in TcpType, NEW ms \in Buffer, NEW u, u = SendData(t, ms)
  PROVE  /\ u.connected = t.connected /\ u.connecting = t.connecting /\ u.managed = t.managed
         /\ u.timers = t.timers /\ u.use_tls = t.use_tls /\ u.tls = t.tls
         /\ Unsent(t) => u.out = t.out /\ u.pre = t.pre \o ms
         /\ ~Unsent(t) => u.out = t.out \o ms /\ u.pre = t.pre
  BY SMTT(20) DEF SendData, TcpType, Unsent

\* close() leaves nothing of the connection.
LEMMA LinkClose ==
  ASSUME NegInv, Close, irc'.caps = irc.caps, irc'.lookup = irc.lookup, irc'.welcomed = irc.welcomed,
         conf' = conf, pc' \in {"idle", "failed"}, irc.welcomed => pc' = "idle"
  PROVE  LinkInv'
<1>1. /\ ~tcp'.connecting /\ ~tcp'.connected /\ ~tcp'.managed /\ tcp'.timers = 0 /\ tcp'.out = <<>>
  BY DEF NegInv, NegType, SockType, TcpType, Close, Closed
<1>2. ~dns'.resolved /\ dns'.queries = dns.queries /\ net' = NoNet
  BY DEF NegInv, NegType, SockType, DnsType, Close
<1> QED BY <1>1, <1>2 DEF NegInv, LinkInv, Wanted

\* The functions of a call chain keep the order of the connection.
LEMMA LinkChain ==
  ASSUME NegInv, NegType', Chain
  PROVE  LinkInv'
<1>0. tcp \in TcpType /\ dns \in DnsType /\ irc \in IrcType /\ LinkInv /\ ~irc.welcomed
  BY DEF NegInv, NegType, SockType, LinkInv, Chain, Start, Resolve, Unresolved, AllFail, Tries, InProgress,
         Established, TlsStartFails, CloseAfter, OnConnectionFailed, OnConnected
<1>1. CASE Start
  <2>1. /\ tcp'.connected = tcp.connected /\ tcp'.connecting = tcp.connecting /\ tcp'.managed = tcp.managed
        /\ tcp'.timers = tcp.timers /\ tcp'.out = tcp.out
    BY <1>0, <1>1 DEF Start, TcpType
  <2>2. irc'.caps = irc.caps /\ irc'.lookup = irc.lookup /\ irc'.welcomed = irc.welcomed
    BY <1>0, <1>1 DEF Start, IrcType
  <2> QED BY <1>0, <1>1, <2>1, <2>2 DEF Start, Return, LinkInv, Wanted
<1>2. CASE Resolve
  <2>1. dns'.resolved => dns'.queries = {}
    BY <1>2, SMTT(20) DEF Resolve
  <2>2. ~tcp.connecting /\ ~tcp.connected
    BY <1>0, <1>2 DEF Resolve, LinkInv
  <2> QED BY <1>0, <1>2, <2>1, <2>2 DEF Resolve, Return, LinkInv, Wanted
<1>3. CASE Unresolved
  <2>1. irc'.caps = irc.caps /\ irc'.lookup = irc.lookup /\ irc'.welcomed = irc.welcomed
    BY <1>0, <1>3 DEF Unresolved, IrcType
  <2> QED BY <1>0, <1>3, <2>1, LinkClose DEF Unresolved
<1>4. CASE AllFail
  BY <1>0, <1>4, LinkClose DEF AllFail
<1>5. CASE InProgress
  <2>1. tcp'.connected = tcp.connected /\ tcp'.out = tcp.out
    BY <1>0, <1>5 DEF InProgress, TcpType
  <2> QED BY <1>0, <1>5, <2>1 DEF InProgress, Tries, Return, LinkInv, Wanted
<1>6. CASE Established
  <2>1. tcp'.connected /\ tcp'.timers = 0
    BY <1>0, <1>6 DEF Established, TcpType
  <2> QED BY <1>0, <1>6, <2>1 DEF Established, Tries, LinkInv, Wanted
<1>7. CASE TlsStartFails
  BY <1>0, <1>7 DEF TlsStartFails, Tries, LinkInv, Wanted
<1>8. CASE CloseAfter
  <2>1. irc'.caps = irc.caps /\ irc'.lookup = irc.lookup /\ irc'.welcomed = irc.welcomed
    BY <1>0, <1>8 DEF CloseAfter, IrcType
  <2> QED BY <1>0, <1>8, <2>1, LinkClose DEF CloseAfter
<1>9. CASE OnConnectionFailed
  <2>1. irc'.caps = irc.caps /\ irc'.lookup = irc.lookup /\ irc'.welcomed = irc.welcomed
    BY <1>0, <1>9, Zenon DEF OnConnectionFailed, TellError, IrcType
  <2> QED BY <1>0, <1>9, <2>1 DEF OnConnectionFailed, Return, LinkInv, Wanted
<1>10. CASE OnConnected
  <2>1. irc'.caps \subseteq Wanted /\ irc'.welcomed = irc.welcomed /\ (irc'.lookup => irc.lookup \/ Hidden(conf))
    <3>1. irc.caps \subseteq Wanted
      BY <1>0 DEF LinkInv
    <3>2. CASE Hidden(conf) /\ irc' = [irc EXCEPT !.lookup = TRUE, !.ends = 0]
      BY <1>0, <3>1, <3>2 DEF IrcType
    <3>3. CASE irc' = [irc EXCEPT !.caps = irc.caps \cup Wanted, !.ends = 0,
                                  !.sasl = IF conf.password THEN "needed" ELSE irc.sasl]
      BY <1>0, <3>1, <3>3 DEF IrcType
    <3> QED BY <1>10, <3>2, <3>3 DEF OnConnected, Hidden
  <2>2. tcp'.connected = tcp.connected /\ tcp'.timers = tcp.timers
    BY <1>0, <1>10, Zenon DEF OnConnected, SendData, TcpType
  <2>3. tcp.connected
    BY <1>0, <1>10 DEF OnConnected, LinkInv
  <2> QED BY <1>0, <1>10, <2>1, <2>2, <2>3 DEF OnConnected, Return, LinkInv, Wanted
<1> QED BY <1>1, <1>2, <1>3, <1>4, <1>5, <1>6, <1>7, <1>8, <1>9, <1>10, SMTT(20) DEF Chain

\* The lines that are received keep the order of the connection.
LEMMA LinkReceive ==
  ASSUME NegInv, NegType', Receive
  PROVE  LinkInv'
<1>0. tcp \in TcpType /\ dns \in DnsType /\ irc \in IrcType /\ net \in NetType /\ LinkInv /\ tcp.connected
      /\ pc = "idle"
  BY DEF NegInv, NegType, SockType, Receive, OnEnd, OnTlsActivated, OnCap, OnAuthenticate, OnSaslSuccess,
         OnSaslFailure, OnNicknameConflict, OnWelcome, Receives, Idle
<1>a. ASSUME tcp'.connected, tcp'.timers = tcp.timers, UNCHANGED <<ctl, dns, conf>>,
             irc'.caps \subseteq irc.caps, irc'.lookup = irc.lookup,
             irc'.welcomed => irc.welcomed \/ ~Hidden(conf)
      PROVE  LinkInv'
  BY <1>0, <1>a DEF LinkInv, Wanted, ctl
<1>b. ASSUME NEW ms \in Buffer, tcp' = SendData(tcp, ms) PROVE tcp'.connected /\ tcp'.timers = tcp.timers
  BY <1>0, <1>b, SendIs
<1>1. CASE OnEnd
  <2>1. irc'.caps = irc.caps /\ irc'.lookup = irc.lookup /\ irc'.welcomed = irc.welcomed
    BY <1>0, <1>1 DEF OnEnd, OnClose, IrcType
  <2> QED BY <1>0, <1>1, <2>1, LinkClose DEF OnEnd, OnClose
<1>2. CASE OnTlsActivated
  <2>1. tcp'.connected /\ tcp'.timers = tcp.timers
    BY <1>0, <1>2 DEF OnTlsActivated, SendData, TcpType
  <2> QED BY <1>0, <1>2, <1>a, <2>1 DEF OnTlsActivated
<1>3. CASE OnCap
  <2> PICK cap \in {"multi-prefix", "sasl"}, sub \in {"ACK", "NAK"} : OnCap!(cap, sub)
    BY <1>3, Zenon DEF OnCap
  <2> DEFINE i == [irc EXCEPT !.caps = irc.caps \ {cap}]
             ends == cap \in irc.caps /\ i.caps = {} /\ MayEnd(i)
             auth == IF cap \in irc.caps /\ cap = "sasl" /\ sub = "ACK" THEN <<"PLAIN">> ELSE <<>>
             end == IF ends THEN <<"CAP_END">> ELSE <<>>
  <2>1. irc'.caps = irc.caps \ {cap} /\ irc'.lookup = irc.lookup /\ irc'.welcomed = irc.welcomed
    BY <1>0 DEF EndNow, IrcType
  <2>2. auth \o end \in Buffer
    BY Writes, Zenon
  <2>3. tcp'.connected /\ tcp'.timers = tcp.timers
    BY <1>b, <2>2, Zenon
  <2> QED BY <1>a, <2>1, <2>3, Zenon
<1>4. CASE OnAuthenticate
  <2>1. tcp'.connected /\ tcp'.timers = tcp.timers
    BY <1>0, <1>4, <1>b, Writes DEF OnAuthenticate
  <2> QED BY <1>0, <1>4, <1>a, <2>1 DEF OnAuthenticate
<1>5. CASE OnSaslSuccess
  <2>1. tcp'.connected /\ tcp'.timers = tcp.timers
    BY <1>0, <1>5, <1>b, Writes DEF OnSaslSuccess
  <2>2. irc'.caps = irc.caps /\ irc'.lookup = irc.lookup /\ irc'.welcomed = irc.welcomed
    BY <1>0, <1>5 DEF OnSaslSuccess, EndNow, IrcType
  <2> QED BY <1>5, <1>a, <2>1, <2>2 DEF OnSaslSuccess
<1>6. CASE OnSaslFailure
  <2>1. tcp'.connected /\ tcp'.timers = tcp.timers
    BY <1>0, <1>6, <1>b, Writes DEF OnSaslFailure
  <2>2. irc'.caps = irc.caps /\ irc'.lookup = irc.lookup /\ irc'.welcomed = irc.welcomed
    BY <1>0, <1>6 DEF OnSaslFailure, TellError, IrcType
  <2> QED BY <1>6, <1>a, <2>1, <2>2 DEF OnSaslFailure
<1>7. CASE OnNicknameConflict
  BY <1>0, <1>7, <1>a DEF OnNicknameConflict
<1>8. CASE OnWelcome
  <2>1. tcp'.connected /\ tcp'.timers = tcp.timers
    BY <1>0, <1>8, <1>b, Writes DEF OnWelcome
  <2>2. irc'.caps = irc.caps /\ irc'.lookup = irc.lookup
    BY <1>0, <1>8 DEF OnWelcome, IrcType
  <2>3. ~Hidden(conf)
    <3>1. Has(net.reply, Lines)
      <4>1. net.reply # <<>> /\ Head(net.reply) \in Lines
        BY <1>8 DEF OnWelcome, Receives, Lines
      <4> QED BY <1>0, <4>1, HasTail DEF NetType, Replied
    <3> QED BY <1>0, <3>1 DEF NegInv, TalkInv, EarlyInv, Greeted
  <2> QED BY <1>8, <1>a, <2>1, <2>2, <2>3 DEF OnWelcome
<1> QED BY <1>1, <1>2, <1>3, <1>4, <1>5, <1>6, <1>7, <1>8, SMTT(20) DEF Receive

\* Every step keeps the order of the connection.
LEMMA LinkStep ==
  ASSUME NegInv, NegType', [Next]_vars
  PROVE  LinkInv'
<1>0. tcp \in TcpType /\ dns \in DnsType /\ irc \in IrcType /\ net \in NetType /\ conf \in ConfType /\ LinkInv
  BY DEF NegInv, NegType, SockType
<1>1. CASE Chain
  BY <1>1, LinkChain
<1>2. CASE DnsAnswer
  <2>1. PICK q \in dns.queries, n \in 0..1 : DnsAnswer!2!(q, n)
    BY <1>2, Zenon DEF DnsAnswer
  <2> DEFINE left == dns.queries \ {q}
  <2>2. dns'.resolved = (left = {}) /\ dns'.queries = left
    BY <1>0, <2>1 DEF DnsType
  <2>3. ~tcp.connected /\ ~tcp.connecting /\ ~irc.welcomed
    BY <1>0, <2>1 DEF LinkInv
  <2> QED BY <1>0, <1>2, <2>1, <2>2, <2>3, Zenon DEF DnsAnswer, LinkInv, Wanted
<1>3. CASE Timeout
  <2>1. ~irc.welcomed
    BY <1>0, <1>3, SMTT(20) DEF Timeout, LinkInv, TcpType
  <2> QED BY <1>3, <2>1, LinkClose, Zenon DEF Timeout
<1>4. CASE PollConnect
  BY <1>0, <1>4, Zenon DEF PollConnect, LinkInv, Wanted
<1>5. CASE OnSend
  <2>1. tcp'.connected = tcp.connected /\ tcp'.timers = tcp.timers
    BY <1>0, <1>5, Zenon DEF OnSend, TcpType
  <2> QED BY <1>0, <1>5, <2>1, Zenon DEF OnSend, LinkInv, Wanted, ctl
<1>6. CASE SendFails
  <2>1. irc'.caps = irc.caps /\ irc'.lookup = irc.lookup /\ irc'.welcomed = irc.welcomed
    BY <1>0, <1>6, Zenon DEF SendFails, OnClose, IrcType
  <2> QED BY <1>6, <2>1, LinkClose DEF SendFails, OnClose, Idle
<1>7. CASE Receive
  BY <1>7, LinkReceive
<1>8. CASE LookupAnswer
  <2>1. irc'.caps = irc.caps /\ ~irc'.lookup /\ irc'.welcomed = irc.welcomed
    BY <1>0, <1>8, Zenon DEF LookupAnswer, IrcType
  <2>2. ~irc.welcomed /\ conf'.password = conf.password
    BY <1>0, <1>8 DEF LookupAnswer, LinkInv, ConfType
  <2>3. /\ tcp'.connected = tcp.connected /\ tcp'.timers = tcp.timers /\ tcp'.connecting = tcp.connecting
        /\ ~tcp.connected => tcp' = tcp
    <3>1. tcp' = tcp \/ (tcp.connected /\ tcp' = SendData(tcp, <<"QUIT">>))
      BY <1>8 DEF LookupAnswer
    <3>2. ASSUME tcp' = SendData(tcp, <<"QUIT">>)
          PROVE  /\ tcp'.connected = tcp.connected /\ tcp'.timers = tcp.timers
                 /\ tcp'.connecting = tcp.connecting
      <4>1. <<"QUIT">> \in Buffer
        BY Writes
      <4> QED BY <1>0, <3>2, <4>1, SendIs
    <3> QED BY <3>1, <3>2
  <2>4. pc = "idle" /\ pc' \in {"idle", "connected"} /\ (pc' = "connected" => tcp.connected) /\ UNCHANGED <<dns, net>>
    BY <1>8 DEF LookupAnswer, Idle
  <2> QED BY <1>0, <2>1, <2>2, <2>3, <2>4 DEF LinkInv, Wanted
<1>9. CASE Rejoin
  <2>1. irc'.caps = irc.caps /\ irc'.lookup = irc.lookup /\ irc'.welcomed = irc.welcomed
    BY <1>0, <1>9, Zenon DEF Rejoin, IrcType
  <2> QED BY <1>0, <1>9, <2>1 DEF Rejoin, LinkInv, Wanted
<1>10. CASE Clean
  BY <1>0, <1>10 DEF Clean, LinkInv, Wanted
<1>11. CASE DisconnectUserFromServer
  <2>1. irc'.caps = irc.caps /\ irc'.lookup = irc.lookup /\ irc'.welcomed = irc.welcomed
    BY <1>0, <1>11, ZenonT(30) DEF DisconnectUserFromServer, IrcType
  <2> QED BY <1>11, <2>1, LinkClose DEF DisconnectUserFromServer, Idle
<1>12. CASE NewClient
  BY <1>12 DEF NewClient, LinkInv, FreshTcp, NoResolution, FreshIrc, NoNet
<1>13. CASE ServerReads \/ ServerWelcomes \/ ServerCloses
  <2>1. tcp.connected
    <3>1. net.up /\ ~NoNet.up
      BY <1>13, Zenon DEF ServerReads, ServerWelcomes, ServerCloses, NoNet
    <3> QED BY <1>0, <3>1 DEF LinkInv
  <2> QED BY <1>0, <1>13, <2>1, ZenonT(30) DEF ServerReads, ServerWelcomes, ServerCloses, LinkInv, Wanted, ctl
<1>14. CASE UNCHANGED vars
  BY <1>0, <1>14, Zenon DEF vars, LinkInv, Wanted
<1> QED BY <1>1, <1>2, <1>3, <1>4, <1>5, <1>6, <1>7, <1>8, <1>9, <1>10, <1>11, <1>12, <1>13,
           <1>14, Zenon DEF Next

\* Three buffers after each other.
LEMMA Joined == \A a, b, c \in Buffer : (a \o b) \o c = a \o (b \o c)
<1> SUFFICES ASSUME NEW a \in Buffer, NEW b \in Buffer, NEW c \in Buffer PROVE (a \o b) \o c = a \o (b \o c)
  BY SMTT(20)
<1> QED BY Assoc DEF Buffer

\* What is sent ends up behind what was sent before.
LEMMA StreamSend ==
  ASSUME NEW t \in TcpType, NEW n \in NetType, NEW ms \in Buffer, NEW u, u = SendData(t, ms)
  PROVE  /\ Stream(u, n) = Stream(t, n) \o ms /\ Stream(t, n) \in Buffer /\ Written(t, n) \in Buffer
         /\ Unsent(t) => Written(u, n) = Written(t, n)
         /\ ~Unsent(t) => Written(u, n) = Written(t, n) \o ms
<1>0. n.wire \in Buffer /\ t.out \in Buffer /\ t.pre \in Buffer /\ Written(t, n) \in Buffer
  BY Buffers, Zenon DEF NetType, TcpType, Written
<1>1. Stream(t, n) \in Buffer
  BY <1>0, Buffers, Zenon DEF Stream
<1>2. CASE Unsent(t)
  <2>1. u.out = t.out /\ u.pre = t.pre \o ms /\ Unsent(u)
    BY <1>2, SendIs DEF Unsent
  <2>2. (Written(t, n) \o t.pre) \o ms = Written(t, n) \o (t.pre \o ms)
    BY ONLY <1>0, Joined, ms \in Buffer, ZenonT(30)
  <2> QED BY <1>0, <1>1, <1>2, <2>1, <2>2, Zenon DEF Stream, Written
<1>3. CASE ~Unsent(t)
  <2>1. u.out = t.out \o ms /\ ~Unsent(u)
    BY <1>3, SendIs DEF Unsent
  <2>2. (n.wire \o t.out) \o ms = n.wire \o (t.out \o ms)
    BY ONLY <1>0, Joined, ms \in Buffer, ZenonT(30)
  <2>3. \A b \in Buffer : b \o <<>> = b
    BY DEF Buffer
  <2>4. Written(u, n) = Written(t, n) \o ms
    BY <2>1, <2>2 DEF Written
  <2>5. Written(u, n) \in Buffer
    BY <1>0, <2>4, Buffers
  <2>6. Stream(t, n) = Written(t, n) /\ Stream(u, n) = Written(u, n)
    BY <1>0, <1>3, <2>1, <2>3, <2>5 DEF Stream
  <2> QED BY <1>0, <1>1, <1>3, <2>4, <2>6
<1> QED BY <1>2, <1>3

\* What the server reads is the first line of what was sent.
LEMMA StreamRead ==
  ASSUME NEW t \in TcpType, NEW n \in NetType, NEW k \in NetType, n.wire # <<>>, k.wire = Tail(n.wire)
  PROVE  /\ Stream(t, n) \in Buffer /\ Written(t, n) \in Buffer
         /\ Stream(t, n) # <<>> /\ Written(t, n) # <<>>
         /\ Stream(t, k) = Tail(Stream(t, n)) /\ Head(Stream(t, n)) = Head(n.wire)
         /\ Written(t, k) = Tail(Written(t, n)) /\ Head(Written(t, n)) = Head(n.wire)
<1>1. ASSUME NEW a \in Buffer, NEW b \in Buffer, a # <<>>
      PROVE  /\ a \o b \in Buffer /\ a \o b # <<>> /\ Tail(a \o b) = Tail(a) \o b
             /\ Head(a \o b) = Head(a)
  BY <1>1 DEF Buffer
<1>2. n.wire \in Buffer /\ t.out \in Buffer /\ t.pre \in Buffer /\ <<>> \in Buffer
  BY Buffers DEF NetType, TcpType
<1>3. /\ Written(t, n) \in Buffer /\ Written(t, n) # <<>> /\ Head(Written(t, n)) = Head(n.wire)
      /\ Written(t, k) = Tail(Written(t, n))
  BY <1>1, <1>2, Zenon DEF Written
<1> DEFINE h == IF Unsent(t) THEN t.pre ELSE <<>>
<1>4. h \in Buffer /\ Stream(t, n) = Written(t, n) \o h /\ Stream(t, k) = Written(t, k) \o h
  BY <1>2 DEF Stream
<1> HIDE DEF h
<1> QED BY <1>1, <1>3, <1>4, SMTT(20)

\* A line of IRC is received only when TLS is over, and on_connected() has greeted.
LEMMA LineMeans ==
  ASSUME NegInv, NEW m \in Lines, Receives(m)
  PROVE  ~Unsent(tcp) /\ Greeted /\ tcp.connected /\ net.reply # <<>> /\ net.reply \in Replied /\ pc = "idle"
<1>1. net.reply # <<>> /\ Head(net.reply) = m /\ tcp.connected /\ pc = "idle"
  BY DEF Receives, Idle
<1>2. net.reply \in Replied
  BY Zenon DEF NegInv, NegType, NetType
<1>3. Has(net.reply, Lines)
  BY <1>1, <1>2, HasTail, Zenon DEF Replied
<1> QED BY <1>1, <1>2, <1>3, Zenon DEF NegInv, HelloInv, TalkInv, EarlyInv, Greeted

\* A line was taken and answered: what became of the two streams.
LEMMA LineTaken ==
  ASSUME NegInv, NEW m \in Lines, Receives(m), Taken, NEW ms \in Buffer,
         tcp' = SendData(tcp, ms) \/ (tcp' = tcp /\ ms = <<>>),
         ~Has(ms, {"hello"}), UNCHANGED <<ctl, dns, conf>>
  PROVE  /\ HeldInv(tcp'.pre, conf') /\ HelloInv(tcp', net') /\ Greeted /\ Greeted' /\ tcp'.connected
         /\ net'.reply = Tail(net.reply) /\ net'.neg = net.neg /\ net'.reg = net.reg /\ net'.done = net.done
         /\ Stream(tcp, net) \in Buffer /\ net.reply \in Replied /\ net.reply # <<>>
         /\ Stream(tcp', net') = Stream(tcp, net) \o ms
<1>0. tcp \in TcpType /\ net \in NetType /\ ~Unsent(tcp) /\ Greeted /\ net.reply # <<>> /\ net.reply \in Replied
      /\ tcp.connected
  BY LineMeans, Zenon DEF NegInv, NegType, SockType
<1>1. /\ net'.reply = Tail(net.reply) /\ net'.neg = net.neg /\ net'.reg = net.reg /\ net'.done = net.done
      /\ net'.wire = net.wire
  BY <1>0 DEF Taken, NetType
<1>2. /\ tcp'.connected /\ tcp'.use_tls = tcp.use_tls /\ tcp'.tls = tcp.tls /\ tcp'.pre = tcp.pre
      /\ tcp'.out = tcp.out \o ms
  <2>1. CASE tcp' = SendData(tcp, ms)
    BY <1>0, <2>1, SendIs, SMTT(20)
  <2>2. CASE tcp' = tcp /\ ms = <<>>
    <3>1. tcp.out \o <<>> = tcp.out
      BY <1>0 DEF TcpType, Buffer
    <3> QED BY <1>0, <2>2, <3>1, Zenon
  <2> QED BY <2>1, <2>2, Zenon
<1>3. Stream(tcp', net') = Stream(tcp', net) /\ Written(tcp', net') = Written(tcp', net)
  BY <1>1 DEF Stream, Written
<1>4. Stream(tcp, net) \in Buffer /\ Stream(tcp', net') = Stream(tcp, net) \o ms
      /\ Written(tcp, net) \in Buffer /\ Written(tcp', net') = Written(tcp, net) \o ms
  <2>1. Stream(SendData(tcp, ms), net) = Stream(tcp, net) \o ms
        /\ Written(SendData(tcp, ms), net) = Written(tcp, net) \o ms
        /\ Stream(tcp, net) \in Buffer /\ Written(tcp, net) \in Buffer
    BY <1>0, StreamSend
  <2>2. Stream(tcp, net) \o <<>> = Stream(tcp, net) /\ Written(tcp, net) \o <<>> = Written(tcp, net)
    BY <2>1 DEF Buffer
  <2> QED BY <1>3, <2>1, <2>2, Zenon
<1>5. HeldInv(tcp'.pre, conf')
  BY <1>2, Zenon DEF NegInv, HeldInv, Hidden
<1>6. Greeted'
  BY <1>0, <1>2, ZenonT(30) DEF Greeted, ctl, Hidden
<1>7. ~Unsent(tcp')
  BY <1>0, <1>2 DEF Unsent
<1>8. ~Has(Written(tcp, net), {"hello"}) => ~Has(Written(tcp', net'), {"hello"})
  <2> DEFINE H == {"hello"}
             w == Written(tcp, net)
  <2>1. w \in Buffer /\ ms \in Buffer /\ ~Has(ms, H) /\ Written(tcp', net') = w \o ms
    BY <1>4, Zenon
  <2> HIDE DEF H, w
  <2>2. ~Has(w, H) => ~Has(w \o ms, H)
    BY ONLY <2>1, BufferHas, Zenon
  <2> QED BY ONLY <2>1, <2>2, Zenon DEF H, w
<1>9. ~Has(net.reply, {<<"tls">>}) => ~Has(net'.reply, {<<"tls">>})
  BY <1>0, <1>1, HasTail, Zenon DEF Replied
<1>10. HelloInv(tcp, net)
  BY <1>0, Zenon DEF NegInv
<1>11. HelloInv(tcp', net')
  BY <1>2, <1>7, <1>8, <1>9, <1>10, Zenon DEF HelloInv
<1> QED BY <1>0, <1>1, <1>2, <1>4, <1>5, <1>6, <1>11, Zenon

\* Everything that TalkInv says of a client that was greeted.
LEMMA TalkIs ==
  ASSUME NegInv, Greeted
  PROVE  Talk(conf.password, conf.kind, Stream(tcp, net), net.reply, irc.caps, irc.sasl, irc.ends) /\ Serving
         /\ conf.password \in BOOLEAN
  BY DEF NegInv, NegType, ConfType, TalkInv, Talking

\* What is to be shown of a client that was greeted.
LEMMA TalkFrom ==
  ASSUME Greeted', Talking', Serving', irc'.ends \in {0, 1},
         conf'.password /\ conf'.kind # "nocap" /\ irc'.welcomed => irc'.sasl = "success"
  PROVE  TalkInv'
  BY SMTT(20) DEF TalkInv

\* on_cap(): a capability less, PLAIN for sasl, CAP END when none is left.
LEMMA TalkOnCap ==
  ASSUME NegInv, OnCap
  PROVE  HeldInv(tcp'.pre, conf') /\ HelloInv(tcp', net') /\ TalkInv'
<1>1. PICK cap \in {"multi-prefix", "sasl"}, sub \in {"ACK", "NAK"} : OnCap!(cap, sub)
  BY Zenon DEF OnCap
<1> DEFINE i == [irc EXCEPT !.caps = irc.caps \ {cap}]
           ends == cap \in irc.caps /\ i.caps = {} /\ MayEnd(i)
           auth == IF cap \in irc.caps /\ cap = "sasl" /\ sub = "ACK" THEN <<"PLAIN">> ELSE <<>>
           end == IF ends THEN <<"CAP_END">> ELSE <<>>
           left == irc.caps \ {cap}
           s == Stream(tcp, net)
<1>2. /\ <<sub, cap>> \in Lines /\ <<sub, cap>> \in About(cap)
      /\ Receives(<<sub, cap>>) /\ Taken /\ tcp' = SendData(tcp, auth \o end) /\ UNCHANGED <<ctl, dns, conf>>
  BY <1>1 DEF Lines, About
<1>3. irc \in IrcType /\ conf \in ConfType
  BY DEF NegInv, NegType, SockType
<1>4. ends <=> cap \in irc.caps /\ left = {} /\ irc.sasl # "needed"
  BY <1>3 DEF MayEnd, IrcType
<1>5. /\ irc'.caps = left /\ irc'.sasl = irc.sasl /\ irc'.welcomed = irc.welcomed
      /\ irc'.ends = IF ends THEN irc.ends + 1 ELSE irc.ends
  BY <1>1, <1>3 DEF EndNow, IrcType
<1>6. auth \o end \in Buffer /\ ~Has(auth \o end, {"hello"})
  <2>1. auth \in Buffer /\ end \in Buffer /\ ~Has(auth, {"hello"}) /\ ~Has(end, {"hello"}) /\ auth \o end \in Buffer
    BY Writes, Buffers, HasOne, Zenon
  <2> QED BY <2>1, HasConcat, Zenon DEF Buffer
<1>7. /\ HeldInv(tcp'.pre, conf') /\ HelloInv(tcp', net') /\ Greeted /\ Greeted'
      /\ net'.reply = Tail(net.reply) /\ net'.neg = net.neg /\ net'.reg = net.reg /\ net'.done = net.done
      /\ s \in Buffer /\ net.reply \in Replied /\ net.reply # <<>>
      /\ Stream(tcp', net') = s \o (auth \o end)
  BY <1>2, <1>6, LineTaken, Zenon
<1>8. Talk(conf.password, conf.kind, s, net.reply, irc.caps, irc.sasl, irc.ends) /\ Serving
      /\ conf.password \in BOOLEAN
  BY <1>7, TalkIs, Zenon
<1>9. Head(net.reply) \in About(cap)
  BY <1>2, Zenon DEF Receives
<1> HIDE DEF left, ends, s
<1>10. /\ cap \in irc.caps /\ cap = "sasl" =>
            irc.sasl = "needed" /\ Talk(conf.password, conf.kind, s \o <<"PLAIN">>, Tail(net.reply), left, irc.sasl, irc.ends)
       /\ ~ends => Talk(conf.password, conf.kind, s, Tail(net.reply), left, irc.sasl, irc.ends)
       /\ ends => ~conf.password /\ irc.ends = 0
                  /\ Talk(conf.password, conf.kind, s \o <<"CAP_END">>, Tail(net.reply), left, irc.sasl, 1)
  <2>0. left = irc.caps \ {cap}
    BY DEF left
  <2> HIDE DEF auth, end, i
  <2>1. s \in Buffer /\ net.reply \in Replied /\ net.reply # <<>>
    BY <1>7, Zenon
  <2>2. AfterCap(conf.password, conf.kind, s, net.reply, irc.caps, irc.sasl, irc.ends, cap)
    BY <1>8, <1>9, <2>1, TalkAfterCap, ZenonT(30)
  <2> QED BY <1>4, <2>0, <2>2, ZenonT(30) DEF AfterCap
<1>11. <<>> \o <<>> = <<>> /\ <<"PLAIN">> \o <<>> = <<"PLAIN">> /\ <<>> \o <<"CAP_END">> = <<"CAP_END">>
       /\ s \o <<>> = s
  <2>1. \A b \in Buffer : b \o <<>> = b /\ <<>> \o b = b
    BY DEF Buffer
  <2>2. <<>> \in Buffer /\ <<"PLAIN">> \in Buffer /\ <<"CAP_END">> \in Buffer
    BY Buffers, Writes, ZenonT(30)
  <2> QED BY <1>7, <2>1, <2>2, Zenon
<1>12. Unserved(s, net.reply, net.neg, net.reg, net.done) =>
         /\ Unserved(s, Tail(net.reply), net.neg, net.reg, net.done)
         /\ Unserved(s \o <<"PLAIN">>, Tail(net.reply), net.neg, net.reg, net.done)
  <2>1. "PLAIN" \in Messages \ {"CAP_END", "register"}
    BY DEF Messages
  <2> QED BY <1>7, <2>1, UnservedTakes, UnservedGrows, Zenon
<1>13. Serving <=> (conf.password /\ conf.kind # "nocap" /\ irc.sasl # "success" =>
                      Unserved(s, net.reply, net.neg, net.reg, net.done))
  BY Zenon DEF Serving, s
<1>14. ASSUME NEW t, Stream(tcp', net') = t, ends => ~conf.password,
              Unserved(s, net.reply, net.neg, net.reg, net.done) /\ ~ends =>
                Unserved(t, Tail(net.reply), net.neg, net.reg, net.done),
              Talk(conf.password, conf.kind, t, Tail(net.reply), left, irc.sasl, irc'.ends), irc'.ends \in {0, 1}
       PROVE  TalkInv'
  <2>1. Talking'
    BY <1>2, <1>5, <1>7, <1>14, Zenon DEF Talking
  <2>2. Serving'
    BY <1>2, <1>5, <1>7, <1>8, <1>13, <1>14, Zenon DEF Serving
  <2>3. conf.password /\ conf.kind # "nocap" /\ irc.welcomed => irc.sasl = "success"
    BY Zenon DEF NegInv, TalkInv
  <2> QED BY <1>2, <1>5, <1>7, <1>14, <2>1, <2>2, <2>3, TalkFrom, Zenon
<1>15. irc.ends \in {0, 1}
  BY <1>8, Zenon DEF Talk
<1>16. CASE ends
  <2>1. auth \o end = <<"CAP_END">>
    BY <1>4, <1>10, <1>11, <1>16, Zenon
  <2>2. irc'.ends = 1
    BY <1>5, <1>10, <1>16
  <2> QED BY <1>7, <1>10, <1>14, <1>16, <2>1, <2>2, Zenon
<1>17. CASE ~ends /\ auth = <<"PLAIN">>
  <2>1. auth \o end = <<"PLAIN">> /\ cap \in irc.caps /\ cap = "sasl"
    BY <1>11, <1>17, Zenon
  <2> QED BY <1>5, <1>7, <1>10, <1>12, <1>14, <1>15, <1>17, <2>1, Zenon
<1>18. CASE ~ends /\ auth = <<>>
  <2>1. auth \o end = <<>>
    BY <1>11, <1>18, Zenon
  <2> QED BY <1>5, <1>7, <1>10, <1>11, <1>12, <1>14, <1>15, <1>18, <2>1, Zenon
<1> QED BY <1>7, <1>16, <1>17, <1>18, Zenon

\* A line was taken and answered: what is left to show about the negotiation.
LEMMA Heard ==
  ASSUME NegInv, NEW m \in Lines, Receives(m), Taken, NEW ms \in Buffer,
         tcp' = SendData(tcp, ms) \/ (tcp' = tcp /\ ms = <<>>),
         ~Has(ms, {"hello"}), UNCHANGED <<ctl, dns, conf>>,
         Talk(conf.password, conf.kind, Stream(tcp, net) \o ms, Tail(net.reply), irc'.caps, irc'.sasl, irc'.ends),
         conf.password /\ conf.kind # "nocap" /\ irc'.sasl # "success" =>
           Unserved(Stream(tcp, net) \o ms, Tail(net.reply), net.neg, net.reg, net.done),
         conf.password /\ conf.kind # "nocap" /\ irc'.welcomed => irc'.sasl = "success"
  PROVE  HeldInv(tcp'.pre, conf') /\ HelloInv(tcp', net') /\ TalkInv'
<1>1. /\ HeldInv(tcp'.pre, conf') /\ HelloInv(tcp', net') /\ Greeted /\ Greeted'
      /\ net'.reply = Tail(net.reply) /\ net'.neg = net.neg /\ net'.reg = net.reg /\ net'.done = net.done
      /\ Stream(tcp', net') = Stream(tcp, net) \o ms
  BY LineTaken, Zenon
<1>2. conf.password \in BOOLEAN
  BY <1>1, TalkIs, Zenon
<1>3. irc'.ends \in {0, 1}
  BY <1>2, Zenon DEF Talk
<1>4. Talking'
  BY <1>1, Zenon DEF Talking
<1>5. Serving'
  BY <1>1, Zenon DEF Serving
<1> QED BY <1>1, <1>3, <1>4, <1>5, TalkFrom, Zenon

\* What is known when a line is received.
LEMMA Hears ==
  ASSUME NegInv, NEW m \in Lines, Receives(m)
  PROVE  /\ Talk(conf.password, conf.kind, Stream(tcp, net), net.reply, irc.caps, irc.sasl, irc.ends)
         /\ conf.password \in BOOLEAN /\ net.reply \in Replied /\ net.reply # <<>> /\ Head(net.reply) = m
         /\ Stream(tcp, net) \in Buffer /\ Stream(tcp, net) \o <<>> = Stream(tcp, net)
         /\ conf.password /\ conf.kind # "nocap" /\ irc.sasl # "success" =>
              Unserved(Stream(tcp, net), net.reply, net.neg, net.reg, net.done)
         /\ conf.password /\ conf.kind # "nocap" /\ irc.welcomed => irc.sasl = "success"
         /\ irc \in IrcType
<1>1. Greeted /\ net.reply # <<>> /\ net.reply \in Replied
  BY LineMeans
<1>2. tcp \in TcpType /\ net \in NetType /\ irc \in IrcType
  BY DEF NegInv, NegType, SockType
<1>3. Stream(tcp, net) \in Buffer
  BY <1>2, Buffers, StreamSend
<1>4. Stream(tcp, net) \o <<>> = Stream(tcp, net)
  BY <1>3 DEF Buffer
<1>5. Head(net.reply) = m
  BY DEF Receives
<1>6. conf.password /\ conf.kind # "nocap" /\ irc.welcomed => irc.sasl = "success"
  BY Zenon DEF NegInv, TalkInv
<1> QED BY <1>1, <1>2, <1>3, <1>4, <1>5, <1>6, TalkIs, Zenon DEF Serving

\* on_authenticate() sends the credentials, once.
LEMMA TalkOnAuthenticate ==
  ASSUME NegInv, OnAuthenticate
  PROVE  HeldInv(tcp'.pre, conf') /\ HelloInv(tcp', net') /\ TalkInv'
<1> DEFINE s == Stream(tcp, net)
           m == <<"AUTHENTICATE">>
<1>1. m \in Lines /\ Receives(m) /\ Taken /\ UNCHANGED <<ctl, dns, irc, conf>>
  BY Zenon DEF OnAuthenticate, Lines
<1>2. /\ Talk(conf.password, conf.kind, s, net.reply, irc.caps, irc.sasl, irc.ends)
      /\ conf.password \in BOOLEAN /\ net.reply \in Replied /\ net.reply # <<>> /\ Head(net.reply) = m
      /\ s \in Buffer
      /\ conf.password /\ conf.kind # "nocap" /\ irc.sasl # "success" =>
           Unserved(s, net.reply, net.neg, net.reg, net.done)
      /\ conf.password /\ conf.kind # "nocap" /\ irc.welcomed => irc.sasl = "success"
  BY <1>1, Hears, Zenon
<1> HIDE DEF s
<1>3. /\ Talk(conf.password, conf.kind, s \o <<"credentials">>, Tail(net.reply), irc.caps, irc.sasl, irc.ends)
      /\ irc.sasl = "needed"
  BY <1>2, TalkAuthenticate, ZenonT(30)
<1>4. <<"credentials">> \in Buffer /\ ~Has(<<"credentials">>, {"hello"})
      /\ "credentials" \in Messages \ {"CAP_END", "register"}
  BY Writes, HasOne DEF Messages
<1>5. tcp' = SendData(tcp, <<"credentials">>)
  BY <1>3 DEF OnAuthenticate
<1>6. Unserved(s, net.reply, net.neg, net.reg, net.done) =>
        Unserved(s \o <<"credentials">>, Tail(net.reply), net.neg, net.reg, net.done)
  BY <1>2, <1>4, UnservedTakes, UnservedGrows
<1> QED BY <1>1, <1>2, <1>3, <1>4, <1>5, <1>6, Heard, Zenon DEF s

\* The authentication succeeded or failed.
LEMMA TalkOnSasl ==
  ASSUME NegInv, OnSaslSuccess \/ OnSaslFailure
  PROVE  HeldInv(tcp'.pre, conf') /\ HelloInv(tcp', net') /\ TalkInv'
<1> DEFINE s == Stream(tcp, net)
<1>1. PICK m \in {<<"903">>, <<"904">>} :
        /\ Receives(m) /\ Taken /\ UNCHANGED <<ctl, dns, conf>>
        /\ \/ m = <<"903">> /\ OnSaslSuccess
           \/ m = <<"904">> /\ OnSaslFailure
  BY DEF OnSaslSuccess, OnSaslFailure
<1>2. m \in Lines
  BY Zenon DEF Lines
<1>3. /\ Talk(conf.password, conf.kind, s, net.reply, irc.caps, irc.sasl, irc.ends)
      /\ conf.password \in BOOLEAN /\ net.reply \in Replied /\ net.reply # <<>> /\ Head(net.reply) = m
      /\ s \in Buffer
      /\ conf.password /\ conf.kind # "nocap" /\ irc.sasl # "success" =>
           Unserved(s, net.reply, net.neg, net.reg, net.done)
      /\ conf.password /\ conf.kind # "nocap" /\ irc.welcomed => irc.sasl = "success"
      /\ irc \in IrcType
  BY <1>1, <1>2, Hears, Zenon
<1> HIDE DEF s
<1>4. /\ irc.sasl = "needed" /\ irc.ends = 0
      /\ Talk(conf.password, conf.kind, s \o <<"CAP_END">>, Tail(net.reply), irc.caps, "success", 1)
      /\ Talk(conf.password, conf.kind, s \o <<"QUIT">>, Tail(net.reply), irc.caps, "failure", 0)
  BY <1>3, TalkDecided, ZenonT(30)
<1>5. <<"CAP_END">> \in Buffer /\ <<"QUIT">> \in Buffer
      /\ ~Has(<<"CAP_END">>, {"hello"}) /\ ~Has(<<"QUIT">>, {"hello"})
      /\ "QUIT" \in Messages \ {"CAP_END", "register"}
  BY Writes, HasOne DEF Messages
<1>6. CASE m = <<"903">> /\ OnSaslSuccess
  <2>1. irc' = [irc EXCEPT !.sasl = "success", !.ends = irc.ends + 1] /\ tcp' = SendData(tcp, <<"CAP_END">>)
    BY <1>3, <1>6 DEF OnSaslSuccess, EndNow, IrcType
  <2>2. irc'.caps = irc.caps /\ irc'.sasl = "success" /\ irc'.ends = 1
    BY <1>3, <1>4, <2>1, SMTT(20) DEF IrcType
  <2> QED BY <1>1, <1>2, <1>4, <1>5, <2>1, <2>2, Heard DEF s
<1>7. CASE m = <<"904">> /\ OnSaslFailure
  <2>1. tcp' = SendData(tcp, <<"QUIT">>)
    BY <1>7 DEF OnSaslFailure
  <2>2. irc'.caps = irc.caps /\ irc'.sasl = "failure" /\ irc'.ends = 0 /\ irc'.welcomed = irc.welcomed
    BY <1>3, <1>4, <1>7, Zenon DEF OnSaslFailure, TellError, IrcType
  <2>3. Unserved(s, net.reply, net.neg, net.reg, net.done) =>
          Unserved(s \o <<"QUIT">>, Tail(net.reply), net.neg, net.reg, net.done)
    BY <1>3, <1>5, UnservedTakes, UnservedGrows, Zenon
  <2> QED BY <1>1, <1>2, <1>3, <1>4, <1>5, <2>1, <2>2, <2>3, Heard, Zenon DEF s
<1> QED BY <1>1, <1>6, <1>7

\* A line that says nothing about the negotiation, answered or not by a JOIN.
LEMMA TalkOnOther ==
  ASSUME NegInv, OnNicknameConflict \/ OnWelcome
  PROVE  HeldInv(tcp'.pre, conf') /\ HelloInv(tcp', net') /\ TalkInv'
<1> DEFINE s == Stream(tcp, net)
<1>1. PICK m \in {<<"433">>, <<"001">>} :
        /\ Receives(m) /\ Taken /\ UNCHANGED <<ctl, dns, conf>>
        /\ \/ m = <<"433">> /\ OnNicknameConflict
           \/ m = <<"001">> /\ OnWelcome
  BY DEF OnNicknameConflict, OnWelcome
<1>2. m \in Lines /\ m \notin About("multi-prefix")
  BY SMTT(20) DEF Lines, About
<1>3. /\ Talk(conf.password, conf.kind, s, net.reply, irc.caps, irc.sasl, irc.ends)
      /\ conf.password \in BOOLEAN /\ net.reply \in Replied /\ net.reply # <<>> /\ Head(net.reply) = m
      /\ s \in Buffer /\ s \o <<>> = s
      /\ conf.password /\ conf.kind # "nocap" /\ irc.sasl # "success" =>
           Unserved(s, net.reply, net.neg, net.reg, net.done)
      /\ conf.password /\ conf.kind # "nocap" /\ irc.welcomed => irc.sasl = "success"
      /\ irc \in IrcType
  BY <1>1, <1>2, Hears, Zenon
<1> HIDE DEF s
<1>4. PICK ms \in {<<>>, <<"JOIN">>} : tcp' = SendData(tcp, ms) \/ (tcp' = tcp /\ ms = <<>>)
  BY <1>1, Zenon DEF OnNicknameConflict, OnWelcome
<1>5. /\ irc'.caps = irc.caps /\ irc'.sasl = irc.sasl /\ irc'.ends = irc.ends
      /\ m = <<"433">> => irc'.welcomed = irc.welcomed
  <2>1. CASE m = <<"433">> /\ OnNicknameConflict
    BY <2>1 DEF OnNicknameConflict
  <2>2. CASE m = <<"001">> /\ OnWelcome
    <3>1. m # <<"433">>
      BY ONLY <2>2
    <3>2. irc'.caps = irc.caps /\ irc'.sasl = irc.sasl /\ irc'.ends = irc.ends
      BY <1>3, <2>2, Zenon DEF OnWelcome, IrcType
    <3> QED BY <3>1, <3>2
  <2> QED BY <1>1, <2>1, <2>2
<1>6. Talk(conf.password, conf.kind, s, Tail(net.reply), irc.caps, irc.sasl, irc.ends)
      /\ Tail(net.reply) \in Replied
  <2>1. Tail(net.reply) \in Replied
    BY <1>3 DEF Replied
  <2> QED BY <1>2, <1>3, <2>1, TalkTakes, Zenon
<1>7. /\ "JOIN" \in Messages \ (Steps \cup {"sasl"}) /\ "JOIN" \in Messages \ {"CAP_END", "register"}
      /\ <<>> \in Buffer /\ <<"JOIN">> \in Buffer /\ ~Has(<<>>, {"hello"}) /\ ~Has(<<"JOIN">>, {"hello"})
  BY Writes, Buffers, HasOne, Zenon DEF Messages, Steps
<1>8. Talk(conf.password, conf.kind, s \o ms, Tail(net.reply), irc.caps, irc.sasl, irc.ends)
  <2>1. Talk(conf.password, conf.kind, s \o <<"JOIN">>, Tail(net.reply), irc.caps, irc.sasl, irc.ends)
    BY <1>3, <1>6, <1>7, TalkGrows, Zenon
  <2> QED BY <1>3, <1>6, <2>1, Zenon
<1>9. Unserved(s, net.reply, net.neg, net.reg, net.done) =>
        Unserved(s \o ms, Tail(net.reply), net.neg, net.reg, net.done) /\ m # <<"001">>
  <2> SUFFICES ASSUME Unserved(s, net.reply, net.neg, net.reg, net.done)
               PROVE  Unserved(s \o ms, Tail(net.reply), net.neg, net.reg, net.done) /\ m # <<"001">>
    OBVIOUS
  <2>1. Unserved(s, Tail(net.reply), net.neg, net.reg, net.done) /\ m # <<"001">>
    BY <1>3, UnservedTakes, Zenon
  <2>2. Unserved(s \o <<"JOIN">>, Tail(net.reply), net.neg, net.reg, net.done)
    BY <1>3, <1>7, <2>1, UnservedGrows, Zenon
  <2> QED BY <1>3, <2>1, <2>2, Zenon
<1>10. conf.password /\ conf.kind # "nocap" /\ irc'.welcomed => irc'.sasl = "success"
  BY <1>1, <1>3, <1>5, <1>9, Zenon
<1>11. ms \in Buffer /\ ~Has(ms, {"hello"})
  BY <1>7
<1> QED BY <1>1, <1>2, <1>3, <1>4, <1>5, <1>8, <1>9, <1>10, <1>11, Heard, Zenon DEF s

\* A smaller kind.
LEMMA HasLess == ASSUME NEW s, NEW T, NEW U, T \subseteq U, ~Has(s, U) PROVE ~Has(s, T)
  BY Zenon DEF Has

\* What the negotiation says of a connection depends only on the two streams.
LEMMA SameTalk ==
  ASSUME NegInv, UNCHANGED <<tcp.pre, tcp.use_tls, tcp.tls, tcp.connected, net.reply, net.neg, net.reg, net.done,
                             irc.caps, irc.sasl, irc.ends, irc.welcomed, conf>>,
         Written(tcp', net') = Written(tcp, net), pc = "connected" <=> pc' = "connected"
  PROVE  HeldInv(tcp'.pre, conf') /\ (tcp'.connected => HelloInv(tcp', net')) /\ TalkInv'
<1>1. Stream(tcp', net') = Stream(tcp, net) /\ (Unsent(tcp') <=> Unsent(tcp)) /\ (Greeted' <=> Greeted)
  BY Zenon DEF Stream, Unsent, Greeted, Hidden
<1>2. HeldInv(tcp'.pre, conf') /\ (tcp'.connected => HelloInv(tcp', net'))
  BY <1>1, Zenon DEF NegInv, HelloInv
<1>3. Talking => Talking'
  BY <1>1, Zenon DEF Talking
<1>4. Serving => Serving'
  BY <1>1, Zenon DEF Serving
<1>5. TalkInv /\ (EarlyInv(tcp, net) => EarlyInv(tcp', net'))
  BY Zenon DEF NegInv, EarlyInv
<1> QED BY <1>1, <1>2, <1>3, <1>4, <1>5, Zenon DEF TalkInv

\* Without a connection only pre_buf, and the outcome of the last one, are left.
LEMMA DownTalk ==
  ASSUME NegInv, ~tcp'.connected, tcp'.pre \in {tcp.pre, <<>>}, irc'.ends \in {irc.ends, 0},
         irc'.welcomed => irc.welcomed /\ irc'.sasl = irc.sasl,
         conf'.password = conf.password, conf'.kind = conf.kind, Hidden(conf') => Hidden(conf)
  PROVE  HeldInv(tcp'.pre, conf') /\ (tcp'.connected => HelloInv(tcp', net')) /\ TalkInv'
<1>1. HeldInv(tcp.pre, conf) /\ TalkInv
  BY DEF NegInv
<1>2. \A T : ~Has(<<>>, T)
  BY HasOne, Zenon
<1>3. HeldInv(<<>>, conf')
  BY <1>2, LedNone, SMTT(20) DEF HeldInv
<1>4. HeldInv(tcp'.pre, conf')
  BY <1>1, <1>3 DEF HeldInv
<1>5. ~Greeted'
  BY Zenon DEF Greeted
<1>6. irc'.ends <= 1
  BY <1>1, SMTT(20) DEF TalkInv
<1> QED BY <1>1, <1>4, <1>5, <1>6, SMTT(20) DEF TalkInv

\* on_send() only moves what was written.
LEMMA TalkOnSend ==
  ASSUME NegInv, OnSend
  PROVE  HeldInv(tcp'.pre, conf') /\ (tcp'.connected => HelloInv(tcp', net')) /\ TalkInv'
<1>1. tcp \in TcpType /\ net \in NetType
  BY DEF NegInv, NegType, SockType
<1>2. /\ UNCHANGED <<tcp.pre, tcp.use_tls, tcp.tls, tcp.connected, net.reply, net.neg, net.reg, net.done>>
      /\ UNCHANGED <<ctl, irc, conf>> /\ net'.wire = net.wire \o tcp.out /\ tcp'.out = <<>>
  BY <1>1, Zenon DEF OnSend, TcpType, NetType
<1>3. net.wire \o tcp.out \in Buffer
  BY <1>1, Buffers DEF TcpType, NetType
<1>4. (net.wire \o tcp.out) \o <<>> = net.wire \o tcp.out
  BY <1>3, SMTT(20) DEF Buffer
<1>5. Written(tcp', net') = Written(tcp, net)
  BY <1>2, <1>4, SMTT(20) DEF Written
<1> QED BY <1>2, <1>5, SameTalk DEF ctl

\* on_tls_activated(): pre_buf follows the handshake.
LEMMA TalkOnTls ==
  ASSUME NegInv, OnTlsActivated
  PROVE  HeldInv(tcp'.pre, conf') /\ (tcp'.connected => HelloInv(tcp', net')) /\ TalkInv'
<1> DEFINE m == <<"tls">>
           t == [tcp EXCEPT !.tls = "active", !.pre = <<>>]
<1>1. /\ tcp \in TcpType /\ net \in NetType /\ t \in TcpType /\ tcp.pre \in Buffer /\ tcp.out \in Buffer
      /\ net.wire \in Buffer /\ net.reply \in Replied /\ conf.password \in BOOLEAN
  BY Buffers, Zenon DEF NegInv, NegType, SockType, TcpType, NetType, ConfType
<1>2. /\ tcp.connected /\ pc = "idle" /\ net.reply # <<>> /\ Head(net.reply) = m
      /\ UNCHANGED <<ctl, irc, conf>> /\ tcp' = SendData(t, tcp.pre)
      /\ net'.reply = Tail(net.reply) /\ UNCHANGED <<net.wire, net.neg, net.reg, net.done>>
  BY <1>1 DEF OnTlsActivated, Receives, Idle, Taken, NetType
<1>3. HelloInv(tcp, net) /\ HeldInv(tcp.pre, conf) /\ TalkInv
  BY <1>2 DEF NegInv
<1>4. tcp.use_tls
  <2>1. Has(net.reply, {m})
    BY <1>1, <1>2, HasTail, Zenon DEF Replied
  <2> QED BY <1>1, <1>3, <2>1 DEF HelloInv, TcpType
<1>5. ~Unsent(t) /\ t.out = tcp.out /\ t.pre = <<>> /\ t.use_tls /\ t.tls = "active" /\ t.connected
  BY <1>1, <1>2, <1>4 DEF Unsent, TcpType
<1>6. /\ tcp'.out = tcp.out \o tcp.pre /\ tcp'.pre = <<>> /\ tcp'.use_tls /\ tcp'.tls = "active"
      /\ tcp'.connected
  <2> HIDE DEF t
  <2>1. t \in TcpType /\ tcp.pre \in Buffer /\ tcp' = SendData(t, tcp.pre)
    BY <1>1, <1>2
  <2>2. /\ tcp'.connected = t.connected /\ tcp'.use_tls = t.use_tls /\ tcp'.tls = t.tls
        /\ ~Unsent(t) => tcp'.out = t.out \o tcp.pre /\ tcp'.pre = t.pre
    BY ONLY <2>1 DEF SendData, TcpType, Unsent
  <2> QED BY ONLY <1>5, <2>2, Zenon
<1> HIDE DEF t
<1>7. /\ Written(tcp, net) \in Buffer /\ Written(tcp', net') = Written(tcp, net) \o tcp.pre
      /\ Stream(tcp, net) = Written(tcp, net) \o tcp.pre /\ Stream(tcp', net') = Stream(tcp, net)
      /\ Stream(tcp, net) \in Buffer
  <2>1. Written(tcp, net) \in Buffer
    BY <1>1, Buffers, Zenon DEF Written
  <2>2. Written(tcp', net') = Written(tcp, net) \o tcp.pre
    <3>1. (net.wire \o tcp.out) \o tcp.pre = net.wire \o (tcp.out \o tcp.pre)
      BY <1>1, Joined, Zenon
    <3> QED BY <1>2, <1>6, <3>1 DEF Written
  <2>3. Stream(tcp, net) = Written(tcp, net) \o tcp.pre
    BY <1>3, <1>4 DEF Stream, Unsent, HelloInv
  <2>4. Written(tcp, net) \o tcp.pre \in Buffer
    BY <1>1, <2>1, Buffers
  <2>5. (Written(tcp, net) \o tcp.pre) \o <<>> = Written(tcp, net) \o tcp.pre
    BY <2>4 DEF Buffer
  <2>6. ~Unsent(tcp')
    BY <1>6 DEF Unsent
  <2> QED BY <2>1, <2>2, <2>3, <2>4, <2>5, <2>6, Zenon DEF Stream
<1>8. HelloInv(tcp', net')
  BY <1>6, Zenon DEF HelloInv, Unsent
<1>9. HeldInv(tcp'.pre, conf')
  <2>1. \A T : ~Has(<<>>, T)
    BY HasOne, Zenon
  <2> QED BY <1>6, <2>1, LedNone DEF HeldInv
<1>10. Greeted' <=> Greeted
  BY <1>2, <1>6, SMTT(20) DEF Greeted, ctl, Hidden
<1>11. ASSUME ~Greeted PROVE EarlyInv(tcp', net')
  <2>1. Hidden(conf) /\ EarlyInv(tcp, net)
    BY <1>2, <1>3, <1>11, Zenon DEF Greeted, TalkInv
  <2>2. ~Has(tcp.pre, Messages \ {"QUIT"})
    BY <1>3, <2>1 DEF HeldInv
  <2>3. ~Has(tcp.pre, Messages \ Early)
    BY <2>2, HasLess, SMTT(20) DEF Early
  <2>4. ~Has(Written(tcp', net'), Messages \ Early)
    <3>1. ~Has(Written(tcp, net), Messages \ Early)
      BY <2>1, Zenon DEF EarlyInv
    <3> QED BY <1>1, <1>7, <2>3, <3>1, BufferHas, Zenon
  <2>5. ~Has(net'.reply, Lines)
    BY <1>1, <1>2, <2>1, HasTail, Zenon DEF Replied, EarlyInv
  <2> QED BY <1>2, <2>1, <2>4, <2>5, SMTT(20) DEF EarlyInv
<1>12. ASSUME Greeted PROVE Talking' /\ Serving'
  <2>1. Talk(conf.password, conf.kind, Stream(tcp, net), net.reply, irc.caps, irc.sasl, irc.ends) /\ Serving
    BY <1>12, TalkIs
  <2>2. Head(net.reply) \notin About("multi-prefix")
    BY <1>2, SMTT(20) DEF About
  <2>3. Talk(conf.password, conf.kind, Stream(tcp, net), Tail(net.reply), irc.caps, irc.sasl, irc.ends)
    BY <1>1, <1>2, <1>7, <2>1, <2>2, TalkTakes, Zenon
  <2>4. Unserved(Stream(tcp, net), net.reply, net.neg, net.reg, net.done) =>
          Unserved(Stream(tcp, net), Tail(net.reply), net.neg, net.reg, net.done)
    BY <1>1, <1>2, UnservedTakes, ZenonT(30)
  <2> QED BY <1>2, <1>7, <2>1, <2>3, <2>4, Zenon DEF Talking, Serving
<1> QED BY <1>2, <1>3, <1>8, <1>9, <1>10, <1>11, <1>12 DEF TalkInv

\* connect() made the connection: only the first record of TLS is written.
LEMMA TalkEstablished ==
  ASSUME NegInv, Established
  PROVE  HeldInv(tcp'.pre, conf') /\ (tcp'.connected => HelloInv(tcp', net')) /\ TalkInv'
<1>1. tcp \in TcpType /\ ~tcp.connected /\ tcp.out = <<>> /\ TalkInv /\ HeldInv(tcp.pre, conf)
  BY DEF NegInv, NegType, SockType, LinkInv, Established, Tries
<1>2. /\ tcp'.use_tls = tcp.use_tls /\ tcp'.pre = tcp.pre /\ tcp'.connected
      /\ tcp.use_tls => tcp'.tls = "hello" /\ tcp'.out = Append(<<>>, "hello")
      /\ ~tcp.use_tls => tcp'.out = <<>>
  BY <1>1 DEF Established, TcpType
<1>3. /\ net'.wire = <<>> /\ net'.reply = <<>> /\ ~net'.neg /\ ~net'.reg /\ ~net'.done /\ pc' = "connected"
      /\ UNCHANGED <<irc, conf>>
  BY DEF Established, NoNet
<1>4. /\ tcp.use_tls => Written(tcp', net') = <<"hello">>
      /\ ~tcp.use_tls => Written(tcp', net') = <<>>
  <2>1. Append(<<>>, "hello") = <<"hello">> /\ <<>> \o <<"hello">> = <<"hello">> /\ <<>> \o <<>> = <<>>
    OBVIOUS
  <2> QED BY <1>2, <1>3, <2>1 DEF Written
<1>5. /\ ~Has(Written(tcp', net'), Messages \ {"hello"}) /\ (~tcp.use_tls => ~Has(Written(tcp', net'), {"hello"}))
      /\ ~Has(Written(tcp', net'), Messages \ Early) /\ \A T : ~Has(net'.reply, T)
  <2>1. \A T : ~Has(<<>>, T)
    BY HasOne, Zenon
  <2>2. ~Has(<<"hello">>, Messages \ {"hello"}) /\ ~Has(<<"hello">>, Messages \ Early)
    BY HasOne DEF Early
  <2>3. tcp.use_tls \in BOOLEAN
    BY <1>1, Zenon DEF TcpType
  <2> QED BY <1>3, <1>4, <2>1, <2>2, <2>3
<1>6. HelloInv(tcp', net')
  <2>1. tcp'.use_tls => tcp'.tls # "active"
    BY <1>2, Zenon
  <2> QED BY <1>2, <1>3, <1>5, <2>1 DEF HelloInv
<1>7. EarlyInv(tcp', net') /\ ~Greeted'
  BY <1>3, <1>5 DEF EarlyInv, Greeted
<1>8. HeldInv(tcp'.pre, conf')
  BY <1>1, <1>2, <1>3, Zenon
<1> QED BY <1>1, <1>3, <1>6, <1>7, <1>8 DEF TalkInv

\* on_connected() without the address of the user: the negotiation has not begun.
LEMMA TalkOnConnectedHidden ==
  ASSUME NegInv, OnConnected, Hidden(conf)
  PROVE  HeldInv(tcp'.pre, conf') /\ (tcp'.connected => HelloInv(tcp', net')) /\ TalkInv'
<1>1. irc \in IrcType /\ TalkInv /\ LinkInv /\ pc = "connected"
  BY DEF NegInv, NegType, SockType, OnConnected
<1>2. tcp.connected /\ ~irc.welcomed /\ ~Greeted
  BY <1>1 DEF LinkInv, Greeted
<1>3. irc' = [irc EXCEPT !.lookup = TRUE, !.ends = 0] /\ UNCHANGED <<tcp, net, conf>>
  BY DEF OnConnected, Hidden
<1>4. irc'.ends = 0 /\ irc'.welcomed = irc.welcomed
  BY <1>1, <1>3 DEF IrcType
<1>5. HeldInv(tcp'.pre, conf') /\ HelloInv(tcp', net') /\ EarlyInv(tcp', net')
  BY <1>1, <1>2, <1>3 DEF NegInv, TalkInv
<1>6. ~Greeted'
  BY <1>3, Zenon DEF Greeted
<1> QED BY <1>2, <1>4, <1>5, <1>6 DEF TalkInv

\* on_connected(): the greeting follows what pre_buf kept.
LEMMA TalkOnConnected ==
  ASSUME NegInv, OnConnected, ~Hidden(conf)
  PROVE  HeldInv(tcp'.pre, conf') /\ (tcp'.connected => HelloInv(tcp', net')) /\ TalkInv'
<1> DEFINE p == conf.password
           G == Greeting(p)
           h == IF Unsent(tcp) THEN tcp.pre ELSE <<>>
<1>1. /\ irc \in IrcType /\ tcp \in TcpType /\ net \in NetType /\ p \in BOOLEAN
      /\ tcp.pre \in Buffer /\ net.reply \in Replied
  BY DEF NegInv, NegType, SockType, ConfType, TcpType, NetType
<1>2. /\ pc = "connected" /\ pc' # "connected" /\ tcp.connected /\ ~irc.welcomed
      /\ HeldInv(tcp.pre, conf) /\ HelloInv(tcp, net) /\ EarlyInv(tcp, net) /\ irc.caps \subseteq Wanted
  BY DEF NegInv, LinkInv, TalkInv, Greeted, OnConnected, Return
<1>3. /\ UNCHANGED <<net, conf>>
      /\ irc' = [irc EXCEPT !.caps = irc.caps \cup Wanted, !.ends = 0,
                            !.sasl = IF conf.password THEN "needed" ELSE irc.sasl]
      /\ tcp' = SendData(tcp, <<"multi-prefix">>
                                  \o (IF "sasl" \in irc'.caps THEN <<"sasl">> ELSE <<>>)
                                  \o <<"register">>)
  BY DEF OnConnected, Hidden
<1>4. irc.caps \cup Wanted = IF p THEN {"multi-prefix", "sasl"} ELSE {"multi-prefix"}
  BY <1>2 DEF Wanted
<1>5. /\ irc'.caps = IF p THEN {"multi-prefix", "sasl"} ELSE {"multi-prefix"}
      /\ irc'.ends = 0 /\ irc'.welcomed = irc.welcomed
      /\ irc'.sasl = IF p THEN "needed" ELSE irc.sasl
  BY <1>1, <1>3, <1>4 DEF IrcType
<1>6. "sasl" \in irc'.caps <=> p
  BY <1>1, <1>5
<1>7. tcp' = SendData(tcp, G) /\ G \in Buffer
  BY <1>1, <1>3, <1>6, GreetingIs DEF Greeting
<1>8. \A T : Has(G, T) <=> "multi-prefix" \in T \/ "register" \in T \/ (p /\ "sasl" \in T)
  BY <1>1, GreetingIs
<1>9. Led(G, {"sasl"}, {"multi-prefix"}) /\ Led(G, {"register"}, {"multi-prefix"})
  <2>1. \A A : "multi-prefix" \notin A => Led(G, A, {"multi-prefix"})
    BY <1>1, GreetingIs
  <2> QED BY <2>1
<1>10. ~Has(G, Messages \ Stale) /\ (~p => ~Has(G, {"sasl"})) /\ ~Has(G, {"hello"})
  <2>1. "multi-prefix" \in Stale /\ "register" \in Stale /\ "sasl" \in Stale
    BY DEF Stale
  <2>2. ~Has(G, Messages \ Stale)
    BY <1>8, <2>1
  <2>3. ~p => ~Has(G, {"sasl"})
    BY <1>8
  <2>4. ~Has(G, {"hello"})
    BY <1>8, SMTT(20)
  <2> QED BY <2>2, <2>3, <2>4
<1> HIDE DEF G
<1>11. /\ tcp'.connected /\ tcp'.use_tls = tcp.use_tls /\ tcp'.tls = tcp.tls
       /\ Unsent(tcp) => tcp'.pre = tcp.pre \o G
       /\ ~Unsent(tcp) => tcp'.pre = tcp.pre
  <2>1. tcp'.connected = tcp.connected /\ tcp'.use_tls = tcp.use_tls /\ tcp'.tls = tcp.tls
    BY <1>1, <1>7, SendIs, Zenon
  <2>2. Unsent(tcp) => tcp'.pre = tcp.pre \o G
    BY <1>1, <1>7, SendIs, Zenon
  <2>3. ~Unsent(tcp) => tcp'.pre = tcp.pre
    BY <1>1, <1>7, SendIs, Zenon
  <2> QED BY <1>2, <2>1, <2>2, <2>3, Zenon
<1>12. /\ Stream(tcp', net) = Stream(tcp, net) \o G /\ Stream(tcp, net) \in Buffer /\ Written(tcp, net) \in Buffer
       /\ Unsent(tcp) => Written(tcp', net) = Written(tcp, net)
       /\ ~Unsent(tcp) => Written(tcp', net) = Written(tcp, net) \o G
  <2> DEFINE u == SendData(tcp, G)
  <2>1. /\ Stream(u, net) = Stream(tcp, net) \o G /\ Stream(tcp, net) \in Buffer /\ Written(tcp, net) \in Buffer
        /\ Unsent(tcp) => Written(u, net) = Written(tcp, net)
        /\ ~Unsent(tcp) => Written(u, net) = Written(tcp, net) \o G
    BY <1>1, <1>7, StreamSend, Zenon
  <2> QED BY <1>7, <2>1
<1>13. HeldInv(tcp.pre \o G, conf)
  <2>1. ~Has(tcp.pre, Messages \ Stale) /\ Led(tcp.pre, {"sasl"}, {"multi-prefix"})
        /\ Led(tcp.pre, {"register"}, {"multi-prefix"}) /\ (~p => ~Has(tcp.pre, {"sasl"}))
    BY <1>2 DEF HeldInv
  <2>2. ~Has(tcp.pre \o G, Messages \ Stale)
    BY <1>1, <1>7, <1>10, <2>1, BufferHas, Zenon
  <2>3. ~p => ~Has(tcp.pre \o G, {"sasl"})
    BY <1>1, <1>7, <1>10, <2>1, BufferHas, Zenon
  <2>4. Led(tcp.pre \o G, {"sasl"}, {"multi-prefix"})
    BY <1>1, <1>7, <1>9, <2>1, LedConcat DEF Buffer
  <2>5. Led(tcp.pre \o G, {"register"}, {"multi-prefix"})
    BY <1>1, <1>7, <1>9, <2>1, LedConcat DEF Buffer
  <2> QED BY <2>2, <2>3, <2>4, <2>5 DEF HeldInv
<1>14. HeldInv(tcp'.pre, conf')
  BY <1>2, <1>3, <1>11, <1>13, Zenon
<1>15. HelloInv(tcp', net')
  <2>1. Unsent(tcp') <=> Unsent(tcp)
    BY <1>11, Zenon DEF Unsent
  <2>2. ~tcp.use_tls => ~Has(Written(tcp, net) \o G, {"hello"})
    BY <1>2, <1>7, <1>10, <1>12, HasConcat, Zenon DEF HelloInv, Buffer
  <2>3. ~tcp.use_tls => ~Unsent(tcp)
    BY DEF Unsent
  <2>4. tcp.use_tls /\ tcp.tls = "active" => ~Unsent(tcp)
    BY Zenon DEF Unsent
  <2> QED BY <1>2, <1>3, <1>11, <1>12, <2>1, <2>2, <2>3, <2>4, Zenon DEF HelloInv
<1>16. /\ h \in Buffer /\ ~Has(h, Messages \ Stale) /\ (~p => ~Has(h, {"sasl"}))
       /\ Led(h, {"sasl"}, {"multi-prefix"}) /\ Led(h, {"register"}, {"multi-prefix"})
  <2>1. CASE Unsent(tcp)
    BY <1>1, <1>2, <2>1, ZenonT(30) DEF HeldInv
  <2>2. CASE ~Unsent(tcp)
    <3>1. \A T : ~Has(<<>>, T)
      BY HasOne, Zenon
    <3> QED BY <2>2, <3>1, Buffers, LedNone
  <2> QED BY <2>1, <2>2, Zenon
<1>17. Stream(tcp', net) = (Written(tcp, net) \o h) \o Greeting(p)
  BY <1>12, ZenonT(30) DEF Stream, G
<1>18. /\ ~Has(Written(tcp, net), Messages \ Early) /\ ~Has(net.reply, Lines)
       /\ net.neg = FALSE /\ net.reg = FALSE /\ net.done = FALSE
  BY <1>1, <1>2 DEF EarlyInv, NetType
<1> HIDE DEF h, p
<1>19. /\ Talk(p, conf.kind, Stream(tcp', net), net.reply, IF p THEN {"multi-prefix", "sasl"} ELSE {"multi-prefix"},
               IF p THEN "needed" ELSE irc.sasl, 0)
       /\ Unserved(Stream(tcp', net), net.reply, FALSE, FALSE, FALSE)
  BY <1>1, <1>12, <1>16, <1>17, <1>18, TalkGreets, Zenon
<1>20. Talking' /\ Serving'
  BY <1>3, <1>5, <1>18, <1>19, Zenon DEF Talking, Serving, p
<1>21. Greeted'
  BY <1>2, <1>3, <1>11 DEF Greeted
<1>22. irc'.ends <= 1
  BY ONLY <1>5
<1>23. ~irc'.welcomed
  BY ONLY <1>2, <1>5
<1>24. TalkInv'
  BY ONLY <1>20, <1>21, <1>22, <1>23, Zenon DEF TalkInv
<1> QED BY <1>14, <1>15, <1>24, Zenon

\* The address of the user is known, or is not known and the client leaves.
LEMMA TalkLookupAnswer ==
  ASSUME NegInv, LookupAnswer
  PROVE  HeldInv(tcp'.pre, conf') /\ (tcp'.connected => HelloInv(tcp', net')) /\ TalkInv'
<1>1. irc \in IrcType /\ tcp \in TcpType /\ net \in NetType /\ conf \in ConfType /\ tcp.pre \in Buffer
  BY DEF NegInv, NegType, SockType, TcpType
<1>2. /\ pc = "idle" /\ Hidden(conf) /\ HeldInv(tcp.pre, conf) /\ TalkInv
      /\ tcp.connected => EarlyInv(tcp, net) /\ HelloInv(tcp, net)
  BY DEF NegInv, LinkInv, LookupAnswer, Idle, TalkInv, Greeted
<1>3. /\ UNCHANGED net /\ UNCHANGED <<irc.ends, irc.welcomed, irc.sasl>>
      /\ conf'.password = conf.password /\ conf'.kind = conf.kind /\ (Hidden(conf') => Hidden(conf))
  BY <1>1, <1>2, ZenonT(30) DEF LookupAnswer, IrcType, ConfType
<1>4. CASE ~tcp.connected
  <2>1. tcp' = tcp
    BY <1>4, SMTT(20) DEF LookupAnswer
  <2> QED BY <1>3, <1>4, <2>1, DownTalk
<1>5. CASE tcp.connected /\ conf' = [conf EXCEPT !.ip = TRUE] /\ pc' = "connected" /\ tcp' = tcp
  <2>1. ~Hidden(conf') /\ ~Greeted'
    BY <1>1, <1>5 DEF Hidden, Greeted, ConfType
  <2>2. HeldInv(tcp'.pre, conf')
    BY <1>2, <1>3, <1>5, <2>1 DEF HeldInv
  <2>3. HelloInv(tcp', net') /\ EarlyInv(tcp', net')
    BY <1>2, <1>3, <1>5, Zenon
  <2> QED BY <1>2, <1>3, <2>1, <2>2, <2>3 DEF TalkInv
<1>6. CASE tcp.connected /\ conf' = conf /\ tcp' = SendData(tcp, <<"QUIT">>)
  <2> DEFINE q == <<"QUIT">>
             u == SendData(tcp, q)
  <2>1. q \in Buffer /\ (\A T : "QUIT" \notin T => ~Has(q, T))
    BY Writes, HasOne, Zenon
  <2> HIDE DEF q
  <2>2. /\ u.connected = tcp.connected /\ u.use_tls = tcp.use_tls /\ u.tls = tcp.tls
        /\ Unsent(tcp) => u.pre = tcp.pre \o q
        /\ ~Unsent(tcp) => u.pre = tcp.pre
    BY <1>1, <2>1, SendIs, SMTT(20)
  <2>3. /\ Written(tcp, net) \in Buffer
        /\ Unsent(tcp) => Written(u, net) = Written(tcp, net)
        /\ ~Unsent(tcp) => Written(u, net) = Written(tcp, net) \o q
    BY <1>1, <2>1, StreamSend
  <2>4. tcp' = u
    BY <1>6 DEF q
  <2> HIDE DEF u
  <2>5. ASSUME NEW T, "QUIT" \notin T
        PROVE  /\ ~Has(tcp.pre, T) => ~Has(u.pre, T)
               /\ ~Has(Written(tcp, net), T) => ~Has(Written(u, net), T)
    <3>1. ~Has(q, T)
      BY <2>1, <2>5
    <3>2. /\ ~Has(tcp.pre, T) => ~Has(tcp.pre \o q, T)
          /\ ~Has(Written(tcp, net), T) => ~Has(Written(tcp, net) \o q, T)
      BY <1>1, <2>1, <2>3, <3>1, HasConcat DEF Buffer
    <3> QED BY <2>2, <2>3, <3>2, Zenon
  <2>6. ASSUME NEW T, "QUIT" \notin T, Led(tcp.pre, T, {"multi-prefix"}) PROVE Led(u.pre, T, {"multi-prefix"})
    <3>1. Led(q, T, {"multi-prefix"})
      BY <2>1, <2>6, LedNone
    <3>2. Led(tcp.pre \o q, T, {"multi-prefix"})
      BY <1>1, <2>1, <2>6, <3>1, LedConcat DEF Buffer
    <3> QED BY <2>2, <2>6, <3>2, Zenon
  <2>7. HeldInv(u.pre, conf)
    <3>1. "QUIT" \notin Messages \ Stale /\ "QUIT" \notin {"sasl"} /\ "QUIT" \notin {"register"}
          /\ "QUIT" \notin Messages \ {"QUIT"}
      BY DEF Stale
    <3>2. /\ ~Has(tcp.pre, Messages \ Stale) => ~Has(u.pre, Messages \ Stale)
          /\ ~Has(tcp.pre, {"sasl"}) => ~Has(u.pre, {"sasl"})
          /\ ~Has(tcp.pre, Messages \ {"QUIT"}) => ~Has(u.pre, Messages \ {"QUIT"})
      BY <2>5, <3>1
    <3>3. Led(tcp.pre, {"sasl"}, {"multi-prefix"}) => Led(u.pre, {"sasl"}, {"multi-prefix"})
      BY <2>6, <3>1
    <3>4. Led(tcp.pre, {"register"}, {"multi-prefix"}) => Led(u.pre, {"register"}, {"multi-prefix"})
      BY <2>6, <3>1, Zenon
    <3> QED BY <1>2, <3>2, <3>3, <3>4, Zenon DEF HeldInv
  <2>8. HelloInv(u, net)
    <3>1. ~Has(Written(tcp, net), {"hello"}) => ~Has(Written(u, net), {"hello"})
      BY <2>5
    <3>2. Unsent(u) <=> Unsent(tcp)
      BY <2>2 DEF Unsent
    <3>3. tcp.use_tls /\ tcp.tls = "active" => ~Unsent(tcp)
      BY DEF Unsent
    <3>4. HelloInv(tcp, net)
      BY <1>2, <1>6, Zenon
    <3> QED BY <2>2, <2>3, <3>1, <3>2, <3>3, <3>4, Zenon DEF HelloInv
  <2>9. EarlyInv(u, net)
    <3>1. "QUIT" \notin Messages \ Early
      BY DEF Early
    <3>2. ~Has(Written(tcp, net), Messages \ Early) => ~Has(Written(u, net), Messages \ Early)
      BY <2>5, <3>1
    <3> QED BY <1>2, <1>6, <3>2 DEF EarlyInv
  <2>10. ~Greeted'
    BY <1>2, <1>6 DEF Greeted
  <2> QED BY <1>2, <1>3, <1>6, <2>4, <2>7, <2>8, <2>9, <2>10, Zenon DEF TalkInv
<1> QED BY <1>4, <1>5, <1>6 DEF LookupAnswer

\* A line that says nothing about the negotiation.
LEMMA TalkHears ==
  ASSUME NEW p \in BOOLEAN, NEW kind, NEW s \in Buffer, NEW r \in Replied, NEW caps, NEW sasl, NEW ends,
         Talk(p, kind, s, r, caps, sasl, ends),
         NEW m \in Replies \ (Answers \cup About("multi-prefix") \cup About("sasl"))
  PROVE  Talk(p, kind, s, r \o <<m>>, caps, sasl, ends)
<1> DEFINE u == r \o <<m>>
<1>0. <<m>> \in Replied
  BY DEF Replied
<1>1. \A T : Has(u, T) <=> Has(r, T) \/ m \in T
  BY <1>0, HasConcat, HasOne, Zenon DEF Replied
<1>2. One(r, Answers) => One(u, Answers)
  BY <1>0, OneConcat, HasOne, Zenon DEF Replied
<1>3. Led(r, About("sasl"), About("multi-prefix")) => Led(u, About("sasl"), About("multi-prefix"))
  <2>1. ~Has(<<m>>, About("sasl"))
    BY HasOne
  <2>2. Led(<<m>>, About("sasl"), About("multi-prefix"))
    BY <2>1, LedNone
  <2> QED BY <1>0, <2>2, LedConcat, Zenon DEF Replied
<1> HIDE DEF u
<1>4. (None(s, r) => None(s, u))
      /\ (~Has(r, About("sasl")) => ~Has(u, About("sasl")))
      /\ (~Has(r, About("multi-prefix")) => ~Has(u, About("multi-prefix")))
  BY <1>1 DEF None
<1>5. Once(s, r) => Once(s, u)
  BY <1>1, <1>2 DEF Once
<1>6. Ordered(s, r) => Ordered(s, u)
  BY <1>1, <1>3, Zenon DEF Ordered
<1>7. Talk(p, kind, s, u, caps, sasl, ends)
  BY <1>4, <1>5, <1>6 DEF Talk
<1> QED BY <1>7 DEF u

\* What the server answers to a line, in terms of the negotiation.
LEMMA ReadsAdds ==
  ASSUME NEW m, NEW ms, NEW neg, NEW reg, Reads(m, ms, neg, reg)
  PROVE  Adds(m, ms)
<1>1. ms = <<>> \/ \E x : ms = <<x>>
  BY DEF Reads
<1>2. CASE ms = <<>>
  <2>1. \A T : ~Has(ms, T) /\ One(ms, T)
    BY <1>2, HasOne, Zenon
  <2>2. ~(m = "multi-prefix" /\ conf.kind # "nocap")
    <3>1. \A x : <<x>> # <<>>
      OBVIOUS
    <3> QED BY <1>2, <3>1 DEF Reads
  <2> QED BY <2>1, <2>2 DEF Adds
<1>3. ASSUME NEW x, ms = <<x>> PROVE Adds(m, ms)
  <2>1. \A T : (Has(ms, T) <=> x \in T) /\ One(ms, T)
    BY <1>3, HasOne
  <2>2. \A y : ms = <<y>> => x = y
    BY <1>3
  <2>3. ms # <<>>
    BY <1>3
  <2>4. \/ m = "hello" /\ x \in {<<"tls">>, <<"tls_alert">>}
        \/ m \in {"multi-prefix", "sasl"} /\ conf.kind # "nocap" /\ x \in About(m)
        \/ m = "PLAIN" /\ x = <<"AUTHENTICATE">>
        \/ m = "credentials" /\ x \in {<<"903">>, <<"904">>}
        \/ m = "register" /\ x = <<"433">>
        \/ m = "QUIT" /\ x = <<"end">>
    BY <2>2, <2>3, Zenon DEF Reads
  <2>5. /\ x \in Answers => m \in Steps
        /\ x \in About("multi-prefix") <=> m = "multi-prefix" /\ conf.kind # "nocap"
        /\ x \in About("sasl") => m = "sasl" /\ conf.kind # "nocap"
        /\ x # <<"001">>
        /\ x \in Lines => m \notin Early
        /\ x = <<"tls">> => m = "hello"
    BY <2>4, SMTT(20) DEF Answers, Steps, About, Lines, Early
  <2> QED BY <2>1, <2>5 DEF Adds
<1> QED BY <1>1, <1>2, <1>3

\* The server reads a line and answers it.
LEMMA TalkServerReads ==
  ASSUME NegInv, ServerReads
  PROVE  HeldInv(tcp'.pre, conf') /\ (tcp'.connected => HelloInv(tcp', net')) /\ TalkInv'
<1>1. tcp \in TcpType /\ net \in NetType /\ net.wire # <<>> /\ UNCHANGED <<ctl, tcp, irc, conf>>
      /\ net.reply \in Replied /\ conf.password \in BOOLEAN
  BY DEF NegInv, NegType, SockType, ServerReads, NetType, ConfType
<1>2. /\ net' \in NetType /\ net'.wire = Tail(net.wire) /\ net'.done = net.done
      /\ \E ms \in Replied : net'.reply = net.reply \o ms /\ Reads(Head(net.wire), ms, net'.neg, net'.reg)
  BY <1>1, ServerReadsIs, Zenon
<1>3. PICK ms \in Replied : net'.reply = net.reply \o ms /\ Reads(Head(net.wire), ms, net'.neg, net'.reg)
  BY <1>2
<1> DEFINE m == Head(net.wire)
           s == Stream(tcp, net)
           w == Written(tcp, net)
<1>4. Adds(m, ms)
  BY <1>3, ReadsAdds, Zenon
<1>5. /\ s \in Buffer /\ w \in Buffer /\ s # <<>> /\ w # <<>> /\ Stream(tcp, net') = Tail(s) /\ Head(s) = m
      /\ Written(tcp, net') = Tail(w) /\ Head(w) = m
  BY <1>1, <1>2, StreamRead, Zenon
<1>6. tcp.connected
  <2>1. ~tcp.connected => net = NoNet
    BY Zenon DEF NegInv, LinkInv
  <2>2. NoNet.wire = <<>>
    BY DEF NoNet
  <2> QED BY <1>1, <2>1, <2>2, Zenon
<1>7. HelloInv(tcp, net) /\ HeldInv(tcp.pre, conf) /\ TalkInv
  BY <1>6, Zenon DEF NegInv
<1>8. /\ m \in Early => net'.neg = net.neg /\ net'.reg = net.reg
      /\ m = "multi-prefix" /\ conf.kind # "nocap" => net'.neg = ~net.done
      /\ m # "CAP_END" /\ net.neg /\ conf.kind # "nocap" => net'.neg \/ net.done
      /\ m # "register" => net'.reg = net.reg
  BY <1>3 DEF Reads, Early
<1> HIDE DEF m, s, w
<1>9. \A T : (Has(w, T) <=> m \in T \/ Has(Tail(w), T)) /\ (Has(net'.reply, T) <=> Has(net.reply, T) \/ Has(ms, T))
  <2>1. ASSUME NEW T PROVE Has(w, T) <=> m \in T \/ Has(Tail(w), T)
    BY <1>5, HasTail, Zenon DEF Buffer
  <2>2. ASSUME NEW T PROVE Has(net'.reply, T) <=> Has(net.reply, T) \/ Has(ms, T)
    BY <1>1, <1>3, HasConcat DEF Replied
  <2> QED BY <2>1, <2>2
<1>10. m \in Messages
  BY <1>5, TailIs, Zenon DEF Buffer
<1>11. HelloInv(tcp', net')
  <2>1. ASSUME Unsent(tcp)
        PROVE  ~Has(Tail(w), Messages \ {"hello"}) /\ ~Has(net'.reply, Lines) /\ ~net'.reg
    <3>1. ~Has(w, Messages \ {"hello"}) /\ ~Has(net.reply, Lines) /\ ~net.reg
      BY <1>7, <2>1, ZenonT(30) DEF HelloInv, w
    <3>2. m = "hello" /\ ~Has(Tail(w), Messages \ {"hello"})
      BY <1>9, <1>10, <3>1
    <3>3. m \in Early
      BY <3>2 DEF Early
    <3> QED BY <1>4, <1>8, <1>9, <3>1, <3>2, <3>3, Zenon DEF Adds
  <2>2. ASSUME ~tcp.use_tls PROVE ~Has(Tail(w), {"hello"}) /\ ~Has(net'.reply, {<<"tls">>})
    <3>1. ~Has(w, {"hello"}) /\ ~Has(net.reply, {<<"tls">>})
      BY <1>7, <2>2, Zenon DEF HelloInv, w
    <3> QED BY <1>4, <1>9, <3>1, Zenon DEF Adds
  <2>3. tcp.use_tls /\ tcp.tls = "active" => tcp.pre = <<>>
    BY <1>7, Zenon DEF HelloInv
  <2> QED BY <1>1, <1>5, <2>1, <2>2, <2>3, Zenon DEF HelloInv
<1>12. Greeted' <=> Greeted
  BY <1>1, Zenon DEF Greeted, ctl, Hidden
<1>13. ASSUME ~Greeted PROVE EarlyInv(tcp', net')
  <2>1. ~Has(w, Messages \ Early) /\ ~Has(net.reply, Lines) /\ ~net.neg /\ ~net.reg /\ ~net.done
    BY <1>6, <1>7, <1>13, Zenon DEF TalkInv, EarlyInv, w
  <2>2. m \in Early /\ ~Has(Tail(w), Messages \ Early)
    BY <1>9, <1>10, <2>1, Zenon
  <2>3. ~Has(net'.reply, Lines)
    BY <1>4, <1>9, <2>1, <2>2, Zenon DEF Adds
  <2> QED BY <1>1, <1>2, <1>5, <1>8, <2>1, <2>2, <2>3, Zenon DEF EarlyInv
<1>14. ASSUME Greeted PROVE Talking' /\ Serving'
  <2>1. Talk(conf.password, conf.kind, s, net.reply, irc.caps, irc.sasl, irc.ends) /\ Serving
    BY <1>14, TalkIs, Zenon DEF s
  <2>2. Talk(conf.password, conf.kind, Tail(s), net.reply \o ms, irc.caps, irc.sasl, irc.ends)
    BY <1>1, <1>4, <1>5, <2>1, TalkReads, Zenon DEF Adds
  <2>3. ASSUME Unserved(s, net.reply, net.neg, net.reg, net.done), conf.kind # "nocap"
        PROVE  Unserved(Tail(s), net.reply \o ms, net'.neg, net'.reg, net'.done)
    <3>1. ~net.done /\ ~Has(ms, {<<"001">>})
      BY <1>4, <2>3, Zenon DEF Unserved, Adds
    <3>2. /\ Head(s) = "multi-prefix" => net'.neg
          /\ Head(s) # "CAP_END" /\ net.neg => net'.neg
          /\ Head(s) # "register" => net'.reg = net.reg
      BY <1>5, <1>8, <2>3, <3>1, Zenon
    <3>3. s \in Buffer /\ net.reply \in Replied /\ s # <<>> /\ ms \in Replied
      BY <1>1, <1>5, Zenon
    <3>4. Unserved(Tail(s), net.reply \o ms, net'.neg, net'.reg, net.done)
      BY ONLY <2>3, <3>1, <3>2, <3>3, UnservedReads, Zenon
    <3> QED BY <1>2, <3>4, Zenon
  <2>4. Talking'
    BY <1>1, <1>3, <1>5, <2>2, Zenon DEF Talking
  <2> QED BY <1>1, <1>3, <1>5, <2>1, <2>3, <2>4, Zenon DEF Serving, s
<1>15. HeldInv(tcp'.pre, conf')
  BY <1>1, <1>7, Zenon
<1> QED BY <1>1, <1>7, <1>11, <1>12, <1>13, <1>14, <1>15, Zenon DEF TalkInv

\* The server welcomes the client, or closes the connection.
LEMMA TalkServerSays ==
  ASSUME NegInv, ServerWelcomes \/ ServerCloses
  PROVE  HeldInv(tcp'.pre, conf') /\ (tcp'.connected => HelloInv(tcp', net')) /\ TalkInv'
<1>1. tcp \in TcpType /\ net \in NetType /\ net.reply \in Replied /\ conf.password \in BOOLEAN /\ TalkInv
      /\ HeldInv(tcp.pre, conf) /\ Stream(tcp, net) \in Buffer
  <2>1. tcp \in TcpType /\ net \in NetType
    BY DEF NegInv, NegType, SockType
  <2> QED BY <2>1, Buffers, StreamSend DEF NegInv, NegType, NetType, ConfType
<1>2. PICK m \in {<<"001">>, <<"end">>} :
        /\ UNCHANGED <<ctl, tcp, irc, conf>> /\ net.up
        /\ net'.reply = Append(net.reply, m) /\ net'.wire = net.wire /\ net'.neg = net.neg /\ net'.reg = net.reg
        /\ \/ m = <<"001">> /\ net.reg /\ ~net.neg /\ ~net.done
           \/ m = <<"end">> /\ net'.done = net.done
  BY <1>1, Zenon DEF ServerWelcomes, ServerCloses, NetType
<1>3. m \in Replies \ (Answers \cup About("multi-prefix") \cup About("sasl")) /\ (m \in Lines => m = <<"001">>)
      /\ m # <<"tls">>
  <2>1. <<"001">> \in Replies \ (Answers \cup About("multi-prefix") \cup About("sasl")) /\ <<"001">> # <<"tls">>
    BY DEF Replies, Lines, Answers, About
  <2>2. <<"end">> \in Replies \ (Answers \cup About("multi-prefix") \cup About("sasl"))
        /\ <<"end">> \notin Lines /\ <<"end">> # <<"tls">>
    BY SMTT(20) DEF Replies, Lines, Answers, About
  <2> QED BY ONLY <2>1, <2>2, m \in {<<"001">>, <<"end">>}
<1>4. <<m>> \in Replied /\ net'.reply = net.reply \o <<m>>
  BY <1>1, <1>2, <1>3, RepliedIs
<1>5. tcp.connected /\ HelloInv(tcp, net)
  <2>1. ~tcp.connected => net = NoNet
    BY Zenon DEF NegInv, LinkInv
  <2>2. ~NoNet.up
    BY DEF NoNet
  <2> QED BY <1>2, <2>1, <2>2, Zenon DEF NegInv
<1>6. \A T : Has(net'.reply, T) <=> Has(net.reply, T) \/ m \in T
  <2>1. ASSUME NEW T PROVE Has(net'.reply, T) <=> Has(net.reply, T) \/ m \in T
    <3>1. Has(<<m>>, T) <=> m \in T
      BY HasOne
    <3>2. ASSUME NEW b \in Replied PROVE Has(net.reply \o b, T) <=> Has(net.reply, T) \/ Has(b, T)
      BY <1>1, HasConcat DEF Replied
    <3> QED BY <1>4, <3>1, <3>2
  <2> QED BY <2>1
<1>7. Written(tcp', net') = Written(tcp, net) /\ Stream(tcp', net') = Stream(tcp, net) /\ (Greeted' <=> Greeted)
  BY <1>2 DEF Written, Stream, Greeted, ctl, Hidden
<1>8. HelloInv(tcp', net')
  <2>1. Unsent(tcp) => m \notin Lines
    BY <1>2, <1>3, <1>5, SMTT(20) DEF HelloInv
  <2>2. ~Has(net.reply, {<<"tls">>}) => ~Has(net'.reply, {<<"tls">>})
    BY <1>3, <1>6, Zenon
  <2> QED BY <1>2, <1>5, <1>6, <1>7, <2>1, <2>2, Zenon DEF HelloInv
<1>9. ASSUME ~Greeted PROVE EarlyInv(tcp', net')
  <2>1. EarlyInv(tcp, net)
    BY <1>1, <1>5, <1>9, Zenon DEF TalkInv
  <2>2. m = <<"end">> /\ m \notin Lines
    BY <1>2, <1>3, <2>1, SMTT(20) DEF EarlyInv
  <2> QED BY <1>2, <1>6, <1>7, <2>1, <2>2, Zenon DEF EarlyInv
<1>10. ASSUME Greeted PROVE Talking' /\ Serving'
  <2>1. Talk(conf.password, conf.kind, Stream(tcp, net), net.reply, irc.caps, irc.sasl, irc.ends) /\ Serving
    BY <1>10, TalkIs, Zenon
  <2>2. Talk(conf.password, conf.kind, Stream(tcp, net), net.reply \o <<m>>, irc.caps, irc.sasl, irc.ends)
    BY <1>1, <1>3, <2>1, TalkHears, Zenon
  <2>3. ASSUME Unserved(Stream(tcp, net), net.reply, net.neg, net.reg, net.done)
        PROVE  Unserved(Stream(tcp, net), net'.reply, net'.neg, net'.reg, net'.done)
    <3>0. net.neg \/ ~net.reg
      BY <2>3, Zenon DEF Unserved
    <3>1. m = <<"end">> /\ m # <<"001">>
      BY <1>2, <3>0, SMTT(20)
    <3> QED BY <1>2, <1>6, <2>3, <3>1, Zenon DEF Unserved
  <2>4. Talking'
    BY <1>2, <1>4, <1>7, <2>2, Zenon DEF Talking
  <2> QED BY <1>2, <1>7, <2>1, <2>3, <2>4 DEF Serving
<1>11. HeldInv(tcp'.pre, conf')
  BY <1>1, <1>2, Zenon
<1> QED BY <1>1, <1>2, <1>7, <1>8, <1>9, <1>10, <1>11, ZenonT(30) DEF TalkInv

\* A step that leaves the two streams alone.
LEMMA TalkSame ==
  ASSUME NegInv, UNCHANGED <<tcp, net, conf, irc.caps, irc.sasl, irc.ends, irc.welcomed>>,
         pc = "connected" <=> pc' = "connected"
  PROVE  HeldInv(tcp'.pre, conf') /\ (tcp'.connected => HelloInv(tcp', net')) /\ TalkInv'
<1>1. Written(tcp', net') = Written(tcp, net)
  BY Zenon DEF Written
<1> QED BY <1>1, SameTalk, Zenon

\* close() ends the negotiation, whatever it is called for.
LEMMA TalkClose ==
  ASSUME NegInv, Close, UNCHANGED <<conf, irc.ends, irc.sasl, irc.welcomed>>
  PROVE  HeldInv(tcp'.pre, conf') /\ (tcp'.connected => HelloInv(tcp', net')) /\ TalkInv'
<1>1. tcp \in TcpType
  BY DEF NegInv, NegType, SockType
<1>2. ~tcp'.connected /\ tcp'.pre = tcp.pre
  BY <1>1 DEF Close, Closed, TcpType
<1> QED BY <1>2, DownTalk, Zenon

\* The functions of the call chain keep what is known about the negotiation.
LEMMA TalkChain ==
  ASSUME NegInv, Chain
  PROVE  HeldInv(tcp'.pre, conf') /\ (tcp'.connected => HelloInv(tcp', net')) /\ TalkInv'
<1>0. tcp \in TcpType /\ irc \in IrcType /\ LinkInv
  BY DEF NegInv, NegType, SockType
<1>1. CASE Start
  <2>1. conf' = conf /\ net' = net
    BY <1>1 DEF Start
  <2>2. CASE tcp.connected
    <3>1. tcp' = tcp /\ irc' = irc /\ pc # "connected" /\ pc' # "connected"
      BY <1>1, <2>2, ZenonT(30) DEF Start, Return
    <3> QED BY <2>1, <3>1, TalkSame
  <2>3. CASE ~tcp.connected
    <3>1. ~tcp'.connected /\ tcp'.pre = tcp.pre /\ UNCHANGED <<irc.ends, irc.sasl, irc.welcomed>>
      BY <1>0, <1>1, <2>3, Zenon DEF Start, TcpType, IrcType
    <3> QED BY <2>1, <3>1, DownTalk, Zenon
  <2> QED BY <2>2, <2>3
<1>2. CASE Resolve \/ InProgress \/ TlsStartFails \/ OnConnectionFailed
  <2>1. ~tcp.connected /\ conf' = conf
    BY <1>0, <1>2 DEF LinkInv, Resolve, InProgress, TlsStartFails, OnConnectionFailed, Tries
  <2>2. ~tcp'.connected /\ tcp'.pre = tcp.pre
    BY <1>0, <1>2, <2>1, Zenon DEF Resolve, InProgress, TlsStartFails, OnConnectionFailed, TcpType
  <2>3. UNCHANGED <<irc.ends, irc.sasl, irc.welcomed>>
    BY <1>0, <1>2, Zenon DEF Resolve, InProgress, TlsStartFails, OnConnectionFailed, TellError, IrcType
  <2> QED BY <2>1, <2>2, <2>3, DownTalk, Zenon
<1>3. CASE Unresolved \/ AllFail \/ CloseAfter
  <2>1. Close /\ conf' = conf /\ UNCHANGED <<irc.ends, irc.sasl, irc.welcomed>>
    BY <1>0, <1>3 DEF Unresolved, AllFail, CloseAfter, IrcType
  <2> QED BY <2>1, TalkClose
<1>4. CASE Established
  BY <1>4, TalkEstablished
<1>5. CASE OnConnected
  BY <1>5, TalkOnConnected, TalkOnConnectedHidden
<1> QED BY <1>1, <1>2, <1>3, <1>4, <1>5 DEF Chain

\* Every step keeps what is known about the negotiation.
LEMMA NegStep ==
  ASSUME NegInv, [Next]_vars
  PROVE  NegInv'
<1>0. tcp \in TcpType /\ irc \in IrcType /\ LinkInv /\ NegType' /\ LinkInv'
  BY TypeStep, LinkStep, Zenon DEF NegInv, NegType, SockType
<1> DEFINE Goal == HeldInv(tcp'.pre, conf') /\ (tcp'.connected => HelloInv(tcp', net')) /\ TalkInv'
<1>1. CASE Chain
  BY <1>1, <1>0, TalkChain DEF NegInv
<1>2. CASE DnsAnswer \/ PollConnect
  <2>1. ~tcp.connected /\ UNCHANGED <<tcp, irc, conf>>
    BY <1>0, <1>2, ZenonT(30) DEF DnsAnswer, PollConnect, LinkInv
  <2>2. Goal
    BY <2>1, DownTalk, Zenon
  <2> QED BY <1>0, <2>2, Zenon DEF NegInv
<1>3. CASE Timeout \/ SendFails \/ OnEnd \/ DisconnectUserFromServer
  <2>1. Close /\ conf' = conf /\ UNCHANGED <<irc.ends, irc.sasl, irc.welcomed>>
    BY <1>0, <1>3, Zenon DEF Timeout, SendFails, OnEnd, OnClose, DisconnectUserFromServer, IrcType
  <2>2. Goal
    BY <2>1, TalkClose, Zenon
  <2> QED BY <1>0, <2>2 DEF NegInv
<1>4. CASE OnSend \/ OnTlsActivated \/ LookupAnswer \/ ServerReads \/ ServerWelcomes \/ ServerCloses
  <2>1. Goal
    BY <1>4, TalkOnSend, TalkOnTls, TalkLookupAnswer, TalkServerReads, TalkServerSays, ZenonT(30)
  <2> QED BY <1>0, <2>1 DEF NegInv
<1>5. CASE OnCap \/ OnAuthenticate \/ OnSaslSuccess \/ OnSaslFailure \/ OnNicknameConflict \/ OnWelcome
  <2>1. Goal
    BY <1>5, TalkOnCap, TalkOnAuthenticate, TalkOnSasl, TalkOnOther
  <2> QED BY <1>0, <2>1 DEF NegInv
<1>6. CASE Rejoin \/ Clean \/ UNCHANGED vars
  <2>1. UNCHANGED <<tcp, net, conf, irc.caps, irc.sasl, irc.ends, irc.welcomed>>
    BY <1>0, <1>6 DEF Rejoin, Clean, vars, IrcType
  <2>2. pc = "connected" <=> pc' = "connected"
    BY <1>6, Zenon DEF Rejoin, Clean, Idle, vars
  <2>3. Goal
    BY <2>1, <2>2, TalkSame, Zenon
  <2> QED BY <1>0, <2>3 DEF NegInv
<1>7. CASE NewClient
  <2>1. ~tcp'.connected /\ tcp'.pre = <<>> /\ irc'.ends = 0 /\ ~irc'.welcomed /\ conf' = conf
    BY <1>7, Zenon DEF NewClient, FreshTcp, FreshIrc
  <2>2. Goal
    BY <2>1, DownTalk, Zenon
  <2> QED BY <1>0, <2>2 DEF NegInv
<1> QED BY <1>1, <1>2, <1>3, <1>4, <1>5, <1>6, <1>7, Zenon DEF Next, Receive

\* The initial state satisfies the invariant.
LEMMA NegInit == Init => NegInv
<1> SUFFICES ASSUME Init PROVE NegInv
  OBVIOUS
<1>1. NegType
  BY TypeInit, Zenon
<1>2. /\ ~tcp.connected /\ tcp.pre = <<>> /\ tcp.out = <<>> /\ net = NoNet /\ ~dns.resolved /\ ~tcp.connecting
      /\ ~irc.lookup /\ irc.caps = {} /\ ~irc.welcomed /\ irc.ends = 0 /\ pc = "start"
  BY Zenon DEF Init, FreshTcp, FreshIrc, NoResolution
<1>3. LinkInv
  BY <1>2, Zenon DEF LinkInv
<1>4. HeldInv(tcp.pre, conf)
  <2>1. \A T : ~Has(<<>>, T)
    BY HasOne, Zenon
  <2> QED BY <1>2, <2>1, LedNone DEF HeldInv
<1>5. TalkInv
  BY <1>2 DEF TalkInv, Greeted
<1> QED BY <1>1, <1>2, <1>3, <1>4, <1>5 DEF NegInv

\* cap_end() sends CAP END at most once on a connection, whatever the server
\* answers and whatever pre_buf kept of an earlier connection.
THEOREM NegotiationAlwaysEndsOnce == Spec => []NegotiationEndsOnce
<1>1. NegInv => NegotiationEndsOnce
  BY DEF NegInv, TalkInv, NegotiationEndsOnce
<1> QED BY <1>1, NegInit, NegStep, PTL DEF Spec

\* No step changes what was configured.
LEMMA WillingStep ==
  ASSUME NegType, Willing, [Next]_vars
  PROVE  Willing'
<1>1. conf \in ConfType
  BY Zenon DEF NegType
<1>2. conf'.password = conf.password /\ conf'.kind = conf.kind
  <2>1. CASE conf' = conf
    BY <2>1
  <2>2. CASE LookupAnswer
    BY <1>1, <2>2 DEF LookupAnswer, ConfType
  <2> QED BY <2>1, <2>2, Zenon DEF Next, vars, Chain, Start, Resolve, Unresolved, AllFail, InProgress, Established,
        TlsStartFails, CloseAfter, OnConnectionFailed, OnConnected, DnsAnswer, Timeout, PollConnect, OnSend,
        SendFails, Receive, OnEnd, OnClose, OnTlsActivated, OnCap, OnAuthenticate, OnSaslSuccess, OnSaslFailure,
        OnNicknameConflict, OnWelcome, Rejoin, Clean, DisconnectUserFromServer, NewClient, ServerReads,
        ServerWelcomes, ServerCloses
<1> QED BY <1>2 DEF Willing

\* With a SASL password the client is welcomed only once the authentication
\* succeeded, on every server that knows CAP.
THEOREM WelcomedAlwaysAuthenticated ==
  ASSUME "sasl_nocap" \notin Faults
  PROVE  Spec => []WelcomedAuthenticated
<1>1. Init => NegInv /\ Willing
  BY NegInit, Zenon DEF Init, Willing
<1>2. NegInv /\ Willing /\ [Next]_vars => (NegInv /\ Willing)'
  BY NegStep, WillingStep DEF NegInv
<1>3. NegInv /\ Willing => WelcomedAuthenticated
  BY DEF NegInv, Willing, TalkInv, WelcomedAuthenticated
<1> QED BY <1>1, <1>2, <1>3, PTL DEF Spec
=============================================================================
