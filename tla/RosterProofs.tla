---------------------------- MODULE RosterProofs ----------------------------
(***************************************************************************)
(* No subscription is forgotten, and the rosters show what they should     *)
(* once no stanza is in flight, for any set of contacts and servers and    *)
(* under every fault of Roster.  Remembered is not inductive: a user that  *)
(* receives "subscribed" becomes subscribed, so it has to be known that an *)
(* acceptance in flight has its item, which is Carried.  GatewayShown and  *)
(* ServerShown say nothing while stanzas are in flight: ShownInv says what *)
(* the queues will make of each roster once they are read.                 *)
(***************************************************************************)
EXTENDS RosterInvariant, FiniteSetTheorems, TLAPS

\* A finite set has a sequence of its elements, which SetToSeq() takes.
LEMMA SetToSeqIsSeq ==
  ASSUME NEW S, IsFiniteSet(S)
  PROVE  SetToSeq(S) \in Seq(S)
<1>1. Cardinality(S) \in Nat /\ ExistsBijection(1 .. Cardinality(S), S)
  BY FS_CardinalityType
<1>2. \E f \in [1 .. Cardinality(S) -> S] : IsInjective(f)
  BY <1>1 DEF ExistsBijection, Bijection, Injection
<1>3. SetToSeq(S) \in [1 .. Cardinality(S) -> S]
  BY <1>2 DEF SetToSeq
<1> QED BY <1>1, <1>3

\* That sequence has every element.
LEMMA SetToSeqAll ==
  ASSUME NEW S, IsFiniteSet(S), NEW x \in S
  PROVE  \E k \in 1 .. Len(SetToSeq(S)) : SetToSeq(S)[k] = x
<1> DEFINE n == Cardinality(S)
           f == SetToSeq(S)
<1>1. n \in Nat /\ ExistsBijection(1 .. n, S)
  BY FS_CardinalityType
<1>2. \E g \in [1 .. n -> S] : IsInjective(g)
  BY <1>1 DEF ExistsBijection, Bijection, Injection
<1>3. f \in [1 .. n -> S] /\ IsInjective(f)
  BY <1>2 DEF SetToSeq
<1> HIDE DEF f
<1>4. f \in Injection(1 .. n, S)
  BY <1>3 DEF Injection
<1>5. Cardinality(1 .. n) = n
  BY <1>1, FS_Interval
<1>6. f \in Surjection(1 .. n, S)
  BY <1>4, <1>5, FS_Injection
<1>7. PICK k \in 1 .. n : f[k] = x
  BY <1>6 DEF Surjection
<1>8. Len(f) = n
  BY <1>1, <1>3
<1> QED BY <1>7, <1>8 DEF f

\* Local JIDs are finitely many.
LEMMA LocalIsFinite == IsFiniteSet(Local)
  BY RosterAssumption, FS_AddElement DEF Local

\* What is read from the roster table is finite.
LEMMA ImageIsFinite ==
  ASSUME IsFiniteSet(items), NEW I \in SUBSET items, NEW type
  PROVE  IsFiniteSet({Stanza(i[1], i[2], type) : i \in I})
<1> DEFINE T == {Stanza(i[1], i[2], type) : i \in I}
           f == [i \in I |-> Stanza(i[1], i[2], type)]
<1>1. IsFiniteSet(I)
  BY FS_Subset
<1>2. f \in Surjection(I, T)
  BY DEF Surjection
<1> QED BY <1>1, <1>2, FS_Surjection

\* Appending stanzas for one contact.
LEMMA AppendKeeps ==
  ASSUME NEW tc \in [Contact -> Seq(Stanzas)], NEW it, NEW u \in Contact, NEW s \in Seq(Stanzas),
         Accepts(tc, it),
         \A k \in 1 .. Len(s) : s[k].type = "subscribed" => <<s[k].local, u>> \in it
  PROVE  /\ [tc EXCEPT ![u] = @ \o s] \in [Contact -> Seq(Stanzas)]
         /\ Accepts([tc EXCEPT ![u] = @ \o s], it)
<1> DEFINE new == [tc EXCEPT ![u] = @ \o s]
<1>1. new \in [Contact -> Seq(Stanzas)]
  OBVIOUS
<1>2. ASSUME NEW v \in Contact, NEW k \in 1 .. Len(new[v]), new[v][k].type = "subscribed"
      PROVE  <<new[v][k].local, v>> \in it
  <2>1. CASE v # u
    BY <1>2, <2>1 DEF Accepts
  <2>2. CASE v = u
    <3>1. new[v] = tc[v] \o s /\ tc[v] \in Seq(Stanzas)
      BY <2>2
    <3>2. k \in 1 .. Len(tc[v]) => new[v][k] = tc[v][k]
      BY <3>1
    <3>3. k \notin 1 .. Len(tc[v]) =>
            k - Len(tc[v]) \in 1 .. Len(s) /\ new[v][k] = s[k - Len(tc[v])]
      BY <3>1
    <3> QED BY <1>2, <2>2, <3>2, <3>3 DEF Accepts
  <2> QED BY <2>1, <2>2, Zenon
<1> QED BY <1>1, <1>2 DEF Accepts

\* A sequence over a set is one over a larger set.
LEMMA SeqOfMore ==
  ASSUME NEW S, NEW T, S \subseteq T, NEW s \in Seq(S)
  PROVE  s \in Seq(T)
  OBVIOUS

\* Appending stanzas for every contact; none of them accepts anything.
LEMMA ListsKeep ==
  ASSUME TypeOK, Carried, NEW S \in SUBSET Stanzas, IsFiniteSet(S),
         \A m \in S : m.type # "subscribed"
  PROVE  Lists(S) \in [Contact -> Seq(Stanzas)] /\ Accepts(Lists(S), items)
<1> DEFINE own(u) == SetToSeq({m \in S : m.remote = u})
<1>1. ASSUME NEW u \in Contact PROVE own(u) \in Seq(S)
  <2>1. IsFiniteSet({m \in S : m.remote = u})
    BY FS_Subset
  <2>2. own(u) \in Seq({m \in S : m.remote = u})
    BY <2>1, SetToSeqIsSeq
  <2> QED BY <2>2
<1>2. ASSUME NEW u \in Contact PROVE to_contact[u] \in Seq(Stanzas) /\ own(u) \in Seq(Stanzas)
  <2> HIDE DEF own
  <2> QED BY <1>1, SeqOfMore DEF TypeOK
<1>3. Lists(S) \in [Contact -> Seq(Stanzas)]
  BY <1>2 DEF Lists
<1>4. ASSUME NEW u \in Contact, NEW k \in 1 .. Len(Lists(S)[u]),
             Lists(S)[u][k].type = "subscribed"
      PROVE  <<Lists(S)[u][k].local, u>> \in items
  <2> HIDE DEF own
  <2>1. Lists(S)[u] = to_contact[u] \o own(u)
    BY DEF Lists, own
  <2>2. k \notin 1 .. Len(to_contact[u]) => Lists(S)[u][k] \in S
    BY <1>1, <1>2, <2>1
  <2>3. k \in 1 .. Len(to_contact[u]) /\ Lists(S)[u][k] = to_contact[u][k]
    BY <1>2, <1>4, <2>1, <2>2
  <2> QED BY <1>4, <2>3 DEF Carried
<1> QED BY <1>3, <1>4 DEF Accepts

\* The stanzas of one JID and one contact.
LEMMA PresencesAre ==
  ASSUME NEW j \in Local, NEW u \in Contact, NEW types \in Seq(Types)
  PROVE  /\ Presences(j, u, types) \in Seq(Stanzas)
         /\ Len(Presences(j, u, types)) = Len(types)
         /\ \A k \in 1 .. Len(types) : Presences(j, u, types)[k] = Stanza(j, u, types[k])
<1>1. \A k \in 1 .. Len(types) : Stanza(j, u, types[k]) \in Stanzas
  BY DEF Stanza, Stanzas
<1> QED BY <1>1 DEF Presences

\* What a user sends to several JIDs.
LEMMA ToStanzas ==
  ASSUME NEW u \in Contact, NEW S \in SUBSET Local, NEW type \in Types
  PROVE  IsFiniteSet({Stanza(j, u, type) : j \in S}) /\ {Stanza(j, u, type) : j \in S} \subseteq Stanzas
<1> DEFINE T == {Stanza(j, u, type) : j \in S}
           f == [j \in S |-> Stanza(j, u, type)]
<1>1. IsFiniteSet(S)
  BY LocalIsFinite, FS_Subset
<1>2. f \in Surjection(S, T)
  BY DEF Surjection
<1>3. IsFiniteSet(T)
  BY <1>1, <1>2, FS_Surjection
<1>4. T \subseteq Stanzas
  BY DEF Stanza, Stanzas
<1> QED BY <1>3, <1>4

\* send_presence_to_contact() for each of S writes a list of stanzas.
LEMMA ToIsSeq ==
  ASSUME NEW u \in Contact, NEW S \in SUBSET Local, NEW type \in Types
  PROVE  To(u, S, type) \in Seq(Stanzas)
<1> DEFINE T == {Stanza(j, u, type) : j \in S}
<1>1. IsFiniteSet(T) /\ T \subseteq Stanzas
  BY ToStanzas
<1> HIDE DEF T
<1>2. SetToSeq(T) \in Seq(T)
  BY <1>1, SetToSeqIsSeq
<1> QED BY <1>1, <1>2 DEF To, T

\* No element of S is left out of that list.
LEMMA ToHasAll ==
  ASSUME NEW u \in Contact, NEW S \in SUBSET Local, NEW type \in Types, NEW j \in S
  PROVE  \E k \in 1 .. Len(To(u, S, type)) : To(u, S, type)[k] = Stanza(j, u, type)
<1> DEFINE T == {Stanza(i, u, type) : i \in S}
<1>1. IsFiniteSet(T) /\ Stanza(j, u, type) \in T
  BY ToStanzas
<1> HIDE DEF T
<1> QED BY <1>1, SetToSeqAll, Zenon DEF To, T

\* Sending to one contact, in a handler that takes no item away.
LEMMA SendsKeeps ==
  ASSUME TypeOK, Carried, NEW u \in Contact, NEW s \in Seq(Stanzas), Sends(u, s),
         items \subseteq items',
         \A k \in 1 .. Len(s) : s[k].type = "subscribed" => <<s[k].local, u>> \in items'
  PROVE  to_contact' \in [Contact -> Seq(Stanzas)] /\ Carried'
<1>1. Accepts(to_contact, items')
  BY DEF Carried, Accepts
<1>2. CASE ~link
  BY <1>1, <1>2 DEF Sends, TypeOK, Carried, Accepts
<1>3. CASE link
  <2>1. to_contact' = [to_contact EXCEPT ![u] = @ \o s]
    BY <1>3 DEF Sends
  <2>2. to_contact' \in [Contact -> Seq(Stanzas)] /\ Accepts(to_contact', items')
    BY <1>1, <2>1, AppendKeeps, Zenon DEF TypeOK
  <2> QED BY <2>2 DEF Carried, Accepts
<1> QED BY <1>2, <1>3

\* Only a subscription is answered with an acceptance.
LEMMA RepliesAre ==
  ASSUME NEW j, NEW u, NEW type
  PROVE  /\ Replies(j, u, type) \in Seq(Types)
         /\ type # "subscribe" =>
              \A k \in 1 .. Len(Replies(j, u, type)) : Replies(j, u, type)[k] # "subscribed"
<1> DEFINE R == Replies(j, u, type)
           None(t) == \A k \in 1 .. Len(t) : t[k] # "subscribed"
<1>1. CASE type = "subscribe"
  <2>1. R = <<"subscribed", "available", "subscribe">> \/ R = <<"subscribed", "subscribe">>
    BY <1>1 DEF Replies
  <2>2. /\ <<"subscribed", "available", "subscribe">> \in Seq(Types)
        /\ <<"subscribed", "subscribe">> \in Seq(Types)
    BY DEF Types
  <2> QED BY <1>1, <2>1, <2>2, Zenon
<1>2. CASE type # "subscribe"
  <2>1. \/ R = <<"unavailable", "unsubscribed", "unsubscribe">>
        \/ R = <<"available">> \/ R = <<"unsubscribed">> \/ R = <<>>
    BY <1>2 DEF Replies
  <2>2. /\ <<"unavailable", "unsubscribed", "unsubscribe">> \in Seq(Types)
        /\ <<"available">> \in Seq(Types) /\ <<"unsubscribed">> \in Seq(Types) /\ <<>> \in Seq(Types)
    BY DEF Types
  <2>3. None(<<"unavailable", "unsubscribed", "unsubscribe">>)
    OBVIOUS
  <2>4. None(<<"available">>)
    OBVIOUS
  <2>5. None(<<"unsubscribed">>)
    OBVIOUS
  <2>6. None(<<>>)
    OBVIOUS
  <2> HIDE DEF None
  <2>7. None(R)
    BY <2>1, <2>3, <2>4, <2>5, <2>6
  <2> QED BY <2>1, <2>2, <2>7, Zenon DEF None
<1> QED BY <1>1, <1>2

\* handle_presence()
LEMMA OnPresenceKeeps ==
  ASSUME RosterInv, OnPresence
  PROVE  RosterInv'
<1> DEFINE m == Head(to_gateway)
           types == Replies(m.local, m.remote, m.type)
           s == Presences(m.local, m.remote, types)
<1>1. m \in Stanzas /\ to_gateway' \in Seq(Stanzas)
  BY DEF OnPresence, RosterInv, TypeOK
<1>2. m.local \in Local /\ m.remote \in Contact /\ m.type \in Types
  BY <1>1 DEF Stanzas
<1>3. Sends(m.remote, s)
  BY DEF OnPresence
<1>4. items' = IF m.type = "subscribe" THEN items \cup {<<m.local, m.remote>>} ELSE items
  BY DEF OnPresence, AddRosterItem
<1> HIDE DEF m
<1>5. types \in Seq(Types)
  BY RepliesAre
<1>6. m.type # "subscribe" => \A k \in 1 .. Len(types) : types[k] # "subscribed"
  BY RepliesAre
<1> HIDE DEF types
<1>7. /\ s \in Seq(Stanzas) /\ Len(s) = Len(types)
      /\ \A k \in 1 .. Len(types) : s[k] = Stanza(m.local, m.remote, types[k])
  BY <1>2, <1>5, PresencesAre
<1> HIDE DEF s
<1>8. ASSUME NEW k \in 1 .. Len(s), s[k].type = "subscribed"
      PROVE  <<s[k].local, m.remote>> \in items'
  <2>1. s[k] = Stanza(m.local, m.remote, types[k])
    BY <1>7
  <2>2. s[k].type = types[k] /\ s[k].local = m.local
    BY <2>1 DEF Stanza
  <2> QED BY <1>4, <1>6, <1>7, <1>8, <2>2
<1>9. to_contact' \in [Contact -> Seq(Stanzas)] /\ Carried'
  <2>1. items \subseteq items'
    BY <1>4
  <2> QED BY <1>2, <1>3, <1>7, <1>8, <2>1, SendsKeeps DEF RosterInv
<1>10. items' \subseteq Local \X Contact
  BY <1>2, <1>4 DEF RosterInv, TypeOK
<1>11. IsFiniteSet(items')
  <2>1. IsFiniteSet(items) /\ IsFiniteSet(items \cup {<<m.local, m.remote>>})
    BY FS_AddElement DEF RosterInv
  <2> QED BY <1>4, <2>1
<1>12. TypeOK' /\ Remembered'
  BY <1>1, <1>4, <1>9, <1>10 DEF OnPresence, RosterInv, TypeOK, Remembered, contactVars
<1> QED BY <1>9, <1>11, <1>12 DEF RosterInv

\* The steps of the IRC clients: at most one presence, and not an acceptance.
LEMMA TellItemKeeps ==
  ASSUME RosterInv, NEW u \in Contact, NEW s \in Server, NEW type \in Types \ {"subscribed"},
         TellItem(s, u, type), UNCHANGED items
  PROVE  to_contact' \in [Contact -> Seq(Stanzas)] /\ Carried'
<1> DEFINE one == <<Stanza(s, u, type)>>
           list == IF <<s, u>> \in items THEN one ELSE <<>>
<1>1. Stanza(s, u, type) \in Stanzas /\ Stanza(s, u, type).type # "subscribed"
  BY DEF Stanza, Stanzas, Local
<1>2. one \in Seq(Stanzas) /\ Len(one) = 1 /\ one[1] = Stanza(s, u, type)
  BY <1>1
<1>3. list \in Seq(Stanzas) /\ \A k \in 1 .. Len(list) : list[k].type # "subscribed"
  <2>1. CASE <<s, u>> \in items
    <3> HIDE DEF one
    <3> QED BY <1>1, <1>2, <2>1
  <2>2. CASE <<s, u>> \notin items
    BY <2>2
  <2> QED BY <2>1, <2>2
<1>4. Sends(u, list)
  BY DEF TellItem
<1> HIDE DEF list
<1> QED BY <1>3, <1>4, SendsKeeps DEF RosterInv

\* What an IRC client does to the rosters as it connects, is welcomed, is
\* disconnected or is removed forgets no subscription.
LEMMA ClientKeeps ==
  ASSUME RosterInv, NEW u \in Contact, NEW s \in Server,
         \/ Connect(u, s) \/ OnConnected(u, s) \/ OnConnectionFailed(u, s)
         \/ OnIrcClientConnected(u, s) \/ OnIrcClientDisconnected(u, s)
         \/ DisconnectedInBatch(u, s) \/ Clean(u, s)
  PROVE  RosterInv'
<1> USE DEF contactVars
<1>1. CASE Connect(u, s) \/ OnConnected(u, s) \/ OnConnectionFailed(u, s) \/ Clean(u, s)
  BY <1>1, Zenon DEF Connect, OnConnected, OnConnectionFailed, Clean, wires,
              RosterInv, TypeOK, Carried, Remembered
<1>2. CASE OnIrcClientConnected(u, s)
  <2>1. to_contact' \in [Contact -> Seq(Stanzas)] /\ Carried'
    BY <1>2, TellItemKeeps DEF OnIrcClientConnected, Types
  <2> QED BY <1>2, <2>1 DEF OnIrcClientConnected, RosterInv, TypeOK, Remembered
<1>3. ASSUME NEW state \in {"none", "closed"}, Disconnected(u, s, state), silent' \in BOOLEAN
      PROVE  RosterInv'
  <2>1. to_contact' \in [Contact -> Seq(Stanzas)] /\ Carried'
    BY <1>3, TellItemKeeps DEF Disconnected, Types
  <2> QED BY <1>3, <2>1 DEF Disconnected, RosterInv, TypeOK, Remembered
<1>4. CASE OnIrcClientDisconnected(u, s)
  BY <1>3, <1>4 DEF OnIrcClientDisconnected, RosterInv, TypeOK
<1>5. CASE DisconnectedInBatch(u, s)
  BY <1>3, <1>5 DEF DisconnectedInBatch
<1> QED BY <1>1, <1>2, <1>4, <1>5

\* A stanza for each of some items: shutdown() and after_handshake().
LEMMA TableKeeps ==
  ASSUME RosterInv, NEW I \in SUBSET items, NEW type \in Types \ {"subscribed"}
  PROVE  LET S == {Stanza(i[1], i[2], type) : i \in I}
         IN  Lists(S) \in [Contact -> Seq(Stanzas)] /\ Accepts(Lists(S), items)
<1> DEFINE S == {Stanza(i[1], i[2], type) : i \in I}
<1>1. IsFiniteSet(S)
  BY ImageIsFinite, Zenon DEF RosterInv
<1>2. S \subseteq Stanzas /\ \A m \in S : m.type # "subscribed"
  BY DEF RosterInv, TypeOK, Stanza, Stanzas
<1> HIDE DEF S
<1>3. Lists(S) \in [Contact -> Seq(Stanzas)] /\ Accepts(Lists(S), items)
  BY <1>1, <1>2, ListsKeep DEF RosterInv
<1> QED BY <1>3 DEF S

\* The stream ends: the types of what is set then.
LEMMA EndTypes ==
  ASSUME NEW b, NEW s, b = TRUE \/ b = FALSE, s = <<>>
  PROVE  b \in BOOLEAN /\ s \in Seq(Stanzas)
<1>1. b \in BOOLEAN
  BY Zenon
<1>2. s \in Seq(Stanzas)
  OBVIOUS
<1> QED BY <1>1, <1>2

\* The life of the process and of the stream.
LEMMA ProcessKeeps ==
  ASSUME RosterInv, Shutdown \/ Exit \/ Crash \/ LinkLost \/ AfterHandshake
  PROVE  RosterInv'
<1> USE DEF contactVars
<1>1. CASE Shutdown
  <2>1. to_contact' \in [Contact -> Seq(Stanzas)] /\ Accepts(to_contact', items)
    <3>1. CASE link
      <4>1. to_contact' = Lists({Stanza(i[1], i[2], "unavailable") : i \in items})
        BY <1>1, <3>1 DEF Shutdown
      <4> QED BY <4>1, TableKeeps DEF Types
    <3>2. CASE ~link
      BY <1>1, <3>2 DEF Shutdown, RosterInv, TypeOK, Carried, Accepts
    <3> QED BY <3>1, <3>2
  <2>2. Carried'
    BY <1>1, <2>1, Zenon DEF Shutdown, Carried, Accepts
  <2> QED BY <1>1, <2>1, <2>2, Zenon DEF Shutdown, RosterInv, TypeOK, Remembered
<1>2. CASE Exit
  <2>0. link' \in BOOLEAN /\ to_gateway' \in Seq(Stanzas)
    BY <1>2, EndTypes, Zenon DEF Exit
  <2>1. TypeOK'
    BY <1>2, <2>0 DEF Exit, RosterInv, TypeOK
  <2> QED BY <1>2, <2>1 DEF Exit, RosterInv, Carried, Remembered
<1>3. ASSUME StreamEnds, UNCHANGED items
      PROVE  to_contact' \in [Contact -> Seq(Stanzas)] /\ Carried'
  <2>1. PICK n \in [Contact -> 0 .. InFlight] :
          /\ \A u \in Contact : n[u] <= Len(to_contact[u])
          /\ to_contact' = [u \in Contact |-> SubSeq(to_contact[u], 1, n[u])]
    BY <1>3 DEF StreamEnds
  <2>2. ASSUME NEW u \in Contact
        PROVE  /\ to_contact'[u] \in Seq(Stanzas) /\ Len(to_contact'[u]) <= Len(to_contact[u])
               /\ \A k \in 1 .. Len(to_contact'[u]) : to_contact'[u][k] = to_contact[u][k]
    <3>1. to_contact[u] \in Seq(Stanzas) /\ to_contact'[u] = SubSeq(to_contact[u], 1, n[u])
      BY <2>1 DEF RosterInv, TypeOK
    <3>2. n[u] \in Int /\ 0 <= n[u] /\ n[u] <= Len(to_contact[u])
      BY <2>1
    <3> QED BY <3>1, <3>2
  <2>3. to_contact' \in [Contact -> Seq(Stanzas)]
    BY <2>1, <2>2
  <2>4. ASSUME NEW u \in Contact, NEW k \in 1 .. Len(to_contact'[u]), to_contact'[u][k].type = "subscribed"
        PROVE  <<to_contact'[u][k].local, u>> \in items'
    <3>1. to_contact[u] \in Seq(Stanzas)
      BY DEF RosterInv, TypeOK
    <3>2. k \in 1 .. Len(to_contact[u]) /\ to_contact'[u][k] = to_contact[u][k]
      BY <2>2, <2>4, <3>1
    <3> QED BY <1>3, <2>4, <3>2 DEF Carried, RosterInv
  <2>5. Carried'
    BY <2>4 DEF Carried
  <2> QED BY <2>3, <2>5
<1>4. CASE Crash
  <2>1. to_contact' \in [Contact -> Seq(Stanzas)] /\ Carried'
    BY <1>3, <1>4 DEF Crash
  <2>2. client' \in [Contact \X Server -> {"none", "connecting", "connected", "announced", "closed"}]
    BY <1>4 DEF Crash, RosterInv, TypeOK
  <2>3. UNCHANGED <<items, sub, asked, allowed, here, shown>>
    BY <1>4 DEF Crash, StreamEnds
  <2>4. process' = "off" /\ link' \in BOOLEAN /\ to_gateway' \in Seq(Stanzas) /\ silent' \in BOOLEAN
    BY <1>4, EndTypes, Zenon DEF Crash, StreamEnds
  <2>5. TypeOK'
    BY <2>1, <2>2, <2>3, <2>4 DEF RosterInv, TypeOK
  <2> QED BY <2>1, <2>3, <2>5 DEF RosterInv, Remembered
<1>5. CASE LinkLost
  <2>1. to_contact' \in [Contact -> Seq(Stanzas)] /\ Carried'
    BY <1>3, <1>5 DEF LinkLost, gatewayVars
  <2>2. UNCHANGED <<items, client, process, sub, asked, allowed, here, shown>>
    BY <1>5 DEF LinkLost, gatewayVars, StreamEnds
  <2>3. link' \in BOOLEAN /\ to_gateway' \in Seq(Stanzas) /\ silent' \in BOOLEAN
    BY <1>5, EndTypes, Zenon DEF LinkLost, StreamEnds
  <2>4. TypeOK'
    BY <2>1, <2>2, <2>3 DEF RosterInv, TypeOK
  <2> QED BY <2>1, <2>2, <2>4 DEF RosterInv, Remembered
<1>6. CASE AfterHandshake
  <2> DEFINE I == {i \in items : i[1] = Gateway}
  <2>1. to_contact' = Lists({Stanza(i[1], i[2], "probe") : i \in I})
    BY <1>6 DEF AfterHandshake
  <2>2. to_contact' \in [Contact -> Seq(Stanzas)] /\ Accepts(to_contact', items)
    <3>1. I \in SUBSET items /\ "probe" \in Types \ {"subscribed"}
      BY Zenon DEF Types
    <3> HIDE DEF I
    <3> QED BY <2>1, <3>1, TableKeeps
  <2>3. Carried'
    BY <1>6, <2>2 DEF AfterHandshake, Carried, Accepts
  <2> QED BY <1>6, <2>2, <2>3 DEF AfterHandshake, RosterInv, TypeOK, Remembered
<1> QED BY <1>1, <1>2, <1>4, <1>5, <1>6

\* What a user posts is a sequence of stanzas.
LEMMA PostsKeeps ==
  ASSUME RosterInv, NEW s \in Seq(Stanzas), Posts(s)
  PROVE  to_gateway' \in Seq(Stanzas)
  BY DEF Posts, RosterInv, TypeOK

\* The users and their server.
LEMMA UserKeeps ==
  ASSUME RosterInv, NEW u \in Contact, NEW j \in Local,
         UserSubscribes(u, j) \/ UserRemoves(u, j) \/ UserComes(u) \/ UserLeaves(u)
  PROVE  RosterInv'
<1> USE DEF gatewayVars
<1>0. \A type \in Types : Stanza(j, u, type) \in Stanzas
  BY DEF Stanza, Stanzas
<1>1. CASE UserSubscribes(u, j)
  <2>1. <<Stanza(j, u, "subscribe")>> \in Seq(Stanzas)
    BY <1>0, SMTT(20) DEF Types
  <2>2. to_gateway' \in Seq(Stanzas)
    BY <1>1, <2>1, PostsKeeps, Zenon DEF UserSubscribes
  <2> QED BY <1>1, <2>2 DEF UserSubscribes, RosterInv, TypeOK, Carried, Remembered
<1>2. CASE UserRemoves(u, j)
  <2>1. <<Stanza(j, u, "unsubscribe"), Stanza(j, u, "unsubscribed")>> \in Seq(Stanzas)
    BY <1>0 DEF Types
  <2>2. to_gateway' \in Seq(Stanzas)
    BY <1>2, <2>1, PostsKeeps, Zenon DEF UserRemoves
  <2>3. TypeOK'
    BY <1>2, <2>2 DEF UserRemoves, RosterInv, TypeOK
  <2>4. Carried' /\ Remembered'
    BY <1>2, Zenon DEF UserRemoves, RosterInv, TypeOK, Carried, Remembered
  <2> QED BY <1>2, <2>3, <2>4 DEF UserRemoves, RosterInv
<1>3. CASE UserComes(u)
  <2>1. To(u, sub[u], "probe") \in Seq(Stanzas) /\ To(u, allowed[u], "available") \in Seq(Stanzas)
    BY ToIsSeq DEF Types, RosterInv, TypeOK
  <2>2. To(u, sub[u], "probe") \o To(u, allowed[u], "available") \in Seq(Stanzas)
    BY <2>1
  <2>3. to_gateway' \in Seq(Stanzas)
    BY <1>3, <2>2, PostsKeeps, Zenon DEF UserComes
  <2> QED BY <1>3, <2>3 DEF UserComes, RosterInv, TypeOK, Carried, Remembered
<1>4. CASE UserLeaves(u)
  <2>1. To(u, allowed[u], "unavailable") \in Seq(Stanzas)
    BY ToIsSeq DEF Types, RosterInv, TypeOK
  <2>2. to_gateway' \in Seq(Stanzas)
    BY <1>4, <2>1, PostsKeeps DEF UserLeaves
  <2> QED BY <1>4, <2>2 DEF UserLeaves, RosterInv, TypeOK, Carried, Remembered
<1> QED BY <1>1, <1>2, <1>3, <1>4

\* The answers of a user are presences.
LEMMA AnswerIsSeq ==
  ASSUME NEW u, NEW j, NEW type
  PROVE  Answer(u, j, type) \in Seq(Types)
<1> DEFINE A == Answer(u, j, type)
<1>1. \/ A = <<"subscribed">> \o <<"available">> \/ A = <<"subscribed">> \o <<>>
      \/ A = <<"unsubscribed">> \/ A = <<"available">> \/ A = <<"unavailable">> \/ A = <<>>
  BY Zenon DEF Answer
<1>2. /\ <<"subscribed">> \in Seq(Types) /\ <<"unsubscribed">> \in Seq(Types)
      /\ <<"available">> \in Seq(Types) /\ <<"unavailable">> \in Seq(Types)
  BY DEF Types
<1>3. <<>> \in Seq(Types)
  OBVIOUS
<1>4. /\ <<"subscribed">> \o <<"available">> \in Seq(Types)
      /\ <<"subscribed">> \o <<>> \in Seq(Types)
  BY <1>2, <1>3
<1> QED BY <1>1, <1>2, <1>3, <1>4, Zenon

\* A stanza reaches a user.  This is where Carried is needed.
LEMMA UserReceivesKeeps ==
  ASSUME RosterInv, NEW u \in Contact, UserReceives(u)
  PROVE  RosterInv'
<1> DEFINE m == Head(to_contact[u])
<1>1. to_contact[u] \in Seq(Stanzas) /\ to_contact[u] # <<>>
  BY Zenon DEF UserReceives, RosterInv, TypeOK
<1>2. /\ m = to_contact[u][1] /\ 1 \in 1 .. Len(to_contact[u]) /\ m \in Stanzas
      /\ Tail(to_contact[u]) \in Seq(Stanzas)
      /\ Len(Tail(to_contact[u])) = Len(to_contact[u]) - 1
      /\ \A k \in 1 .. Len(to_contact[u]) - 1 : Tail(to_contact[u])[k] = to_contact[u][k + 1]
  BY <1>1
<1>3. m.local \in Local /\ m.type \in Types
  BY <1>2, Zenon DEF Stanzas
<1>4. to_contact' = [to_contact EXCEPT ![u] = Tail(@)] /\ UNCHANGED <<items, client, process, link, here, silent>>
  BY DEF UserReceives, gatewayVars
<1>5. to_contact' \in [Contact -> Seq(Stanzas)]
  BY <1>2, <1>4 DEF RosterInv, TypeOK
<1>6. Carried'
  <2> SUFFICES ASSUME NEW v \in Contact, NEW k \in 1 .. Len(to_contact'[v]),
                      to_contact'[v][k].type = "subscribed"
               PROVE  <<to_contact'[v][k].local, v>> \in items
    BY <1>4 DEF Carried
  <2>1. CASE v # u
    BY <1>4, <2>1 DEF RosterInv, TypeOK, Carried
  <2>2. CASE v = u
    <3>1. to_contact'[v] = Tail(to_contact[u])
      BY <1>4, <2>2 DEF RosterInv, TypeOK
    <3>2. k + 1 \in 1 .. Len(to_contact[u]) /\ to_contact'[v][k] = to_contact[u][k + 1]
      BY <1>1, <1>2, <3>1
    <3> QED BY <2>2, <3>2 DEF RosterInv, Carried
  <2> QED BY <2>1, <2>2, Zenon
<1>7. m.type = "subscribed" => <<m.local, u>> \in items
  BY <1>2, SMTT(20) DEF RosterInv, Carried
<1>8. to_gateway' \in Seq(Stanzas)
  <2>1. Presences(m.local, u, Answer(u, m.local, m.type)) \in Seq(Stanzas)
    BY <1>3, AnswerIsSeq, PresencesAre, ZenonT(30)
  <2> QED BY <2>1, PostsKeeps DEF UserReceives
<1> HIDE DEF m
<1>9. /\ sub' = [sub EXCEPT ![u] = IF m.type = "subscribed" /\ m.local \in asked[u]
                                   THEN @ \cup {m.local}
                                   ELSE IF m.type = "unsubscribed" THEN @ \ {m.local} ELSE @]
      /\ asked' = [asked EXCEPT ![u] = IF m.type \in {"subscribed", "unsubscribed"}
                                       THEN @ \ {m.local} ELSE @]
      /\ allowed' = [allowed EXCEPT ![u] =
                       IF m.type = "subscribe" THEN @ \cup {m.local}
                       ELSE IF m.type = "unsubscribe" THEN @ \ {m.local} ELSE @]
      /\ shown' = [shown EXCEPT ![u] =
                     IF m.type = "available" /\ m.local \in sub[u] /\ u \in here
                     THEN @ \cup {m.local}
                     ELSE IF m.type \in {"unavailable", "unsubscribed"} THEN @ \ {m.local} ELSE @]
  BY Zenon DEF UserReceives, m
<1>10. /\ sub' \in [Contact -> SUBSET Local] /\ asked' \in [Contact -> SUBSET Local]
       /\ allowed' \in [Contact -> SUBSET Local] /\ shown' \in [Contact -> SUBSET Local]
  BY <1>3, <1>9 DEF RosterInv, TypeOK
<1>11. TypeOK'
  BY <1>4, <1>5, <1>8, <1>10 DEF RosterInv, TypeOK
<1>12. Remembered'
  BY <1>4, <1>7, <1>9, Zenon DEF RosterInv, TypeOK, Remembered
<1> QED BY <1>4, <1>6, <1>11, <1>12, ZenonT(30) DEF RosterInv

\* The gateway starts with an empty table and no subscription.
LEMMA RosterInit == Init => RosterInv
<1> SUFFICES ASSUME Init PROVE RosterInv
  OBVIOUS
<1>1. <<>> \in Seq(Stanzas)
  OBVIOUS
<1>2. link \in BOOLEAN /\ silent \in BOOLEAN
  BY Zenon DEF Init
<1>3. TypeOK
  BY <1>1, <1>2 DEF Init, TypeOK
<1>4. IsFiniteSet(items)
  BY FS_EmptySet DEF Init
<1>5. Carried /\ Remembered
  BY DEF Init, Carried, Remembered
<1> QED BY <1>3, <1>4, <1>5 DEF RosterInv

\* Every step keeps the invariant.
LEMMA RosterStep == RosterInv /\ [Next]_vars => RosterInv'
<1> SUFFICES ASSUME RosterInv, [Next]_vars PROVE RosterInv'
  OBVIOUS
<1>1. CASE OnPresence
  BY <1>1, OnPresenceKeeps
<1>2. ASSUME NEW u \in Contact, NEW s \in Server,
             \/ Connect(u, s) \/ OnConnected(u, s) \/ OnConnectionFailed(u, s)
             \/ OnIrcClientConnected(u, s) \/ OnIrcClientDisconnected(u, s)
             \/ DisconnectedInBatch(u, s) \/ Clean(u, s)
      PROVE  RosterInv'
  BY <1>2, ClientKeeps
<1>3. CASE Shutdown \/ Exit \/ Crash \/ LinkLost \/ AfterHandshake
  BY <1>3, ProcessKeeps
<1>4. ASSUME NEW u \in Contact, NEW j \in Local, UserSubscribes(u, j) \/ UserRemoves(u, j)
      PROVE  RosterInv'
  BY <1>4, UserKeeps
<1>5. ASSUME NEW u \in Contact, UserComes(u) \/ UserLeaves(u)
      PROVE  RosterInv'
  <2>1. Gateway \in Local
    BY DEF Local
  <2> QED BY <1>5, <2>1, UserKeeps
<1>6. ASSUME NEW u \in Contact, UserReceives(u)
      PROVE  RosterInv'
  BY <1>6, UserReceivesKeeps, Zenon
<1>7. CASE UNCHANGED vars
  BY <1>7 DEF vars, RosterInv, TypeOK, Carried, Remembered
<1> QED BY <1>1, <1>2, <1>3, <1>4, <1>5, <1>6, <1>7 DEF Next

\* Whoever is subscribed to the gateway or to an IRC server is in the roster
\* table, however often the process crashed or lost its stream.
THEOREM RosterRemembers == Spec => []Remembered
<1>1. RosterInv => Remembered
  BY DEF RosterInv
<1> QED BY <1>1, RosterInit, RosterStep, PTL DEF Spec

-----------------------------------------------------------------------------
(* What the rosters show.  GatewayShown and ServerShown are about states   *)
(* with nothing in flight; the invariant has to say what the stanzas in    *)
(* flight will make of the rosters.                                        *)

\* Appending to a queue.
LEMMA Concats ==
  ASSUME NEW q \in Seq(Stanzas), NEW t \in Seq(Stanzas)
  PROVE  /\ Len(q) \in Nat /\ Len(t) \in Nat /\ Len(q \o t) = Len(q) + Len(t)
         /\ \A k \in 1 .. Len(q) : (q \o t)[k] = q[k]
         /\ \A k \in 1 .. Len(t) : (q \o t)[Len(q) + k] = t[k]
  OBVIOUS

\* No presence of j is ended by a queue and what is written behind it, if
\* none is by either.
LEMMA CalmAppend ==
  ASSUME NEW q \in Seq(Stanzas), NEW t \in Seq(Stanzas), NEW j, NEW n \in 1 .. Len(q) + 1
  PROVE  Calm(q \o t, j, n) <=> Calm(q, j, n) /\ Calm(t, j, 1)
<1>1. /\ Len(q) \in Nat /\ Len(t) \in Nat /\ Len(q \o t) = Len(q) + Len(t)
      /\ \A k \in 1 .. Len(q) : (q \o t)[k] = q[k]
      /\ \A k \in 1 .. Len(t) : (q \o t)[Len(q) + k] = t[k]
  BY SMTT(20)
<1>2. ASSUME Calm(q \o t, j, n) PROVE Calm(q, j, n) /\ Calm(t, j, 1)
  <2>1. \A k \in n .. Len(q) : ~Ends(q[k], j)
    BY <1>1, <1>2 DEF Calm
  <2>2. ASSUME NEW k \in 1 .. Len(t) PROVE ~Ends(t[k], j)
    <3>1. Len(q) + k \in n .. Len(q \o t) /\ (q \o t)[Len(q) + k] = t[k]
      BY ONLY <1>1, <2>2, n \in 1 .. Len(q) + 1
    <3> QED BY <1>2, <3>1, Zenon DEF Calm
  <2> QED BY <2>1, <2>2 DEF Calm
<1>3. ASSUME Calm(q, j, n), Calm(t, j, 1) PROVE Calm(q \o t, j, n)
  <2> SUFFICES ASSUME NEW k \in n .. Len(q \o t) PROVE ~Ends((q \o t)[k], j)
    BY DEF Calm
  <2>1. CASE k <= Len(q)
    BY <1>1, <1>3, <2>1 DEF Calm
  <2>2. CASE ~(k <= Len(q))
    <3>1. k - Len(q) \in 1 .. Len(t) /\ (q \o t)[k] = t[k - Len(q)]
      <4>1. k - Len(q) \in 1 .. Len(t) /\ Len(q) + (k - Len(q)) = k
        BY ONLY <1>1, <2>2, n \in 1 .. Len(q) + 1, k \in n .. Len(q \o t)
      <4> QED BY ONLY <1>1, <4>1
    <3> QED BY <1>3, <3>1, Zenon DEF Calm
  <2> QED BY <2>1, <2>2
<1> QED BY <1>2, <1>3

\* What is written last about j is what the roster will show of j.
LEMMA SettlesAppend ==
  ASSUME NEW q \in Seq(Stanzas), NEW t \in Seq(Stanzas), NEW j, NEW n \in 1 .. Len(q) + 1,
         Settles(t, j, 1) \/ (Settles(q, j, n) /\ Calm(t, j, 1))
  PROVE  Settles(q \o t, j, n)
<1>1. /\ Len(q) \in Nat /\ Len(t) \in Nat /\ Len(q \o t) = Len(q) + Len(t) /\ n \in Nat
      /\ \A k \in 1 .. Len(q) : (q \o t)[k] = q[k]
      /\ \A k \in 1 .. Len(t) : (q \o t)[Len(q) + k] = t[k]
  OBVIOUS
<1>2. CASE Settles(t, j, 1)
  <2>1. PICK k \in 1 .. Len(t) : \/ Begins(t[k], j) /\ Calm(t, j, k + 1)
                                 \/ t[k].local = j /\ t[k].type = "unsubscribed"
    BY <1>2, Zenon DEF Settles
  <2> DEFINE i == Len(q) + k
  <2>2. i \in n .. Len(q \o t) /\ (q \o t)[i] = t[k]
    BY ONLY <1>1, <2>1, n \in 1 .. Len(q) + 1
  <2>3. ASSUME Calm(t, j, k + 1) PROVE Calm(q \o t, j, i + 1)
    <3> SUFFICES ASSUME NEW l \in i + 1 .. Len(q \o t) PROVE ~Ends((q \o t)[l], j)
      BY DEF Calm
    <3>1. l - Len(q) \in k + 1 .. Len(t) /\ (q \o t)[l] = t[l - Len(q)]
      <4>1. /\ l - Len(q) \in 1 .. Len(t) /\ l - Len(q) \in k + 1 .. Len(t)
            /\ Len(q) + (l - Len(q)) = l
        BY ONLY <1>1, <2>1, l \in i + 1 .. Len(q \o t)
      <4> QED BY ONLY <1>1, <4>1
    <3> QED BY <2>3, <3>1, Zenon DEF Calm
  <2> HIDE DEF i
  <2> QED BY <2>1, <2>2, <2>3, Zenon DEF Settles
<1>3. CASE Settles(q, j, n) /\ Calm(t, j, 1)
  <2>1. PICK k \in n .. Len(q) : \/ Begins(q[k], j) /\ Calm(q, j, k + 1)
                                 \/ q[k].local = j /\ q[k].type = "unsubscribed"
    BY <1>3, Zenon DEF Settles
  <2>2. k \in n .. Len(q \o t) /\ (q \o t)[k] = q[k] /\ k + 1 \in 1 .. Len(q) + 1
    BY ONLY <1>1, <2>1, n \in 1 .. Len(q) + 1
  <2>3. Calm(q, j, k + 1) => Calm(q \o t, j, k + 1)
    BY <1>3, <2>2, CalmAppend
  <2> QED BY <2>1, <2>2, <2>3, Zenon DEF Settles
<1> QED BY <1>2, <1>3

\* An acceptance is still followed by its presence when more is written.
LEMMA FollowedAppend ==
  ASSUME NEW q \in Seq(Stanzas), NEW t \in Seq(Stanzas), NEW j,
         Followed(t, j), Settles(t, j, 1) \/ (Calm(t, j, 1) /\ Followed(q, j))
  PROVE  Followed(q \o t, j)
<1>1. /\ Len(q) \in Nat /\ Len(t) \in Nat /\ Len(q \o t) = Len(q) + Len(t)
      /\ \A k \in 1 .. Len(q) : (q \o t)[k] = q[k]
      /\ \A k \in 1 .. Len(t) : (q \o t)[Len(q) + k] = t[k]
  OBVIOUS
<1> SUFFICES ASSUME NEW k \in 1 .. Len(q \o t),
                    (q \o t)[k].local = j, (q \o t)[k].type = "subscribed"
             PROVE  Settles(q \o t, j, k + 1)
  BY DEF Followed
<1>2. CASE k <= Len(q)
  <2>1. k \in 1 .. Len(q) /\ k + 1 \in 1 .. Len(q) + 1 /\ (q \o t)[k] = q[k]
    BY <1>1, <1>2
  <2>2. Settles(t, j, 1) \/ (Settles(q, j, k + 1) /\ Calm(t, j, 1))
    BY <2>1, Zenon DEF Followed
  <2> QED BY <2>1, <2>2, SettlesAppend
<1>3. CASE ~(k <= Len(q))
  <2> DEFINE i == k - Len(q)
  <2>1. i \in 1 .. Len(t) /\ i \in Nat /\ k = Len(q) + i /\ (q \o t)[k] = t[i]
    <3>1. i \in 1 .. Len(t) /\ i \in Nat /\ k = Len(q) + i
      BY ONLY <1>1, <1>3, k \in 1 .. Len(q \o t)
    <3> QED BY ONLY <1>1, <3>1
  <2>2. Settles(t, j, i + 1)
    BY <2>1, Zenon DEF Followed
  <2> HIDE DEF i
  <2>3. PICK l \in i + 1 .. Len(t) : \/ Begins(t[l], j) /\ Calm(t, j, l + 1)
                                     \/ t[l].local = j /\ t[l].type = "unsubscribed"
    BY <2>2, Zenon DEF Settles
  <2> DEFINE p == Len(q) + l
  <2>4. p \in k + 1 .. Len(q \o t) /\ (q \o t)[p] = t[l] /\ l \in Nat
    <3>1. p \in k + 1 .. Len(q \o t) /\ l \in 1 .. Len(t) /\ l \in Nat
      BY ONLY <1>1, <2>1, <2>3
    <3> QED BY ONLY <1>1, <3>1
  <2>5. ASSUME Calm(t, j, l + 1) PROVE Calm(q \o t, j, p + 1)
    <3> SUFFICES ASSUME NEW x \in p + 1 .. Len(q \o t) PROVE ~Ends((q \o t)[x], j)
      BY Zenon DEF Calm
    <3>1. x - Len(q) \in l + 1 .. Len(t) /\ (q \o t)[x] = t[x - Len(q)]
      <4>1. /\ x - Len(q) \in 1 .. Len(t) /\ x - Len(q) \in l + 1 .. Len(t)
            /\ Len(q) + (x - Len(q)) = x
        BY ONLY <1>1, <2>4, x \in p + 1 .. Len(q \o t), SMTT(20)
      <4> QED BY ONLY <1>1, <4>1
    <3> QED BY <2>5, <3>1, Zenon DEF Calm
  <2> HIDE DEF p
  <2> QED BY <2>3, <2>4, <2>5, Zenon DEF Settles
<1> QED BY <1>2, <1>3

\* Taking the head of a queue.
LEMMA Tails ==
  ASSUME NEW q \in Seq(Stanzas), q # <<>>, NEW j
  PROVE  /\ Calm(Tail(q), j, 1) <=> Calm(q, j, 2)
         /\ Settles(q, j, 2) => Settles(Tail(q), j, 1)
         /\ Followed(q, j) => Followed(Tail(q), j)
         /\ \A n \in Nat \ {0} : Calm(Tail(q), j, n) <=> Calm(q, j, n + 1)
<1> DEFINE t == Tail(q)
<1>1. /\ Len(q) \in Nat \ {0} /\ Len(t) = Len(q) - 1
      /\ \A k \in 1 .. Len(q) - 1 : t[k] = q[k + 1]
  OBVIOUS
<1> HIDE DEF t
<1>2. ASSUME NEW n \in Nat \ {0} PROVE Calm(t, j, n) <=> Calm(q, j, n + 1)
  <2>1. ASSUME Calm(t, j, n), NEW k \in n + 1 .. Len(q) PROVE ~Ends(q[k], j)
    <3>1. k - 1 \in n .. Len(t) /\ t[k - 1] = q[k]
      <4>1. k - 1 \in n .. Len(t) /\ k - 1 \in 1 .. Len(q) - 1 /\ (k - 1) + 1 = k
        BY ONLY <1>1, <1>2, <2>1
      <4> QED BY ONLY <1>1, <4>1
    <3> QED BY <2>1, <3>1, Zenon DEF Calm
  <2>2. ASSUME Calm(q, j, n + 1), NEW k \in n .. Len(t) PROVE ~Ends(t[k], j)
    <3>1. k + 1 \in n + 1 .. Len(q) /\ t[k] = q[k + 1]
      BY ONLY <1>1, <1>2, <2>2
    <3> QED BY <2>2, <3>1, Zenon DEF Calm
  <2> QED BY <2>1, <2>2 DEF Calm
<1>3. ASSUME NEW n \in Nat \ {0}, Settles(q, j, n + 1) PROVE Settles(t, j, n)
  <2>1. PICK k \in n + 1 .. Len(q) : \/ Begins(q[k], j) /\ Calm(q, j, k + 1)
                                     \/ q[k].local = j /\ q[k].type = "unsubscribed"
    BY <1>3, Zenon DEF Settles
  <2> DEFINE i == k - 1
  <2>2. i \in n .. Len(t) /\ i \in Nat \ {0} /\ t[i] = q[k] /\ i + 1 \in Nat \ {0} /\ k + 1 = (i + 1) + 1
    <3>1. i \in n .. Len(t) /\ i \in Nat \ {0} /\ i + 1 = k /\ i \in 1 .. Len(q) - 1
      BY ONLY <1>1, <1>3, <2>1
    <3> QED BY ONLY <1>1, <3>1
  <2>3. Calm(q, j, k + 1) => Calm(t, j, i + 1)
    BY <1>2, <2>2
  <2> HIDE DEF i
  <2> QED BY <2>1, <2>2, <2>3, Zenon DEF Settles
<1>4. ASSUME Followed(q, j), NEW k \in 1 .. Len(t), t[k].local = j, t[k].type = "subscribed"
      PROVE  Settles(t, j, k + 1)
  <2>1. k + 1 \in 1 .. Len(q) /\ t[k] = q[k + 1] /\ k + 1 \in Nat \ {0}
    BY ONLY <1>1, <1>4
  <2>2. Settles(q, j, (k + 1) + 1)
    BY <1>4, <2>1, Zenon DEF Followed
  <2> QED BY <1>3, <2>1, <2>2
<1>5. (1 \in Nat \ {0}) /\ 1 + 1 = 2
  OBVIOUS
<1>6. Calm(t, j, 1) <=> Calm(q, j, 2)
  BY <1>2, <1>5
<1>7. Settles(q, j, 2) => Settles(t, j, 1)
  BY <1>3, <1>5
<1>8. Followed(q, j) => Followed(t, j)
  BY <1>4 DEF Followed
<1>9. \A n \in Nat \ {0} : Calm(t, j, n) <=> Calm(q, j, n + 1)
  BY <1>2
<1> QED BY <1>6, <1>7, <1>8, <1>9 DEF t

\* What a queue makes of a roster, split at the stanza that is read first.
LEMMA Heads ==
  ASSUME NEW q \in Seq(Stanzas), q # <<>>, NEW j
  PROVE  /\ Calm(q, j, 1) <=> Calm(q, j, 2) /\ ~Ends(q[1], j)
         /\ Settles(q, j, 1) => \/ Settles(q, j, 2)
                                \/ Begins(q[1], j) /\ Calm(q, j, 2)
                                \/ q[1].local = j /\ q[1].type = "unsubscribed"
<1>1. /\ Len(q) \in Nat \ {0} /\ 1 \in 1 .. Len(q) /\ \A k \in 2 .. Len(q) : k \in 1 .. Len(q)
      /\ \A k \in 1 .. Len(q) : k = 1 \/ k \in 2 .. Len(q)
  OBVIOUS
<1>2. Calm(q, j, 1) <=> Calm(q, j, 2) /\ ~Ends(q[1], j)
  BY <1>1, Zenon DEF Calm
<1>3. ASSUME Settles(q, j, 1)
      PROVE  \/ Settles(q, j, 2)
             \/ Begins(q[1], j) /\ Calm(q, j, 2)
             \/ q[1].local = j /\ q[1].type = "unsubscribed"
  <2>1. PICK k \in 1 .. Len(q) : \/ Begins(q[k], j) /\ Calm(q, j, k + 1)
                                 \/ q[k].local = j /\ q[k].type = "unsubscribed"
    BY <1>3, Zenon DEF Settles
  <2>2. (k = 1 /\ k + 1 = 2) \/ k \in 2 .. Len(q)
    BY <1>1, <2>1
  <2> QED BY <2>1, <2>2, Zenon DEF Settles
<1> QED BY <1>2, <1>3

\* Stanzas of others.
LEMMA Untouched ==
  ASSUME NEW t \in Seq(Stanzas), NEW j, \A k \in 1 .. Len(t) : t[k].local # j
  PROVE  Calm(t, j, 1) /\ Followed(t, j) /\ \A k \in 1 .. Len(t) : ~Says(t, j, k)
  BY DEF Calm, Followed, Ends, Says

\* Writing nothing changes nothing.
LEMMA Nothing ==
  ASSUME NEW q \in Seq(Stanzas), NEW j
  PROVE  /\ <<>> \in Seq(Stanzas) /\ q \o <<>> = q
         /\ Calm(<<>>, j, 1) /\ Followed(<<>>, j) /\ \A k \in 1 .. Len(<<>>) : ~Says(<<>>, j, k)
<1>1. <<>> \in Seq(Stanzas) /\ q \o <<>> = q /\ \A k \in 1 .. Len(<<>>) : <<>>[k].local # j
  BY SMTT(20)
<1> QED BY <1>1, Untouched, Zenon

\* A handler that writes t to a contact leaves its roster to be right, if t
\* does.
LEMMA Grows ==
  ASSUME NEW u \in Contact, NEW j, NEW t \in Seq(Stanzas), to_contact[u] \in Seq(Stanzas),
         to_contact'[u] = to_contact[u] \o t, Followed(t, j),
         \/ Settles(t, j, 1)
         \/ /\ Calm(t, j, 1) /\ Followed(to_contact[u], j) /\ Due(u, j)
            /\ Asking(u, j) => Asking(u, j)',
         UNCHANGED <<sub, allowed, here, shown>>
  PROVE  Followed(to_contact'[u], j) /\ Due(u, j)'
<1> DEFINE q == to_contact[u]
<1>1. 1 \in 1 .. Len(q) + 1
  OBVIOUS
<1> HIDE DEF q
<1>2. /\ q \in Seq(Stanzas) /\ to_contact'[u] = q \o t
      /\ Settles(t, j, 1) \/ (Calm(t, j, 1) /\ Followed(q, j))
  BY ZenonT(30) DEF q
<1>3. Followed(q \o t, j)
  BY <1>2, FollowedAppend
<1>4. CASE Settles(t, j, 1)
  <2>1. Settles(q \o t, j, 1)
    BY <1>1, <1>2, <1>4, SettlesAppend, Zenon
  <2> QED BY <1>2, <1>3, <2>1, Zenon DEF Due
<1>5. CASE Calm(t, j, 1) /\ Due(u, j) /\ (Asking(u, j) => Asking(u, j)')
  <2>1. Settles(q, j, 1) => Settles(q \o t, j, 1)
    BY <1>1, <1>2, <1>5, SettlesAppend, Zenon
  <2>2. Calm(q, j, 1) => Calm(q \o t, j, 1)
    BY <1>1, <1>2, <1>5, CalmAppend
  <2>3. sub' = sub /\ allowed' = allowed /\ here' = here /\ shown' = shown
    OBVIOUS
  <2>4. ASSUME u \in here /\ j \in sub[u] /\ (j = Gateway => j \in allowed[u])
        PROVE  Settles(q \o t, j, 1) \/ (j \in shown[u] /\ Calm(q \o t, j, 1)) \/ Asking(u, j)'
    <3>1. Settles(q, j, 1) \/ (j \in shown[u] /\ Calm(q, j, 1)) \/ Asking(u, j)
      BY <1>5, <2>4, Zenon DEF Due, q
    <3> QED BY <1>5, <2>1, <2>2, <3>1, Zenon
  <2>5. Due(u, j)'
    BY <1>2, <2>3, <2>4, Zenon DEF Due
  <2> QED BY <1>2, <1>3, <2>5
<1> QED BY <1>4, <1>5

\* A handler that speaks only for its own roster items adds no stranger.
LEMMA KnownGrows ==
  ASSUME NEW u \in Contact, NEW s, NEW t \in Seq(Stanzas), to_contact[u] \in Seq(Stanzas),
         to_contact'[u] = to_contact[u] \o t, Known(u, s), s \in shown'[u] => s \in shown[u],
         items \subseteq items', \A k \in 1 .. Len(t) : Says(t, s, k) => <<s, u>> \in items'
  PROVE  Known(u, s)'
<1> DEFINE q == to_contact[u]
           r == q \o t
<1>1. /\ Len(q) \in Nat /\ Len(t) \in Nat /\ Len(r) = Len(q) + Len(t)
      /\ \A k \in 1 .. Len(q) : r[k] = q[k]
      /\ \A k \in 1 .. Len(t) : r[Len(q) + k] = t[k]
  BY Concats, Zenon
<1> HIDE DEF q, r
<1>2. to_contact'[u] = r
  BY DEF q, r
<1>3. ASSUME NEW k \in 1 .. Len(r), Says(r, s, k) PROVE <<s, u>> \in items'
  <2>1. CASE k <= Len(q)
    <3>1. k \in 1 .. Len(q) /\ r[k] = q[k]
      BY <1>1, <2>1
    <3>2. Says(q, s, k)
      BY <1>3, <3>1, Zenon DEF Says
    <3>3. <<s, u>> \in items
      BY <3>1, <3>2, Zenon DEF Known, q
    <3> QED BY <3>3
  <2>2. CASE ~(k <= Len(q))
    <3>1. k - Len(q) \in 1 .. Len(t) /\ Len(q) + (k - Len(q)) = k
      BY ONLY <1>1, <1>3, <2>2
    <3>2. r[k] = t[k - Len(q)]
      BY ONLY <1>1, <3>1
    <3>3. Says(t, s, k - Len(q))
      BY <1>3, <3>2, Zenon DEF Says
    <3> QED BY <3>1, <3>3, Zenon
  <2> QED BY <2>1, <2>2
<1>4. ASSUME s \in shown'[u] PROVE <<s, u>> \in items'
  <2>1. <<s, u>> \in items
    BY <1>4, Zenon DEF Known
  <2> QED BY <2>1
<1> QED BY <1>2, <1>3, <1>4, Zenon DEF Known

\* A handler that does not speak for a server without a client leaves the
\* server hushed.
LEMMA HushGrows ==
  ASSUME NEW u \in Contact, NEW s, NEW t \in Seq(Stanzas), to_contact[u] \in Seq(Stanzas),
         to_contact'[u] = to_contact[u] \o t, s \in shown'[u] => s \in shown[u],
         Hushed(u, s), Known(u, s),
         client'[<<u, s>>] = "none" =>
           /\ client[<<u, s>>] = "none" \/ <<s, u>> \notin items \/ ~Calm(t, s, 1)
           /\ \A k \in 1 .. Len(t) : ~Says(t, s, k)
  PROVE  Hushed(u, s)'
<1> DEFINE q == to_contact[u]
           r == q \o t
<1>1. /\ Len(q) \in Nat /\ Len(t) \in Nat /\ Len(r) = Len(q) + Len(t)
      /\ \A k \in 1 .. Len(q) : r[k] = q[k]
      /\ \A k \in 1 .. Len(t) : r[Len(q) + k] = t[k]
  BY Concats, Zenon
<1>2. ASSUME NEW n \in 1 .. Len(q) + 1, Calm(r, s, n) PROVE Calm(q, s, n) /\ Calm(t, s, 1)
  BY <1>2, CalmAppend
<1> HIDE DEF q, r
<1>3. to_contact'[u] = r
  BY DEF q, r
<1> SUFFICES ASSUME client'[<<u, s>>] = "none"
             PROVE  /\ s \in shown'[u] => ~Calm(r, s, 1)
                    /\ \A k \in 1 .. Len(r) : Says(r, s, k) => ~Calm(r, s, k + 1)
  BY <1>3, Zenon DEF Hushed
<1>4. /\ s \in shown[u] => ~Calm(q, s, 1) \/ ~Calm(t, s, 1)
      /\ \A k \in 1 .. Len(q) : Says(q, s, k) => ~Calm(q, s, k + 1) \/ ~Calm(t, s, 1)
      /\ \A k \in 1 .. Len(t) : ~Says(t, s, k)
  BY Zenon DEF Hushed, Known, q
<1>5. s \in shown'[u] => ~Calm(r, s, 1)
  <2>1. 1 \in 1 .. Len(q) + 1
    BY <1>1
  <2> QED BY <1>2, <1>4, <2>1, Zenon
<1>6. ASSUME NEW k \in 1 .. Len(r), Says(r, s, k), Calm(r, s, k + 1) PROVE FALSE
  <2>1. CASE k <= Len(q)
    <3>1. k \in 1 .. Len(q) /\ k + 1 \in 1 .. Len(q) + 1 /\ r[k] = q[k]
      BY <1>1, <2>1
    <3>2. Says(q, s, k)
      BY <1>6, <3>1, Zenon DEF Says
    <3> QED BY <1>2, <1>4, <1>6, <3>1, <3>2, Zenon
  <2>2. CASE ~(k <= Len(q))
    <3>1. k - Len(q) \in 1 .. Len(t) /\ Len(q) + (k - Len(q)) = k
      BY ONLY <1>1, <1>6, <2>2
    <3>2. r[k] = t[k - Len(q)]
      BY ONLY <1>1, <3>1
    <3>3. Says(t, s, k - Len(q))
      BY <1>6, <3>2, Zenon DEF Says
    <3> QED BY <1>4, <3>1, <3>3, Zenon
  <2> QED BY <2>1, <2>2
<1> QED BY <1>5, <1>6

\* What the gateway answers about j while j has something to say.
LEMMA RepliesTell ==
  ASSUME NEW j \in Local, NEW u \in Contact, NEW type \in Types, Available(u, j),
         NEW x, x.local = j, x.remote = u, x.type = type
  PROVE  LET t == Presences(j, u, Replies(j, u, type))
         IN  Followed(t, j) /\ (Settles(t, j, 1) \/ (Calm(t, j, 1) /\ ~Asks(x, u, j)))
<1> DEFINE r == Replies(j, u, type)
           t == Presences(j, u, r)
<1>1. /\ Len(t) = Len(r)
      /\ \A k \in 1 .. Len(r) : t[k] = Stanza(j, u, r[k])
  BY RepliesAre, PresencesAre
<1>2. ASSUME NEW k \in 1 .. Len(r) PROVE t[k].local = j /\ t[k].type = r[k]
  <2>1. t[k] = Stanza(j, u, r[k])
    BY <1>1
  <2> HIDE DEF t, r
  <2> QED BY ONLY <2>1 DEF Stanza
<1>3. \/ r = <<"subscribed", "available", "subscribe">>
      \/ r = <<"unavailable", "unsubscribed", "unsubscribe">>
      \/ r = <<"available">>
      \/ r = <<"unsubscribed">>
      \/ r = <<>> /\ type \notin {"subscribe", "probe"} /\ ~(j = Gateway /\ type = "available")
  BY DEF Replies
<1> HIDE DEF r, t
<1>4. CASE r = <<"subscribed", "available", "subscribe">>
  <2>1. /\ Len(t) = 3 /\ t[1].local = j /\ t[1].type = "subscribed" /\ t[2].local = j
        /\ t[2].type = "available" /\ t[3].local = j /\ t[3].type = "subscribe"
    BY <1>1, <1>2, <1>4
  <2>2. 1 .. 3 = {1, 2, 3} /\ 2 .. 3 = {2, 3} /\ 3 .. 3 = {3} /\ 1 + 1 = 2 /\ 2 + 1 = 3
    OBVIOUS
  <2>3. Calm(t, j, 3) /\ Begins(t[2], j)
    BY ONLY <2>1, <2>2, Zenon DEF Calm, Ends, Begins
  <2>4. Settles(t, j, 1) /\ Settles(t, j, 2)
    BY ONLY <2>1, <2>2, <2>3 DEF Settles
  <2>5. Followed(t, j)
    BY ONLY <2>1, <2>2, <2>4 DEF Followed
  <2> QED BY <2>4, <2>5, Zenon DEF t, r
<1>5. CASE r = <<"unavailable", "unsubscribed", "unsubscribe">>
  <2>1. /\ Len(t) = 3 /\ t[1].type = "unavailable" /\ t[2].local = j
        /\ t[2].type = "unsubscribed" /\ t[3].type = "unsubscribe"
    BY <1>1, <1>2, <1>5
  <2>2. 1 .. 3 = {1, 2, 3}
    OBVIOUS
  <2>3. Settles(t, j, 1)
    BY ONLY <2>1, <2>2 DEF Settles
  <2>4. Followed(t, j)
    BY ONLY <2>1, <2>2 DEF Followed
  <2> QED BY <2>3, <2>4 DEF t, r
<1>6. CASE r = <<"available">>
  <2>1. Len(t) = 1 /\ t[1].local = j /\ t[1].type = "available"
    BY <1>1, <1>2, <1>6
  <2>2. 1 .. 1 = {1} /\ 1 + 1 = 2 /\ 2 .. 1 = {}
    OBVIOUS
  <2>3. Settles(t, j, 1)
    BY ONLY <2>1, <2>2 DEF Settles, Begins, Calm
  <2>4. Followed(t, j)
    BY ONLY <2>1, <2>2 DEF Followed
  <2> QED BY <2>3, <2>4 DEF t, r
<1>7. CASE r = <<"unsubscribed">>
  <2>1. Len(t) = 1 /\ t[1].local = j /\ t[1].type = "unsubscribed"
    BY <1>1, <1>2, <1>7
  <2>2. 1 .. 1 = {1}
    OBVIOUS
  <2>3. Settles(t, j, 1)
    BY ONLY <2>1, <2>2 DEF Settles
  <2>4. Followed(t, j)
    BY ONLY <2>1, <2>2 DEF Followed
  <2> QED BY <2>3, <2>4 DEF t, r
<1>8. CASE r = <<>> /\ type \notin {"subscribe", "probe"} /\ ~(j = Gateway /\ type = "available")
  <2>1. 1 .. Len(t) = {}
    BY <1>1, <1>8, SMTT(20)
  <2>2. Calm(t, j, 1) /\ Followed(t, j)
    BY ONLY <2>1 DEF Calm, Followed
  <2>3. ~Asks(x, u, j)
    BY <1>8 DEF Asks
  <2> QED BY <2>2, <2>3 DEF t, r
<1> QED BY <1>3, <1>4, <1>5, <1>6, <1>7, <1>8, Zenon

\* The presence of a server is given to those in the table, while the user has
\* a client for it.
LEMMA RepliesKnown ==
  ASSUME NEW j \in Local, j # Gateway, NEW u \in Contact, NEW type \in Types,
         NEW k \in 1 .. Len(Presences(j, u, Replies(j, u, type))),
         Says(Presences(j, u, Replies(j, u, type)), j, k)
  PROVE  client[<<u, j>>] # "none" /\ (type = "subscribe" \/ <<j, u>> \in items)
<1> DEFINE r == Replies(j, u, type)
           t == Presences(j, u, r)
<1>1. k \in 1 .. Len(r) /\ t[k] = Stanza(j, u, r[k])
  BY RepliesAre, PresencesAre
<1>2. r[k] = "available"
  BY <1>1 DEF Stanza, Says
<1>3. CASE Available(u, j) /\ (type = "subscribe" \/ (type = "probe" /\ <<j, u>> \in items))
  BY <1>3 DEF Available, FindIrcClient
<1>4. CASE ~(Available(u, j) /\ (type = "subscribe" \/ (type = "probe" /\ <<j, u>> \in items)))
  <2>1. \/ r = <<"subscribed", "subscribe">>
        \/ r = <<"unavailable", "unsubscribed", "unsubscribe">>
        \/ r = <<"unsubscribed">>
        \/ r = <<>>
    BY <1>4 DEF Replies
  <2> HIDE DEF r
  <2> QED BY ONLY <1>1, <1>2, <2>1
<1> QED BY <1>3, <1>4

\* What is asked stays asked until the gateway reads it.
LEMMA AskingTail ==
  ASSUME NEW u, NEW j, to_gateway \in Seq(Stanzas), to_gateway # <<>>,
         to_gateway' = Tail(to_gateway), Asking(u, j), ~Asks(Head(to_gateway), u, j)
  PROVE  Asking(u, j)'
<1>1. PICK k \in 1 .. Len(to_gateway) : Asks(to_gateway[k], u, j)
  BY Zenon DEF Asking
<1>2. /\ Len(to_gateway) \in Nat /\ Head(to_gateway) = to_gateway[1]
      /\ Len(to_gateway') = Len(to_gateway) - 1
      /\ \A i \in 1 .. Len(to_gateway) - 1 : to_gateway'[i] = to_gateway[i + 1]
  OBVIOUS
<1>3. k # 1
  BY <1>1, <1>2
<1>4. k - 1 \in 1 .. Len(to_gateway) - 1 /\ (k - 1) + 1 = k
  BY ONLY <1>1, <1>2, <1>3
<1>5. k - 1 \in 1 .. Len(to_gateway') /\ to_gateway'[k - 1] = to_gateway[k]
  BY ONLY <1>2, <1>4
<1> QED BY <1>1, <1>5, Zenon DEF Asking

\* A request in flight stays so while the user posts more.
LEMMA AskingPosts ==
  ASSUME NEW u, NEW j, to_gateway \in Seq(Stanzas), NEW s \in Seq(Stanzas), Posts(s), link,
         Asking(u, j) \/ \E k \in 1 .. Len(s) : Asks(s[k], u, j)
  PROVE  Asking(u, j)'
<1>1. to_gateway' = to_gateway \o s
  BY DEF Posts
<1>2. /\ Len(to_gateway) \in Nat /\ Len(s) \in Nat /\ Len(to_gateway') = Len(to_gateway) + Len(s)
      /\ \A k \in 1 .. Len(to_gateway) : to_gateway'[k] = to_gateway[k]
      /\ \A k \in 1 .. Len(s) : to_gateway'[Len(to_gateway) + k] = s[k]
  BY <1>1, Concats
<1>3. CASE Asking(u, j)
  <2>1. PICK k \in 1 .. Len(to_gateway) : Asks(to_gateway[k], u, j)
    BY <1>3, Zenon DEF Asking
  <2>2. k \in 1 .. Len(to_gateway') /\ to_gateway'[k] = to_gateway[k]
    BY ONLY <1>2, <2>1
  <2> QED BY <2>1, <2>2, Zenon DEF Asking
<1>4. CASE \E k \in 1 .. Len(s) : Asks(s[k], u, j)
  <2>1. PICK k \in 1 .. Len(s) : Asks(s[k], u, j)
    BY <1>4
  <2>2. /\ Len(to_gateway) + k \in 1 .. Len(to_gateway')
        /\ to_gateway'[Len(to_gateway) + k] = s[k]
    BY ONLY <1>2, <2>1
  <2> QED BY <2>1, <2>2, Zenon DEF Asking
<1> QED BY <1>3, <1>4

\* A handler that appends to the queues of the contacts.
LEMMA Appended ==
  ASSUME RosterInv, ShownInv, NEW add \in [Contact -> Seq(Stanzas)],
         \A v \in Contact : to_contact'[v] = to_contact[v] \o add[v],
         UNCHANGED <<sub, allowed, here, shown>>, items \subseteq items', Orderly',
         \A v \in Contact, i \in Local : Speaks(v, i)' =>
           /\ Followed(add[v], i)
           /\ \/ Settles(add[v], i, 1)
              \/ /\ Calm(add[v], i, 1) /\ (Asking(v, i) => Asking(v, i)')
                 /\ Speaks(v, i) \/ <<i, v>> \notin items,
         \A v \in Contact, s \in Server : \A k \in 1 .. Len(add[v]) :
           Says(add[v], s, k) => <<s, v>> \in items',
         ~silent' =>
           /\ ~silent
           /\ \A v \in Contact, s \in Server : client'[<<v, s>>] = "none" =>
                /\ client[<<v, s>>] = "none" \/ <<s, v>> \notin items \/ ~Calm(add[v], s, 1)
                /\ \A k \in 1 .. Len(add[v]) : ~Says(add[v], s, k)
  PROVE  ShownInv'
<1>1. ASSUME NEW v \in Contact PROVE to_contact[v] \in Seq(Stanzas) /\ add[v] \in Seq(Stanzas)
  BY Zenon DEF RosterInv, TypeOK
<1>2. Told'
  <2> SUFFICES ASSUME NEW v \in Contact, NEW i \in Local, Speaks(v, i)'
               PROVE  Followed(to_contact'[v], i) /\ Due(v, i)'
    BY Zenon DEF Told
  <2>1. ASSUME <<i, v>> \notin items
        PROVE  Followed(to_contact[v], i) /\ Due(v, i)
    <3>1. i \notin sub[v]
      BY <2>1, Zenon DEF RosterInv, Remembered
    <3>2. \A k \in 1 .. Len(to_contact[v]) :
            ~(to_contact[v][k].local = i /\ to_contact[v][k].type = "subscribed")
      BY <2>1, Zenon DEF RosterInv, Carried
    <3> QED BY <3>1, <3>2, Zenon DEF Followed, Due
  <2>2. Speaks(v, i) => Followed(to_contact[v], i) /\ Due(v, i)
    BY Zenon DEF ShownInv, Told
  <2>3. /\ Followed(add[v], i)
        /\ \/ Settles(add[v], i, 1)
           \/ /\ Calm(add[v], i, 1) /\ Followed(to_contact[v], i) /\ Due(v, i)
              /\ Asking(v, i) => Asking(v, i)'
    BY <2>1, <2>2, Zenon
  <2> QED BY <1>1, <2>3, Grows, Zenon
<1>3. ASSUME NEW v \in Contact, NEW s \in Server PROVE Known(v, s)'
  <2>1. Known(v, s) /\ (s \in shown'[v] => s \in shown[v])
    BY Zenon DEF ShownInv
  <2>2. \A k \in 1 .. Len(add[v]) : Says(add[v], s, k) => <<s, v>> \in items'
    BY Zenon
  <2> QED BY <1>1, <2>1, <2>2, KnownGrows, Zenon
<1>4. ASSUME NEW v \in Contact, NEW s \in Server, ~silent' PROVE Hushed(v, s)'
  <2>1. Known(v, s) /\ Hushed(v, s) /\ (s \in shown'[v] => s \in shown[v])
    BY <1>4, Zenon DEF ShownInv
  <2>2. client'[<<v, s>>] = "none" =>
           /\ client[<<v, s>>] = "none" \/ <<s, v>> \notin items \/ ~Calm(add[v], s, 1)
           /\ \A k \in 1 .. Len(add[v]) : ~Says(add[v], s, k)
    BY <1>4, Zenon
  <2> QED BY <1>1, <2>1, <2>2, HushGrows, Zenon
<1> QED BY <1>2, <1>3, <1>4, Zenon DEF ShownInv

\* handle_presence()
LEMMA OnPresenceShown ==
  ASSUME RosterInv, ShownInv, OnPresence
  PROVE  ShownInv'
<1> DEFINE m == Head(to_gateway)
           t == Presences(m.local, m.remote, Replies(m.local, m.remote, m.type))
           add == [v \in Contact |-> IF v = m.remote THEN t ELSE <<>>]
<1>1. /\ to_gateway \in Seq(Stanzas) /\ to_gateway # <<>> /\ to_gateway' = Tail(to_gateway)
      /\ m \in Stanzas /\ link
  BY DEF OnPresence, RosterInv, TypeOK
<1>2. m.local \in Local /\ m.remote \in Contact /\ m.type \in Types
  BY <1>1, Zenon DEF Stanzas
<1>3. /\ UNCHANGED <<client, process, link, silent, sub, allowed, here, shown>>
      /\ Sends(m.remote, t) /\ items \subseteq items'
      /\ m.type = "subscribe" => <<m.local, m.remote>> \in items'
  BY Zenon DEF OnPresence, contactVars, AddRosterItem
<1>4. Replies(m.local, m.remote, m.type) \in Seq(Types)
  BY RepliesAre, Zenon
<1>5. t \in Seq(Stanzas) /\ \A k \in 1 .. Len(t) : t[k].local = m.local
  <2>1. /\ t \in Seq(Stanzas) /\ Len(t) = Len(Replies(m.local, m.remote, m.type))
        /\ \A k \in 1 .. Len(t) : t[k] = Stanza(m.local, m.remote, Replies(m.local, m.remote, m.type)[k])
    BY <1>2, <1>4, PresencesAre
  <2>2. ASSUME NEW k \in 1 .. Len(t) PROVE t[k].local = m.local
    <3>1. t[k] = Stanza(m.local, m.remote, Replies(m.local, m.remote, m.type)[k])
      BY <2>1
    <3> HIDE DEF m, t
    <3> QED BY ONLY <3>1, SMTT(20) DEF Stanza
  <2> QED BY <2>1, <2>2, ZenonT(30)
<1>6. \A v \in Contact, i \in Local : v # m.remote \/ i # m.local => ~Asks(m, v, i)
  BY DEF Asks
<1>7. Available(m.remote, m.local) =>
        /\ Followed(t, m.local)
        /\ Settles(t, m.local, 1) \/ (Calm(t, m.local, 1) /\ ~Asks(m, m.remote, m.local))
  <2> HIDE DEF m
  <2> QED BY <1>2, RepliesTell, SMTT(20)
<1>8. ASSUME NEW k \in 1 .. Len(t), m.local # Gateway, Says(t, m.local, k)
      PROVE  client[<<m.remote, m.local>>] # "none" /\ <<m.local, m.remote>> \in items'
  <2> HIDE DEF m
  <2> QED BY <1>2, <1>3, <1>8, RepliesKnown, Zenon
<1>9. \A v \in Contact, i \in Local : Asking(v, i) => Asks(m, v, i) \/ Asking(v, i)'
  BY <1>1, AskingTail
<1> HIDE DEF m, t
<1>10. /\ add \in [Contact -> Seq(Stanzas)]
       /\ \A v \in Contact : to_contact'[v] = to_contact[v] \o add[v]
  <2>1. <<>> \in Seq(Stanzas) /\ to_contact \in [Contact -> Seq(Stanzas)]
    BY DEF RosterInv, TypeOK
  <2>2. to_contact' = [to_contact EXCEPT ![m.remote] = @ \o t]
    BY <1>1, <1>3 DEF Sends
  <2>3. ASSUME NEW v \in Contact, v # m.remote PROVE to_contact'[v] = to_contact[v] \o add[v]
    <3>1. add[v] = <<>> /\ to_contact'[v] = to_contact[v] /\ to_contact[v] \in Seq(Stanzas)
      BY <2>1, <2>2, <2>3
    <3> QED BY <3>1, Nothing, Zenon
  <2>4. to_contact'[m.remote] = to_contact[m.remote] \o add[m.remote]
    BY <1>2, <2>1, <2>2, Zenon
  <2> QED BY <1>5, <2>1, <2>3, <2>4, Zenon
<1>11. ASSUME NEW v \in Contact, NEW i \in Local, v # m.remote \/ i # m.local
       PROVE  Calm(add[v], i, 1) /\ Followed(add[v], i) /\ \A k \in 1 .. Len(add[v]) : ~Says(add[v], i, k)
  <2>1. add[v] \in Seq(Stanzas) /\ \A k \in 1 .. Len(add[v]) : add[v][k].local # i
    <3>1. CASE v = m.remote
      BY <1>5, <1>11, <3>1
    <3>2. CASE v # m.remote
      BY <1>10, <3>2
    <3> QED BY <3>1, <3>2
  <2> HIDE DEF add
  <2> QED BY <2>1, Untouched
<1>12. add[m.remote] = t
  BY <1>2, ZenonT(30)
<1> HIDE DEF add
<1>13. ASSUME NEW v \in Contact, NEW i \in Local, Speaks(v, i)'
       PROVE  /\ Followed(add[v], i)
              /\ \/ Settles(add[v], i, 1)
                 \/ /\ Calm(add[v], i, 1) /\ (Asking(v, i) => Asking(v, i)')
                    /\ Speaks(v, i) \/ <<i, v>> \notin items
  <2>1. Speaks(v, i)
    BY <1>3, <1>13 DEF Speaks
  <2>2. CASE v = m.remote /\ i = m.local
    <3>1. Available(v, i)
      BY <2>1 DEF Speaks, Available, FindIrcClient
    <3> QED BY <1>7, <1>9, <1>12, <2>1, <2>2, <3>1, Zenon
  <2>3. CASE v # m.remote \/ i # m.local
    BY <1>6, <1>9, <1>11, <2>1, <2>3, Zenon
  <2> QED BY <2>2, <2>3, SMTT(20)
<1>14. ASSUME NEW v \in Contact, NEW s \in Server, NEW k \in 1 .. Len(add[v]), Says(add[v], s, k)
       PROVE  <<s, v>> \in items' /\ client[<<v, s>>] # "none"
  <2>1. s \in Local /\ s # Gateway
    BY RosterAssumption DEF Local
  <2>2. v = m.remote /\ s = m.local
    BY <1>11, <1>14, <2>1, Zenon
  <2> QED BY <1>8, <1>12, <1>14, <2>1, <2>2, Zenon
<1>15. Orderly'
  BY <1>3 DEF ShownInv, Orderly
<1> QED BY <1>3, <1>10, <1>13, <1>14, <1>15, Appended, Zenon

\* A step that tells nobody anything, and makes nobody speak or fall silent.
LEMMA QuietShown ==
  ASSUME ShownInv, UNCHANGED <<items, to_contact, sub, allowed, here, shown>>, Orderly',
         \A v \in Contact, i \in Local :
           Speaks(v, i)' => Speaks(v, i) /\ (Asking(v, i) => Asking(v, i)'),
         ~silent' =>
           ~silent /\ \A v \in Contact, s \in Server :
                        client'[<<v, s>>] = "none" => client[<<v, s>>] = "none"
  PROVE  ShownInv'
<1>1. /\ items' = items /\ to_contact' = to_contact
      /\ sub' = sub /\ allowed' = allowed /\ here' = here /\ shown' = shown
  OBVIOUS
<1>2. ASSUME NEW v \in Contact, NEW i \in Local, Due(v, i), Asking(v, i) => Asking(v, i)'
      PROVE  Due(v, i)'
  BY <1>1, <1>2, Zenon DEF Due
<1>3. Told'
  <2> SUFFICES ASSUME NEW v \in Contact, NEW i \in Local, Speaks(v, i)'
               PROVE  Followed(to_contact'[v], i) /\ Due(v, i)'
    BY DEF Told
  <2>1. Followed(to_contact[v], i) /\ Due(v, i) /\ (Asking(v, i) => Asking(v, i)')
    BY Zenon DEF ShownInv, Told
  <2> QED BY <1>1, <1>2, <2>1, Zenon
<1>4. ASSUME NEW v \in Contact, NEW s \in Server PROVE Known(v, s)'
  <2>1. Known(v, s)
    BY Zenon DEF ShownInv
  <2> QED BY <1>1, <2>1, Zenon DEF Known
<1>5. ASSUME NEW v \in Contact, NEW s \in Server, ~silent' PROVE Hushed(v, s)'
  <2>1. Hushed(v, s) /\ (client'[<<v, s>>] = "none" => client[<<v, s>>] = "none")
    BY <1>5, Zenon DEF ShownInv
  <2> QED BY <1>1, <2>1, Zenon DEF Hushed
<1> QED BY <1>3, <1>4, <1>5, Zenon DEF ShownInv

\* What on_irc_client_connected() and on_irc_client_disconnected() write,
\* which is one presence to a user that has the server among its contacts.
LEMMA TellShown ==
  ASSUME RosterInv, NEW u \in Contact, NEW s \in Server, NEW type \in {"available", "unavailable"},
         TellItem(s, u, type), link
  PROVE  TellEffect(TellAdds(s, u, type), s, u, type)
<1> DEFINE add == TellAdds(s, u, type)
           x == Stanza(s, u, type)
           one == <<x>>
<1>1. x \in Stanzas /\ x.local = s /\ x.type = type
  BY DEF Stanza, Stanzas, Local, Types
<1> HIDE DEF x
<1>2. one \in Seq(Stanzas) /\ Len(one) = 1 /\ one[1] = x /\ 1 .. Len(one) = {1}
  BY <1>1
<1> HIDE DEF one
<1>3. \A v \in Contact : add[v] = IF v = u /\ <<s, u>> \in items THEN one ELSE <<>>
  BY DEF TellAdds, one, x
<1>4. to_contact \in [Contact -> Seq(Stanzas)] /\ <<>> \in Seq(Stanzas)
  BY DEF RosterInv, TypeOK
<1>5. add \in [Contact -> Seq(Stanzas)]
  <2>1. add = [v \in Contact |-> IF v = u /\ <<s, u>> \in items THEN one ELSE <<>>]
    BY DEF TellAdds, one, x
  <2> HIDE DEF add
  <2> QED BY <1>2, <1>4, <2>1
<1>6. to_contact' = [to_contact EXCEPT ![u] = @ \o (IF <<s, u>> \in items THEN one ELSE <<>>)]
  BY DEF TellItem, Sends, one, x
<1> HIDE DEF add
<1>7. ASSUME NEW v \in Contact PROVE to_contact'[v] = to_contact[v] \o add[v]
  <2>1. CASE v = u
    BY <1>3, <1>4, <1>6, <2>1, Zenon
  <2>2. CASE v # u
    <3>1. add[v] = <<>> /\ to_contact'[v] = to_contact[v] /\ to_contact[v] \in Seq(Stanzas)
      BY <1>3, <1>4, <1>6, <2>2
    <3> QED BY <3>1, Nothing, Zenon
  <2> QED BY <2>1, <2>2, Zenon
<1>8. ASSUME NEW v \in Contact, NEW i \in Local, v # u \/ i # s \/ <<s, u>> \notin items
      PROVE  /\ Calm(add[v], i, 1) /\ Followed(add[v], i)
             /\ \A k \in 1 .. Len(add[v]) : ~Says(add[v], i, k)
  <2>1. add[v] \in Seq(Stanzas) /\ \A k \in 1 .. Len(add[v]) : add[v][k].local # i
    <3>1. CASE v = u /\ <<s, u>> \in items
      <4>1. add[v] = one
        BY <1>3, <3>1
      <4> QED BY <1>1, <1>2, <1>8, <3>1, <4>1, Zenon
    <3>2. CASE ~(v = u /\ <<s, u>> \in items)
      <4>1. add[v] = <<>>
        BY <1>3, <3>2
      <4> QED BY ONLY <1>4, <4>1
    <3> QED BY <3>1, <3>2
  <2> QED BY <2>1, Untouched, Zenon
<1>9. ASSUME <<s, u>> \in items
      PROVE  /\ Followed(add[u], s)
             /\ type = "available" => Settles(add[u], s, 1)
             /\ type = "unavailable" => ~Calm(add[u], s, 1)
                                        /\ \A k \in 1 .. Len(add[u]) : ~Says(add[u], s, k)
  <2>1. add[u] = one
    BY <1>3, <1>9
  <2>2. Followed(one, s)
    BY <1>1, <1>2 DEF Followed
  <2>3. type = "available" => Settles(one, s, 1)
    BY <1>1, <1>2 DEF Settles, Begins, Calm
  <2>4. type = "unavailable" => ~Calm(one, s, 1) /\ \A k \in 1 .. Len(one) : ~Says(one, s, k)
    BY <1>1, <1>2 DEF Calm, Ends, Says
  <2> QED BY <2>1, <2>2, <2>3, <2>4, Zenon
<1>10. ASSUME NEW v \in Contact, NEW i \in Local PROVE Followed(add[v], i)
  BY <1>8, <1>9, Zenon
<1>11. TellEffect(add, s, u, type)
  BY <1>5, <1>7, <1>8, <1>9, <1>10, Zenon DEF TellEffect
<1> QED BY <1>11, Zenon DEF add

\* The IRC clients.
LEMMA ClientShown ==
  ASSUME RosterInv, ShownInv, NEW u \in Contact, NEW s \in Server,
         \/ Connect(u, s) \/ OnConnected(u, s) \/ OnConnectionFailed(u, s)
         \/ OnIrcClientConnected(u, s) \/ OnIrcClientDisconnected(u, s)
         \/ DisconnectedInBatch(u, s) \/ Clean(u, s)
  PROVE  ShownInv'
<1>0. /\ s # Gateway /\ s \in Local /\ silent \in BOOLEAN /\ <<u, s>> \in Contact \X Server
      /\ client = [k \in Contact \X Server |-> client[k]]
  BY RosterAssumption, Zenon DEF Local, RosterInv, TypeOK
<1>1. /\ ~silent => (link <=> process # "off")
      /\ ~silent => \A k \in Contact \X Server : client[k] # "closed" /\ (~link => client[k] = "none")
  BY DEF ShownInv, Orderly
<1>2. ASSUME NEW state, client' = [client EXCEPT ![<<u, s>>] = state]
      PROVE  /\ client'[<<u, s>>] = state
             /\ \A k \in Contact \X Server : k # <<u, s>> => client'[k] = client[k]
  BY <1>0, <1>2, Zenon
<1>3. CASE Connect(u, s) \/ OnConnected(u, s)
  <2>1. PICK state \in {"connecting", "connected"} : client' = [client EXCEPT ![<<u, s>>] = state]
    BY <1>3 DEF Connect, OnConnected
  <2>2. /\ UNCHANGED <<items, to_gateway, to_contact, sub, allowed, here, shown, process, link, silent>>
        /\ ~silent => link
    BY <1>1, <1>3 DEF Connect, OnConnected, wires, contactVars
  <2>3. Orderly'
    <3>1. ASSUME ~silent, NEW k \in Contact \X Server PROVE client'[k] # "closed"
      BY <1>1, <1>2, <2>1, <3>1, Zenon
    <3> QED BY <1>1, <2>2, <3>1, Zenon DEF Orderly
  <2>4. ASSUME NEW v \in Contact, NEW i \in Server
        PROVE  /\ client'[<<v, i>>] = "announced" => client[<<v, i>>] = "announced"
               /\ client'[<<v, i>>] = "none" => client[<<v, i>>] = "none"
    BY <1>2, <2>1, ZenonT(30)
  <2>5. ASSUME NEW v \in Contact, NEW i \in Local, Speaks(v, i)'
        PROVE  Speaks(v, i) /\ (Asking(v, i) => Asking(v, i)')
    <3>1. Asking(v, i) => Asking(v, i)'
      BY <2>2, Zenon DEF Asking
    <3> QED BY <2>2, <2>4, <2>5, <3>1, Zenon DEF Speaks, Local
  <2> QED BY <2>2, <2>3, <2>4, <2>5, QuietShown, Zenon
<1>4. CASE OnConnectionFailed(u, s) \/ Clean(u, s)
  <2>1. /\ UNCHANGED <<items, to_gateway, to_contact, sub, allowed, here, shown, process, link>>
        /\ silent'
    BY <1>0, <1>1, <1>4, Zenon DEF OnConnectionFailed, Clean, wires, contactVars
  <2>2. Orderly'
    BY <2>1, Zenon DEF Orderly
  <2>3. ASSUME NEW v \in Contact, NEW i \in Local, Speaks(v, i)'
        PROVE  Speaks(v, i) /\ (Asking(v, i) => Asking(v, i)')
    <3>1. Asking(v, i) => Asking(v, i)'
      BY <2>1 DEF Asking
    <3> QED BY <2>1, <2>3, <3>1, Zenon DEF Speaks
  <2> QED BY <2>1, <2>2, <2>3, QuietShown, Zenon
<1>5. CASE OnIrcClientConnected(u, s)
  <2>1. /\ UNCHANGED <<items, to_gateway, sub, allowed, here, shown, process, link, silent>>
        /\ client' = [client EXCEPT ![<<u, s>>] = "announced"] /\ process # "off"
        /\ TellItem(s, u, "available")
    BY <1>5 DEF OnIrcClientConnected, contactVars
  <2>2. Orderly'
    <3>1. ASSUME ~silent, NEW k \in Contact \X Server PROVE client'[k] # "closed"
      BY <1>1, <1>2, <2>1, <3>1, Zenon
    <3> QED BY <1>1, <2>1, <3>1, Zenon DEF Orderly
  <2>3. ASSUME NEW v \in Contact, NEW i \in Server
        PROVE  /\ v # u \/ i # s => client'[<<v, i>>] = client[<<v, i>>]
               /\ client'[<<v, i>>] = "none" => client[<<v, i>>] = "none" /\ (v # u \/ i # s)
    BY <1>2, <2>1, Zenon
  <2>4. CASE ~link
    <3>1. to_contact' = to_contact /\ silent
      BY <1>1, <2>1, <2>4 DEF TellItem, Sends
    <3>2. ASSUME NEW v \in Contact, NEW i \in Local PROVE ~Speaks(v, i)'
      BY <2>1, <2>4 DEF Speaks
    <3> QED BY <2>1, <2>2, <3>1, <3>2, QuietShown
  <2>5. CASE link
    <3> DEFINE add == TellAdds(s, u, "available")
    <3>1. /\ add \in [Contact -> Seq(Stanzas)]
          /\ \A v \in Contact : to_contact'[v] = to_contact[v] \o add[v]
          /\ \A v \in Contact, i \in Local :
               /\ Followed(add[v], i)
               /\ (v # u \/ i # s \/ <<s, u>> \notin items) =>
                    Calm(add[v], i, 1) /\ \A k \in 1 .. Len(add[v]) : ~Says(add[v], i, k)
          /\ <<s, u>> \in items => Settles(add[u], s, 1)
      <4>1. RosterInv /\ "available" \in {"available", "unavailable"} /\ TellItem(s, u, "available") /\ link
        BY <2>1, <2>5
      <4>2. TellEffect(add, s, u, "available")
        BY <4>1, TellShown
      <4> HIDE DEF add
      <4> QED BY <4>2, Zenon DEF TellEffect
    <3> HIDE DEF add
    <3>2. ASSUME NEW v \in Contact, NEW i \in Local, Speaks(v, i)'
          PROVE  /\ Followed(add[v], i)
                 /\ \/ Settles(add[v], i, 1)
                    \/ /\ Calm(add[v], i, 1) /\ (Asking(v, i) => Asking(v, i)')
                       /\ Speaks(v, i) \/ <<i, v>> \notin items
      <4>1. Asking(v, i) => Asking(v, i)'
        BY <2>1 DEF Asking
      <4>2. v # u \/ i # s => Speaks(v, i)
        BY <2>1, <2>3, <3>2 DEF Speaks, Local
      <4> QED BY <3>1, <4>1, <4>2, Zenon
    <3>3. ASSUME NEW v \in Contact, NEW i \in Server, NEW k \in 1 .. Len(add[v]), Says(add[v], i, k)
          PROVE  v = u /\ i = s /\ <<i, v>> \in items'
      <4>1. i \in Local
        BY DEF Local
      <4> QED BY <2>1, <3>1, <3>3, <4>1, Zenon
    <3>4. ASSUME NEW v \in Contact, NEW i \in Server, client'[<<v, i>>] = "none"
          PROVE  client[<<v, i>>] = "none" /\ \A k \in 1 .. Len(add[v]) : ~Says(add[v], i, k)
      BY <2>3, <3>3, <3>4, Zenon
    <3> QED BY <2>1, <2>2, <3>1, <3>2, <3>3, <3>4, Appended, Zenon
  <2> QED BY <2>4, <2>5
<1>6. ASSUME NEW state \in {"none", "closed"}, Disconnected(u, s, state), silent' \in BOOLEAN,
             state = "none" => silent' = silent, state = "closed" => silent'
      PROVE  ShownInv'
  <2>1. /\ UNCHANGED <<items, to_gateway, sub, allowed, here, shown, process, link>>
        /\ client' = [client EXCEPT ![<<u, s>>] = state] /\ process # "off"
        /\ TellItem(s, u, "unavailable")
    BY <1>6 DEF Disconnected, contactVars
  <2>2. ~silent' => ~silent /\ link /\ state = "none"
    BY <1>1, <1>6, <2>1
  <2>3. Orderly'
    <3>1. ASSUME ~silent', NEW k \in Contact \X Server PROVE client'[k] # "closed"
      BY <1>1, <1>2, <2>1, <2>2, <3>1, Zenon
    <3> QED BY <1>1, <2>1, <2>2, <3>1, Zenon DEF Orderly
  <2>4. ASSUME NEW v \in Contact, NEW i \in Server
        PROVE  /\ v # u \/ i # s => client'[<<v, i>>] = client[<<v, i>>]
               /\ client'[<<u, s>>] # "announced"
    BY <1>2, <1>6, <2>1, Zenon
  <2>5. CASE ~link
    <3>1. to_contact' = to_contact /\ silent'
      BY <1>6, <2>1, <2>2, <2>5 DEF TellItem, Sends
    <3>2. ASSUME NEW v \in Contact, NEW i \in Local PROVE ~Speaks(v, i)'
      BY <2>1, <2>5 DEF Speaks
    <3> QED BY <2>1, <2>3, <3>1, <3>2, QuietShown
  <2>6. CASE link
    <3> DEFINE add == TellAdds(s, u, "unavailable")
    <3>1. /\ add \in [Contact -> Seq(Stanzas)]
          /\ \A v \in Contact : to_contact'[v] = to_contact[v] \o add[v]
          /\ \A v \in Contact, i \in Local :
               /\ Followed(add[v], i)
               /\ (v # u \/ i # s \/ <<s, u>> \notin items) =>
                    Calm(add[v], i, 1) /\ \A k \in 1 .. Len(add[v]) : ~Says(add[v], i, k)
          /\ <<s, u>> \in items =>
               ~Calm(add[u], s, 1) /\ \A k \in 1 .. Len(add[u]) : ~Says(add[u], s, k)
      <4>1. RosterInv /\ "unavailable" \in {"available", "unavailable"} /\ TellItem(s, u, "unavailable") /\ link
        BY <2>1, <2>6
      <4>2. TellEffect(add, s, u, "unavailable")
        BY <4>1, TellShown
      <4> HIDE DEF add
      <4> QED BY <4>2, Zenon DEF TellEffect
    <3> HIDE DEF add
    <3>2. ASSUME NEW v \in Contact, NEW i \in Local, Speaks(v, i)'
          PROVE  /\ Followed(add[v], i)
                 /\ \/ Settles(add[v], i, 1)
                    \/ /\ Calm(add[v], i, 1) /\ (Asking(v, i) => Asking(v, i)')
                       /\ Speaks(v, i) \/ <<i, v>> \notin items
      <4>1. Asking(v, i) => Asking(v, i)'
        BY <2>1 DEF Asking
      <4>2. v # u \/ i # s
        BY <1>0, <2>4, <3>2 DEF Speaks
      <4>3. Speaks(v, i)
        BY <2>1, <2>2, <2>4, <3>2, <4>2 DEF Speaks, Local
      <4> QED BY <3>1, <4>1, <4>2, <4>3, Zenon
    <3>3. ASSUME NEW v \in Contact, NEW i \in Server, NEW k \in 1 .. Len(add[v]) PROVE ~Says(add[v], i, k)
      <4>1. i \in Local
        BY Zenon DEF Local
      <4> QED BY <3>1, <4>1
    <3>4. ASSUME NEW v \in Contact, NEW i \in Server, client'[<<v, i>>] = "none"
          PROVE  client[<<v, i>>] = "none" \/ <<i, v>> \notin items \/ ~Calm(add[v], i, 1)
      BY <2>4, <3>1, <3>4, Zenon
    <3> QED BY <2>1, <2>2, <2>3, <3>1, <3>2, <3>3, <3>4, Appended, Zenon
  <2> QED BY <2>5, <2>6
<1>7. CASE OnIrcClientDisconnected(u, s)
  BY <1>0, <1>6, <1>7 DEF OnIrcClientDisconnected
<1>8. CASE DisconnectedInBatch(u, s)
  BY <1>0, <1>6, <1>8 DEF DisconnectedInBatch
<1> QED BY <1>3, <1>4, <1>5, <1>7, <1>8, Zenon

\* What a walk over the roster table writes, contact by contact.
LEMMA TableShown ==
  ASSUME RosterInv, NEW I \in SUBSET items, NEW type \in Types
  PROVE  TableEffect(TableAdds(I, type), I, type)
<1> DEFINE S == {Stanza(i[1], i[2], type) : i \in I}
           own(v) == {m \in S : m.remote = v}
           add == TableAdds(I, type)
<1>1. IsFiniteSet(S) /\ S \subseteq Stanzas
  <2>1. IsFiniteSet(S)
    BY ImageIsFinite, Zenon DEF RosterInv
  <2>2. \A i \in I : Stanza(i[1], i[2], type) \in Stanzas
    BY DEF RosterInv, TypeOK, Stanza, Stanzas
  <2> QED BY <2>1, <2>2
<1>2. ASSUME NEW v \in Contact, NEW m \in own(v) PROVE m.type = type
  <2>1. PICK i \in I : m = Stanza(i[1], i[2], type)
    OBVIOUS
  <2> QED BY ONLY <2>1 DEF Stanza
<1>3. ASSUME NEW v \in Contact, NEW j \in Local, <<j, v>> \in I
      PROVE  Stanza(j, v, type) \in own(v) /\ Stanza(j, v, type).local = j
  <2>1. Stanza(j, v, type).remote = v /\ Stanza(j, v, type).local = j
    BY DEF Stanza
  <2>2. <<j, v>>[1] = j /\ <<j, v>>[2] = v
    OBVIOUS
  <2>3. Stanza(j, v, type) \in S
    BY <1>3, <2>2
  <2> QED BY <2>1, <2>3
<1>4. \A v \in Contact : add[v] = SetToSeq(own(v))
  BY DEF TableAdds
<1>5. \A v \in Contact : Lists(S)[v] = to_contact[v] \o add[v]
  BY <1>4, Zenon DEF Lists
<1>6. add = [v \in Contact |-> add[v]]
  BY DEF TableAdds
<1>7. \A v \in Contact : own(v) \subseteq S
  OBVIOUS
<1> HIDE DEF S, own, add
<1>8. ASSUME NEW v \in Contact
      PROVE  /\ add[v] \in Seq(own(v)) /\ add[v] \in Seq(Stanzas)
             /\ \A m \in own(v) : \E k \in 1 .. Len(add[v]) : add[v][k] = m
  <2>1. IsFiniteSet(own(v))
    BY <1>1, <1>7, FS_Subset
  <2>2. SetToSeq(own(v)) \in Seq(own(v))
    BY <2>1, SetToSeqIsSeq
  <2>3. SetToSeq(own(v)) \in Seq(Stanzas)
    BY <1>1, <1>7, <2>2
  <2> QED BY <1>4, <2>1, <2>2, <2>3, SetToSeqAll
<1>9. add \in [Contact -> Seq(Stanzas)]
  BY <1>6, <1>8
<1>10. ASSUME NEW v \in Contact, NEW k \in 1 .. Len(add[v])
       PROVE  add[v][k].type = type
  <2>1. add[v][k] \in own(v)
    BY <1>8
  <2> QED BY <1>2, <2>1
<1>11. ASSUME NEW v \in Contact, NEW j \in Local, <<j, v>> \in I
       PROVE  \E k \in 1 .. Len(add[v]) : add[v][k].local = j
  <2>1. PICK k \in 1 .. Len(add[v]) : add[v][k] = Stanza(j, v, type)
    BY <1>3, <1>8, <1>11
  <2> QED BY <1>3, <1>11, <2>1, Zenon
<1>12. TableEffect(add, I, type)
  BY <1>5, <1>9, <1>10, <1>11, Zenon DEF TableEffect, S
<1> QED BY <1>12, Zenon DEF add

\* The process and the stream.
LEMMA ProcessShown ==
  ASSUME RosterInv, ShownInv, Shutdown \/ Exit \/ Crash \/ LinkLost \/ AfterHandshake
  PROVE  ShownInv'
<1>1. /\ ~silent => (link <=> process # "off")
      /\ ~silent => \A k \in Contact \X Server : client[k] # "closed" /\ (~link => client[k] = "none")
      /\ link \in BOOLEAN /\ silent \in BOOLEAN
  BY DEF ShownInv, Orderly, RosterInv, TypeOK
<1>2. CASE Shutdown
  <2>1. /\ UNCHANGED <<items, client, link, to_gateway, sub, allowed, here, shown, silent>>
        /\ process = "running" /\ process' = "exiting"
    BY <1>2 DEF Shutdown, contactVars
  <2>2. Orderly'
    BY <1>1, <2>1 DEF Orderly
  <2>3. ASSUME NEW v \in Contact, NEW i \in Local PROVE ~Speaks(v, i)'
    BY <2>1, SMTT(20) DEF Speaks
  <2>4. CASE ~link
    <3>1. to_contact' = to_contact
      BY <1>2, <2>4, Zenon DEF Shutdown
    <3> QED BY <2>1, <2>2, <2>3, <3>1, QuietShown
  <2>5. CASE link
    <3> DEFINE add == TableAdds(items, "unavailable")
    <3>1. "unavailable" \in Types /\ items \in SUBSET items
      BY DEF Types
    <3>2. /\ add \in [Contact -> Seq(Stanzas)]
          /\ \A v \in Contact : Lists({Stanza(i[1], i[2], "unavailable") : i \in items})[v]
                                  = to_contact[v] \o add[v]
          /\ \A v \in Contact : \A k \in 1 .. Len(add[v]) : add[v][k].type = "unavailable"
      <4>1. TableEffect(add, items, "unavailable")
        BY <3>1, TableShown
      <4> HIDE DEF add
      <4> QED BY <4>1, Zenon DEF TableEffect
    <3>3. to_contact' = Lists({Stanza(i[1], i[2], "unavailable") : i \in items})
      BY <1>2, <2>5 DEF Shutdown
    <3> HIDE DEF add
    <3>4. \A v \in Contact : to_contact'[v] = to_contact[v] \o add[v]
      BY <3>2, <3>3, Zenon
    <3>5. ASSUME NEW v \in Contact, NEW s \in Server, NEW k \in 1 .. Len(add[v])
          PROVE  ~Says(add[v], s, k)
      BY <3>2, SMTT(20) DEF Says
    <3> QED BY <2>1, <2>2, <2>3, <3>2, <3>4, <3>5, Appended, Zenon
  <2> QED BY <2>4, <2>5
<1>3. CASE Exit
  <2>1. /\ UNCHANGED <<items, client, to_contact, sub, allowed, here, shown, silent>>
        /\ process' = "off" /\ ~link' /\ \A k \in Contact \X Server : client[k] = "none"
    BY <1>3 DEF Exit, contactVars, RosterInv, TypeOK
  <2>2. Orderly'
    BY <2>1 DEF Orderly
  <2>3. ASSUME NEW v \in Contact, NEW i \in Local PROVE ~Speaks(v, i)'
    BY <2>1 DEF Speaks
  <2> QED BY <2>1, <2>2, <2>3, QuietShown, SMTT(20)
<1>4. CASE Crash \/ LinkLost
  <2>1. StreamEnds /\ items' = items
    BY <1>4 DEF Crash, LinkLost, gatewayVars
  <2>2. shown' = shown /\ ~link' /\ silent'
    BY <2>1 DEF StreamEnds, contactVars
  <2>3. Told' /\ Orderly'
    BY <2>2 DEF Told, Speaks, Orderly
  <2>4. ASSUME NEW v \in Contact, NEW s \in Server PROVE Known(v, s)'
    <3>1. PICK n \in [Contact -> 0 .. InFlight] :
            /\ \A w \in Contact : n[w] <= Len(to_contact[w])
            /\ to_contact' = [w \in Contact |-> SubSeq(to_contact[w], 1, n[w])]
      BY <2>1, Zenon DEF StreamEnds
    <3>2. to_contact[v] \in Seq(Stanzas) /\ to_contact'[v] = SubSeq(to_contact[v], 1, n[v])
      BY <3>1 DEF RosterInv, TypeOK
    <3>3. n[v] \in Int /\ 0 <= n[v] /\ n[v] <= Len(to_contact[v])
      BY <3>1
    <3>4. \A k \in 1 .. Len(to_contact'[v]) :
            k \in 1 .. Len(to_contact[v]) /\ to_contact'[v][k] = to_contact[v][k]
      BY ONLY <3>2, <3>3
    <3>5. Known(v, s)
      BY DEF ShownInv
    <3> QED BY <2>1, <2>2, <3>4, <3>5, Zenon DEF Known, Says
  <2> QED BY <2>2, <2>3, <2>4, Zenon DEF ShownInv
<1>5. CASE AfterHandshake
  <2> DEFINE I == {i \in items : i[1] = Gateway}
             add == TableAdds(I, "probe")
  <2>1. /\ UNCHANGED <<items, client, to_gateway, sub, allowed, here, shown, silent>>
        /\ ~link /\ process' = "running" /\ link'
        /\ to_contact' = Lists({Stanza(i[1], i[2], "probe") : i \in I})
    BY <1>5, Zenon DEF AfterHandshake, contactVars
  <2>2. Orderly'
    BY <1>1, <2>1 DEF Orderly
  <2>3. \A v \in Contact, j \in Local : <<j, v>> \in I <=> j = Gateway /\ <<j, v>> \in items
    OBVIOUS
  <2>4. I \in SUBSET items /\ "probe" \in Types
    BY DEF Types
  <2> HIDE DEF I
  <2>5. /\ add \in [Contact -> Seq(Stanzas)]
        /\ \A v \in Contact : Lists({Stanza(i[1], i[2], "probe") : i \in I})[v] = to_contact[v] \o add[v]
        /\ \A v \in Contact : \A k \in 1 .. Len(add[v]) : add[v][k].type = "probe"
        /\ \A v \in Contact, j \in Local : <<j, v>> \in I =>
             \E k \in 1 .. Len(add[v]) : add[v][k].local = j
    <3>1. TableEffect(add, I, "probe")
      BY <2>4, TableShown, Zenon
    <3> HIDE DEF add
    <3> QED BY <3>1, Zenon DEF TableEffect
  <2> HIDE DEF add
  <2>6. \A v \in Contact : to_contact'[v] = to_contact[v] \o add[v]
    BY <2>1, <2>5, ZenonT(30)
  <2>7. ASSUME NEW v \in Contact, NEW i \in Local
        PROVE  /\ Followed(add[v], i) /\ Calm(add[v], i, 1)
               /\ \A k \in 1 .. Len(add[v]) : ~Says(add[v], i, k)
    BY <2>5 DEF Followed, Calm, Ends, Says
  <2>8. ASSUME NEW v \in Contact, <<Gateway, v>> \in items PROVE Settles(add[v], Gateway, 1)
    <3>1. Gateway \in Local
      BY DEF Local
    <3>2. PICK k \in 1 .. Len(add[v]) : add[v][k].local = Gateway
      BY <2>3, <2>5, <2>8, <3>1, ZenonT(30)
    <3>3. Begins(add[v][k], Gateway)
      BY <2>5, <3>2 DEF Begins
    <3>4. Calm(add[v], Gateway, k + 1)
      <4>1. \A l \in k + 1 .. Len(add[v]) : l \in 1 .. Len(add[v])
        BY <2>5, <3>2
      <4> QED BY <2>7, <3>1, <4>1, Zenon DEF Calm
    <3> QED BY <3>2, <3>3, <3>4, Zenon DEF Settles
  <2>9. ASSUME NEW v \in Contact, NEW i \in Local, Speaks(v, i)'
        PROVE  /\ Followed(add[v], i)
               /\ \/ Settles(add[v], i, 1)
                  \/ /\ Calm(add[v], i, 1) /\ (Asking(v, i) => Asking(v, i)')
                     /\ Speaks(v, i) \/ <<i, v>> \notin items
    <3>1. i = Gateway
      <4>1. ASSUME i # Gateway PROVE FALSE
        <5>1. i \in Server /\ <<v, i>> \in Contact \X Server
          BY <4>1, Zenon DEF Local
        <5>2. ~silent /\ client[<<v, i>>] = "announced"
          BY <2>1, <2>9, <4>1 DEF Speaks
        <5> QED BY <1>1, <2>1, <5>1, <5>2
      <4> QED BY <4>1, Zenon
    <3>2. Asking(v, i) => Asking(v, i)'
      BY <2>1, Zenon DEF Asking
    <3> QED BY <2>7, <2>8, <3>1, <3>2, Zenon
  <2>10. ASSUME NEW v \in Contact, NEW s \in Server, NEW k \in 1 .. Len(add[v])
         PROVE  ~Says(add[v], s, k)
    BY <2>5 DEF Says
  <2> QED BY <2>1, <2>2, <2>5, <2>6, <2>9, <2>10, Appended, Zenon
<1> QED BY <1>2, <1>3, <1>4, <1>5

\* A step of a user that reads nothing.
LEMMA PostShown ==
  ASSUME ShownInv, UNCHANGED <<items, client, process, link, silent, to_contact>>,
         \A v \in Contact : shown'[v] \subseteq shown[v],
         \A v \in Contact, i \in Local : link /\ Due(v, i) => Due(v, i)'
  PROVE  ShownInv'
<1>1. /\ items' = items /\ client' = client /\ process' = process /\ link' = link
      /\ silent' = silent /\ to_contact' = to_contact
  BY Zenon
<1>2. Told'
  <2> SUFFICES ASSUME NEW v \in Contact, NEW i \in Local, Speaks(v, i)'
               PROVE  Followed(to_contact'[v], i) /\ Due(v, i)'
    BY Zenon DEF Told
  <2>1. Speaks(v, i) /\ link
    BY <1>1 DEF Speaks
  <2>2. Followed(to_contact[v], i) /\ Due(v, i)
    BY <2>1, Zenon DEF ShownInv, Told
  <2> QED BY <1>1, <2>1, <2>2, ZenonT(30)
<1>3. Orderly'
  BY <1>1, SMTT(20) DEF ShownInv, Orderly
<1>4. ASSUME NEW v \in Contact, NEW s \in Server PROVE Known(v, s)' /\ (~silent' => Hushed(v, s)')
  <2>1. Known(v, s) /\ (~silent => Hushed(v, s)) /\ (s \in shown'[v] => s \in shown[v])
    BY DEF ShownInv
  <2>2. Known(v, s)'
    BY <1>1, <2>1, Zenon DEF Known
  <2>3. Hushed(v, s) => Hushed(v, s)'
    BY <1>1, <2>1, Zenon DEF Hushed
  <2> QED BY <1>1, <2>1, <2>2, <2>3, SMTT(20)
<1> QED BY <1>2, <1>3, <1>4, Zenon DEF ShownInv

\* The users and their server.
LEMMA UserShown ==
  ASSUME RosterInv, ShownInv, NEW u \in Contact, NEW j \in Local,
         UserSubscribes(u, j) \/ UserRemoves(u, j) \/ UserComes(u) \/ UserLeaves(u)
  PROVE  ShownInv'
<1>0. /\ \A type \in Types : Stanza(j, u, type) \in Stanzas
      /\ to_gateway \in Seq(Stanzas)
      /\ {"subscribe", "unsubscribe", "unsubscribed", "probe", "available", "unavailable"} \subseteq Types
  BY Zenon DEF Stanza, Stanzas, RosterInv, TypeOK, Types
<1>1. CASE UserSubscribes(u, j)
  <2>1. /\ UNCHANGED <<items, client, process, link, silent, to_contact, sub, allowed, here, shown>>
        /\ Posts(<<Stanza(j, u, "subscribe")>>)
    BY <1>1, Zenon DEF UserSubscribes, gatewayVars
  <2>2. <<Stanza(j, u, "subscribe")>> \in Seq(Stanzas)
    BY <1>0, SMTT(20)
  <2>3. ASSUME NEW v \in Contact, NEW i \in Local, link, Due(v, i) PROVE Due(v, i)'
    <3>1. Asking(v, i) => Asking(v, i)'
      BY <1>0, <2>1, <2>2, <2>3, AskingPosts, Zenon
    <3> QED BY <2>1, <2>3, <3>1, Zenon DEF Due
  <2> QED BY <2>1, <2>3, PostShown, ZenonT(30)
<1>2. CASE UserRemoves(u, j)
  <2>1. /\ UNCHANGED <<items, client, process, link, silent, to_contact, here>>
        /\ Posts(<<Stanza(j, u, "unsubscribe"), Stanza(j, u, "unsubscribed")>>)
    BY <1>2 DEF UserRemoves, gatewayVars
  <2>2. <<Stanza(j, u, "unsubscribe"), Stanza(j, u, "unsubscribed")>> \in Seq(Stanzas)
    BY <1>0, SMTT(20)
  <2>3. /\ \A v \in Contact : shown'[v] \subseteq shown[v]
        /\ j \notin sub'[u]
        /\ \A v \in Contact, i \in Local : v # u \/ i # j =>
             /\ i \in sub'[v] <=> i \in sub[v]
             /\ i \in allowed'[v] <=> i \in allowed[v]
             /\ i \in shown'[v] <=> i \in shown[v]
    BY <1>2 DEF UserRemoves, RosterInv, TypeOK
  <2>4. ASSUME NEW v \in Contact, NEW i \in Local, link, Due(v, i) PROVE Due(v, i)'
    <3>1. Asking(v, i) => Asking(v, i)'
      BY <1>0, <2>1, <2>2, <2>4, AskingPosts, Zenon
    <3>2. here' = here /\ to_contact' = to_contact
      BY <2>1
    <3>3. CASE v = u /\ i = j
      BY <2>3, <3>3, Zenon DEF Due
    <3>4. CASE v # u \/ i # j
      BY <2>3, <2>4, <3>1, <3>2, <3>4, Zenon DEF Due
    <3> QED BY <3>3, <3>4, Zenon
  <2> QED BY <2>1, <2>3, <2>4, PostShown, ZenonT(30)
<1>3. CASE UserComes(u)
  <2> DEFINE p == To(u, sub[u], "probe")
             a == To(u, allowed[u], "available")
  <2>1. /\ UNCHANGED <<items, client, process, link, silent, to_contact, sub, allowed, shown>>
        /\ here' = here \cup {u} /\ Posts(p \o a)
    BY <1>3 DEF UserComes, gatewayVars
  <2>2. sub[u] \subseteq Local /\ allowed[u] \subseteq Local
    BY ZenonT(30) DEF RosterInv, TypeOK
  <2>3. p \in Seq(Stanzas) /\ a \in Seq(Stanzas)
    BY <1>0, <2>2, ToIsSeq, Zenon
  <2>4. ASSUME NEW i \in sub[u] PROVE \E k \in 1 .. Len(p \o a) : Asks((p \o a)[k], u, i)
    <3>1. PICK k \in 1 .. Len(p) : p[k] = Stanza(i, u, "probe")
      BY <1>0, <2>2, ToHasAll, ZenonT(30)
    <3>2. Asks(Stanza(i, u, "probe"), u, i)
      BY ONLY DEF Asks, Stanza
    <3> HIDE DEF p, a
    <3>3. k \in 1 .. Len(p \o a) /\ (p \o a)[k] = p[k]
      BY ONLY <2>3, k \in 1 .. Len(p), Concats
    <3> QED BY <3>1, <3>2, <3>3, Zenon
  <2> HIDE DEF p, a
  <2>5. p \o a \in Seq(Stanzas)
    BY <2>3
  <2>6. ASSUME NEW v \in Contact, NEW i \in Local, link, Due(v, i) PROVE Due(v, i)'
    <3>1. Asking(v, i) => Asking(v, i)'
      BY <1>0, <2>1, <2>5, <2>6, AskingPosts, Zenon
    <3>2. v = u /\ i \in sub[u] => Asking(v, i)'
      BY <1>0, <2>1, <2>4, <2>5, <2>6, AskingPosts, Zenon
    <3>3. /\ sub' = sub /\ allowed' = allowed /\ shown' = shown /\ to_contact' = to_contact
          /\ v \in here' => v \in here \/ v = u
      BY <2>1
    <3> QED BY <2>6, <3>1, <3>2, <3>3, Zenon DEF Due
  <2> QED BY <2>1, <2>6, PostShown, Zenon
<1>4. CASE UserLeaves(u)
  <2>1. /\ UNCHANGED <<items, client, process, link, silent, to_contact, sub, allowed>>
        /\ here' = here \ {u} /\ shown' = [shown EXCEPT ![u] = {}]
        /\ Posts(To(u, allowed[u], "unavailable"))
    BY <1>4, Zenon DEF UserLeaves, gatewayVars
  <2>2. To(u, allowed[u], "unavailable") \in Seq(Stanzas)
    <3>1. allowed[u] \subseteq Local
      BY DEF RosterInv, TypeOK
    <3> QED BY <1>0, <3>1, ToIsSeq
  <2>3. /\ \A v \in Contact : shown'[v] \subseteq shown[v]
        /\ \A v \in Contact : v # u => shown'[v] = shown[v]
    BY <2>1 DEF RosterInv, TypeOK
  <2>4. ASSUME NEW v \in Contact, NEW i \in Local, link, Due(v, i) PROVE Due(v, i)'
    <3>1. Asking(v, i) => Asking(v, i)'
      BY <1>0, <2>1, <2>2, <2>4, AskingPosts, SMTT(20)
    <3>2. /\ sub' = sub /\ allowed' = allowed /\ to_contact' = to_contact
          /\ v \in here' => v \in here /\ v # u
      BY <2>1
    <3> QED BY <2>3, <2>4, <3>1, <3>2, ZenonT(30) DEF Due
  <2> QED BY <2>1, <2>3, <2>4, PostShown, Zenon
<1> QED BY <1>1, <1>2, <1>3, <1>4

\* What one stanza makes of the roster of its user, for the JID it is about.
LEMMA UserReads ==
  ASSUME RosterInv, NEW u \in Contact, UserReceives(u)
  PROVE  LET q == to_contact[u]
             m == q[1]
             j == m.local
         IN  /\ q \in Seq(Stanzas) /\ q # <<>> /\ m \in Stanzas
             /\ to_contact' = [to_contact EXCEPT ![u] = Tail(@)]
             /\ UNCHANGED <<items, client, process, link, here, silent>>
             /\ \A v \in Contact, i \in Local : v # u \/ i # j =>
                  /\ i \in sub'[v] <=> i \in sub[v]
                  /\ i \in allowed'[v] <=> i \in allowed[v]
                  /\ i \in shown'[v] <=> i \in shown[v]
             /\ m.type = "unsubscribed" => j \notin sub'[u]
             /\ m.type \notin {"subscribed", "unsubscribed"} => (j \in sub'[u] <=> j \in sub[u])
             /\ m.type = "unsubscribe" => j \notin allowed'[u]
             /\ m.type \notin {"subscribe", "unsubscribe"} => (j \in allowed'[u] <=> j \in allowed[u])
             /\ m.type = "available" /\ j \in sub[u] /\ u \in here => j \in shown'[u]
             /\ j \in shown'[u] =>
                  /\ j \in shown[u] \/ (m.type = "available" /\ j \in sub[u])
                  /\ ~Ends(m, j)
             /\ j \in shown[u] /\ ~Ends(m, j) => j \in shown'[u]
             /\ Posts(Presences(j, u, Answer(u, j, m.type)))
<1> DEFINE q == to_contact[u]
           m == q[1]
           j == m.local
<1>1. q \in Seq(Stanzas) /\ q # <<>>
  BY Zenon DEF UserReceives, RosterInv, TypeOK
<1>2. Head(q) = m /\ m \in Stanzas
  BY <1>1
<1>3. m.local \in Local /\ m.type \in Types
  BY <1>2, Zenon DEF Stanzas
<1>4. /\ to_contact' = [to_contact EXCEPT ![u] = Tail(@)]
      /\ UNCHANGED <<items, client, process, link, here, silent>>
      /\ Posts(Presences(j, u, Answer(u, j, m.type)))
  BY <1>2, Zenon DEF UserReceives, gatewayVars
<1>5. /\ sub' = [sub EXCEPT ![u] = IF m.type = "subscribed" /\ j \in asked[u] THEN @ \cup {j}
                                   ELSE IF m.type = "unsubscribed" THEN @ \ {j} ELSE @]
      /\ allowed' = [allowed EXCEPT ![u] =
                       IF m.type = "subscribe" THEN @ \cup {j}
                       ELSE IF m.type = "unsubscribe" THEN @ \ {j} ELSE @]
      /\ shown' = [shown EXCEPT ![u] =
                     IF m.type = "available" /\ j \in sub[u] /\ u \in here THEN @ \cup {j}
                     ELSE IF m.type \in {"unavailable", "unsubscribed"} THEN @ \ {j} ELSE @]
  BY <1>2, Zenon DEF UserReceives
<1>6. /\ sub \in [Contact -> SUBSET Local] /\ allowed \in [Contact -> SUBSET Local]
      /\ shown \in [Contact -> SUBSET Local]
  BY DEF RosterInv, TypeOK
<1>7. Ends(m, j) <=> m.type \in {"unavailable", "unsubscribed"}
  BY Zenon DEF Ends
<1> HIDE DEF j, m
<1>8. /\ \A v \in Contact, i \in Local : v # u \/ i # j =>
           /\ i \in sub'[v] <=> i \in sub[v]
           /\ i \in allowed'[v] <=> i \in allowed[v]
           /\ i \in shown'[v] <=> i \in shown[v]
  BY ONLY <1>5, <1>6, u \in Contact, Zenon
<1>9. /\ m.type = "unsubscribed" => j \notin sub'[u]
      /\ m.type \notin {"subscribed", "unsubscribed"} => (j \in sub'[u] <=> j \in sub[u])
      /\ m.type = "unsubscribe" => j \notin allowed'[u]
      /\ m.type \notin {"subscribe", "unsubscribe"} => (j \in allowed'[u] <=> j \in allowed[u])
  BY ONLY <1>5, <1>6, u \in Contact, Zenon
<1>10. /\ m.type = "available" /\ j \in sub[u] /\ u \in here => j \in shown'[u]
       /\ j \in shown'[u] =>
            /\ j \in shown[u] \/ (m.type = "available" /\ j \in sub[u])
            /\ ~Ends(m, j)
       /\ j \in shown[u] /\ ~Ends(m, j) => j \in shown'[u]
  BY ONLY <1>5, <1>6, <1>7, u \in Contact, Zenon
<1> QED BY <1>1, <1>2, <1>4, <1>8, <1>9, <1>10, Zenon DEF j, m

\* A user that may see the gateway answers its probe, and its request to see
\* the user, with a presence.
LEMMA AnswerAsks ==
  ASSUME NEW u \in Contact, u \in here, NEW type,
         \/ type = "probe" /\ Gateway \in allowed[u]
         \/ type = "subscribe" /\ Gateway \notin allowed[u]
  PROVE  LET s == Presences(Gateway, u, Answer(u, Gateway, type))
         IN  \E k \in 1 .. Len(s) : Asks(s[k], u, Gateway)
<1> DEFINE A == Answer(u, Gateway, type)
           s == Presences(Gateway, u, A)
<1>0. Gateway \in Local
  BY Zenon DEF Local
<1>1. /\ Len(s) = Len(A)
      /\ \A k \in 1 .. Len(A) : s[k] = Stanza(Gateway, u, A[k])
  BY <1>0, AnswerIsSeq, PresencesAre
<1>2. A = <<"available">> \/ A = <<"subscribed">> \o <<"available">>
  BY DEF Answer
<1> HIDE DEF A, s
<1>3. \E k \in 1 .. Len(A) : A[k] = "available"
  <2>1. CASE A = <<"available">>
    <3>1. 1 \in 1 .. Len(A) /\ A[1] = "available"
      BY <2>1
    <3> QED BY <3>1
  <2>2. CASE A = <<"subscribed">> \o <<"available">>
    <3>1. 2 \in 1 .. Len(A) /\ A[2] = "available"
      BY <2>2
    <3> QED BY <3>1
  <2> QED BY <1>2, <2>1, <2>2, Zenon
<1>4. PICK k \in 1 .. Len(A) : A[k] = "available"
  BY <1>3
<1>5. s[k] = Stanza(Gateway, u, "available") /\ k \in 1 .. Len(s)
  BY <1>1, <1>4
<1>6. Asks(s[k], u, Gateway)
  BY ONLY <1>5 DEF Asks, Stanza
<1> QED BY <1>5, <1>6, Zenon DEF s, A

\* A stanza reaches a user.
LEMMA UserReceivesShown ==
  ASSUME RosterInv, ShownInv, NEW u \in Contact, UserReceives(u)
  PROVE  ShownInv'
<1> DEFINE q == to_contact[u]
           m == q[1]
           j == m.local
           s == Presences(j, u, Answer(u, j, m.type))
<1>1. q \in Seq(Stanzas) /\ q # <<>> /\ m \in Stanzas /\ UNCHANGED <<items, client, process, link, here, silent>>
  BY UserReads, Zenon
<1>2. to_contact' = [to_contact EXCEPT ![u] = Tail(@)]
  BY UserReads, Zenon
<1>3. \A v \in Contact, i \in Local : v # u \/ i # j =>
        /\ i \in sub'[v] <=> i \in sub[v]
        /\ i \in allowed'[v] <=> i \in allowed[v]
        /\ i \in shown'[v] <=> i \in shown[v]
  BY UserReads, Zenon
<1>4. /\ m.type = "unsubscribed" => j \notin sub'[u]
      /\ m.type \notin {"subscribed", "unsubscribed"} => (j \in sub'[u] <=> j \in sub[u])
      /\ m.type = "unsubscribe" => j \notin allowed'[u]
      /\ m.type \notin {"subscribe", "unsubscribe"} => (j \in allowed'[u] <=> j \in allowed[u])
  BY UserReads, Zenon
<1>5. /\ m.type = "available" /\ j \in sub[u] /\ u \in here => j \in shown'[u]
      /\ j \in shown'[u] =>
           /\ j \in shown[u] \/ (m.type = "available" /\ j \in sub[u])
           /\ ~Ends(m, j)
      /\ j \in shown[u] /\ ~Ends(m, j) => j \in shown'[u]
  BY UserReads, Zenon
<1>6. Posts(s)
  BY UserReads, Zenon
<1>7. j \in Local /\ m.type \in Types
  BY <1>1, Zenon DEF Stanzas
<1>8. s \in Seq(Stanzas) /\ to_gateway \in Seq(Stanzas)
  BY <1>7, AnswerIsSeq, PresencesAre, Zenon DEF RosterInv, TypeOK
<1>9. /\ to_contact'[u] = Tail(q)
      /\ \A v \in Contact : v # u => to_contact'[v] = to_contact[v]
  BY <1>2, ZenonT(30) DEF RosterInv, TypeOK
<1>10. ASSUME link, j = Gateway, u \in here,
              \/ m.type = "probe" /\ Gateway \in allowed[u]
              \/ m.type = "subscribe" /\ Gateway \notin allowed[u]
       PROVE  \E k \in 1 .. Len(s) : Asks(s[k], u, j)
  BY <1>10, AnswerAsks
<1>11. ASSUME NEW v \in Contact, NEW i \in Local, link, Asking(v, i) PROVE Asking(v, i)'
  <2> HIDE DEF s
  <2> QED BY <1>6, <1>8, <1>11, AskingPosts
<1>12. ASSUME NEW i \in Local, link, \E k \in 1 .. Len(s) : Asks(s[k], u, i) PROVE Asking(u, i)'
  <2> HIDE DEF s
  <2> QED BY <1>6, <1>8, <1>12, AskingPosts
<1> HIDE DEF s, j, m, q
<1>13. m = q[1] /\ j = m.local /\ q = to_contact[u]
  BY Zenon DEF j, m, q
<1>14. ASSUME NEW i
       PROVE  /\ Calm(Tail(q), i, 1) <=> Calm(q, i, 2)
              /\ Settles(q, i, 2) => Settles(Tail(q), i, 1)
              /\ Followed(q, i) => Followed(Tail(q), i)
              /\ \A n \in Nat \ {0} : Calm(Tail(q), i, n) <=> Calm(q, i, n + 1)
              /\ Calm(q, i, 1) <=> Calm(q, i, 2) /\ ~Ends(m, i)
              /\ Settles(q, i, 1) => \/ Settles(q, i, 2)
                                     \/ Begins(m, i) /\ Calm(q, i, 2)
                                     \/ m.local = i /\ m.type = "unsubscribed"
  BY <1>1, <1>13, Tails, Heads, Zenon
<1>15. Told'
  <2> SUFFICES ASSUME NEW v \in Contact, NEW i \in Local, Speaks(v, i)'
               PROVE  Followed(to_contact'[v], i) /\ Due(v, i)'
    BY DEF Told
  <2>1. Speaks(v, i) /\ link /\ here' = here
    BY <1>1 DEF Speaks
  <2>2. Followed(to_contact[v], i) /\ Due(v, i)
    BY <2>1, Zenon DEF ShownInv, Told
  <2>3. CASE v # u
    <3>1. to_contact'[v] = to_contact[v]
      BY <1>9, <2>3
    <3> QED BY <1>3, <1>11, <2>1, <2>2, <2>3, <3>1, ZenonT(30) DEF Due
  <2>4. CASE v = u /\ i # j
    <3>1. to_contact[v] = q /\ to_contact'[v] = Tail(q)
      BY <1>9, <1>13, <2>4, Zenon
    <3>2. ~Ends(m, i) /\ ~Begins(m, i) /\ m.local # i
      BY <1>13, <2>4 DEF Ends, Begins
    <3>3. Followed(Tail(q), i)
      BY <1>14, <2>2, <3>1, Zenon
    <3>4. (Settles(q, i, 1) => Settles(Tail(q), i, 1)) /\ (Calm(q, i, 1) => Calm(Tail(q), i, 1))
      BY <1>14, <3>2, Zenon
    <3> QED BY <1>3, <1>11, <2>1, <2>2, <2>4, <3>1, <3>3, <3>4, Zenon DEF Due
  <2>5. CASE v = u /\ i = j
    <3>1. to_contact[u] = q /\ to_contact'[u] = Tail(q)
      BY <1>9, <1>13
    <3>2. Followed(Tail(q), j)
      BY <1>14, <2>2, <2>5, <3>1, Zenon
    <3>3. ASSUME u \in here, j \in sub'[u], j = Gateway => j \in allowed'[u]
          PROVE  \/ Settles(Tail(q), j, 1)
                 \/ j \in shown'[u] /\ Calm(Tail(q), j, 1)
                 \/ Asking(u, i)'
      <4>1. CASE m.type = "subscribed"
        <5>1. 1 \in 1 .. Len(q) /\ 1 + 1 = 2
          BY <1>1
        <5>2. Settles(q, j, 1 + 1)
          BY <1>13, <2>2, <2>5, <3>1, <4>1, <5>1, Zenon DEF Followed
        <5> QED BY <1>14, <5>1, <5>2, Zenon
      <4>2. CASE m.type = "subscribe" /\ j = Gateway /\ Gateway \notin allowed[u]
        BY <1>10, <1>12, <2>1, <2>5, <3>3, <4>2, Zenon
      <4>3. CASE ~(m.type = "subscribed") /\ ~(m.type = "subscribe" /\ j = Gateway /\ Gateway \notin allowed[u])
        <5>1. m.type # "unsubscribed" /\ j \in sub[u] /\ (j = Gateway => j \in allowed[u])
          BY <1>4, <3>3, <4>3, Zenon
        <5>2. Settles(q, j, 1) \/ (j \in shown[u] /\ Calm(q, j, 1)) \/ Asking(u, j)
          BY <2>2, <2>5, <3>1, <3>3, <5>1, Zenon DEF Due
        <5>3. CASE Asking(u, j)
          BY <1>11, <2>1, <2>5, <5>3, Zenon
        <5>4. CASE j \in shown[u] /\ Calm(q, j, 1)
          BY <1>5, <1>14, <5>4, Zenon
        <5>5. CASE Settles(q, j, 2)
          BY <1>14, <5>5, ZenonT(30)
        <5>6. CASE Begins(m, j) /\ Calm(q, j, 2)
          <6>1. CASE m.type = "available"
            BY <1>5, <1>14, <3>3, <5>1, <5>6, <6>1, Zenon
          <6>2. CASE m.type # "available"
            <7>1. m.type = "probe" /\ j = Gateway
              BY <5>6, <6>2 DEF Begins
            <7> QED BY <1>10, <1>12, <2>1, <2>5, <3>3, <5>1, <7>1, Zenon
          <6> QED BY <6>1, <6>2
        <5> QED BY <1>14, <5>1, <5>2, <5>3, <5>4, <5>5, <5>6, Zenon
      <4> QED BY <4>1, <4>2, <4>3, ZenonT(30)
    <3>4. Due(u, i)'
      BY <2>1, <2>5, <3>1, <3>3, Zenon DEF Due
    <3> QED BY <2>5, <3>1, <3>2, <3>4, ZenonT(30)
  <2> QED BY <2>3, <2>4, <2>5
<1>16. Orderly'
  BY <1>1 DEF ShownInv, Orderly
<1>17. /\ Len(q) \in Nat /\ Len(Tail(q)) = Len(q) - 1
       /\ \A k \in 1 .. Len(Tail(q)) : /\ k + 1 \in 1 .. Len(q) /\ Tail(q)[k] = q[k + 1]
                                       /\ k + 1 \in Nat \ {0} /\ 1 \in 1 .. Len(q)
  BY <1>1
<1>18. 1 \in 1 .. Len(q) /\ 1 + 1 = 2
  BY <1>1
<1>19. ASSUME NEW v \in Contact, NEW i \in Server PROVE Known(v, i)' /\ (~silent' => Hushed(v, i)')
  <2>1. Known(v, i) /\ (~silent => Hushed(v, i)) /\ i \in Local
    BY DEF ShownInv, Local
  <2>2. CASE v # u
    <3>1. to_contact'[v] = to_contact[v] /\ (i \in shown'[v] <=> i \in shown[v]) /\ items' = items
          /\ client' = client
      BY <1>1, <1>3, <1>9, <2>1, <2>2
    <3>2. Known(v, i)'
      BY <2>1, <3>1, Zenon DEF Known
    <3>3. Hushed(v, i) => Hushed(v, i)'
      BY <3>1, Zenon DEF Hushed
    <3> QED BY <1>1, <2>1, <3>2, <3>3, ZenonT(30)
  <2>3. CASE v = u
    <3>1. to_contact[v] = q /\ to_contact'[v] = Tail(q) /\ items' = items /\ client' = client
      BY <1>1, <1>9, <1>13, <2>3, ZenonT(30)
    <3>2. i \in shown'[u] => /\ i \in shown[u] \/ (Says(q, i, 1) /\ i \in sub[u])
                             /\ ~Ends(m, i)
      BY <1>3, <1>5, <1>13, <2>1 DEF Says, Ends
    <3>3. \A k \in 1 .. Len(Tail(q)) : Says(Tail(q), i, k) => Says(q, i, k + 1) /\ k + 1 \in 1 .. Len(q)
      BY <1>17, Zenon DEF Says
    <3>4. Known(v, i)'
      <4>1. i \in sub[u] => <<i, u>> \in items
        BY SMTT(20) DEF RosterInv, Remembered
      <4> QED BY <2>1, <2>3, <3>1, <3>2, <3>3, <4>1, Zenon DEF Known
    <3>5. ASSUME Hushed(v, i) PROVE Hushed(v, i)'
      <4> SUFFICES ASSUME client[<<u, i>>] = "none"
                   PROVE  /\ i \in shown'[u] => ~Calm(Tail(q), i, 1)
                          /\ \A k \in 1 .. Len(Tail(q)) : Says(Tail(q), i, k) => ~Calm(Tail(q), i, k + 1)
        BY <2>3, <3>1, Zenon DEF Hushed
      <4>1. /\ i \in shown[u] => ~Calm(q, i, 1)
            /\ \A k \in 1 .. Len(q) : Says(q, i, k) => ~Calm(q, i, k + 1)
        BY <2>3, <3>1, <3>5, ZenonT(30) DEF Hushed
      <4>2. Says(q, i, 1) => ~Calm(q, i, 2)
        BY <1>18, <4>1
      <4>3. i \in shown'[u] => ~Calm(Tail(q), i, 1)
        BY <1>14, <3>2, <4>1, <4>2, Zenon
      <4>4. ASSUME NEW k \in 1 .. Len(Tail(q)), Says(Tail(q), i, k) PROVE ~Calm(Tail(q), i, k + 1)
        <5>1. ~Calm(q, i, (k + 1) + 1)
          BY <3>3, <4>1, <4>4, Zenon
        <5>2. k + 1 \in Nat \ {0}
          BY <1>17, <4>4
        <5> QED BY <1>14, <5>1, <5>2, Zenon
      <4> QED BY <4>3, <4>4
    <3> QED BY <1>1, <2>1, <3>4, <3>5, Zenon
  <2> QED BY <2>2, <2>3
<1> QED BY <1>15, <1>16, <1>19, Zenon DEF ShownInv

\* Nothing is shown and nothing is in flight at the start of the gateway.
LEMMA ShownInit == Init => ShownInv
<1> SUFFICES ASSUME Init PROVE ShownInv
  OBVIOUS
<1>1. /\ link /\ process = "running" /\ ~silent
      /\ \A k \in Contact \X Server : client[k] = "none"
  BY DEF Init
<1>2. \A u \in Contact : to_contact[u] = <<>> /\ shown[u] = {} /\ sub[u] = {}
  BY DEF Init
<1>3. 1 .. Len(<<>>) = {}
  OBVIOUS
<1>4. Told
  BY <1>2, <1>3, Zenon DEF Told, Followed, Due
<1>5. Orderly
  BY <1>1 DEF Orderly
<1>6. ASSUME NEW u \in Contact, NEW s \in Server PROVE Known(u, s) /\ Hushed(u, s)
  BY <1>2, <1>3, Zenon DEF Known, Hushed
<1> QED BY <1>4, <1>5, <1>6, Zenon DEF ShownInv

\* Every step of the gateway, of its IRC clients and of the users keeps it.
LEMMA ShownStep == RosterInv /\ ShownInv /\ [Next]_vars => ShownInv'
<1> SUFFICES ASSUME RosterInv, ShownInv, [Next]_vars PROVE ShownInv'
  OBVIOUS
<1>1. CASE OnPresence
  BY <1>1, OnPresenceShown
<1>2. ASSUME NEW u \in Contact, NEW s \in Server,
             \/ Connect(u, s) \/ OnConnected(u, s) \/ OnConnectionFailed(u, s)
             \/ OnIrcClientConnected(u, s) \/ OnIrcClientDisconnected(u, s)
             \/ DisconnectedInBatch(u, s) \/ Clean(u, s)
      PROVE  ShownInv'
  BY <1>2, ClientShown
<1>3. CASE Shutdown \/ Exit \/ Crash \/ LinkLost \/ AfterHandshake
  BY <1>3, ProcessShown
<1>4. ASSUME NEW u \in Contact, NEW j \in Local, UserSubscribes(u, j) \/ UserRemoves(u, j)
      PROVE  ShownInv'
  BY <1>4, UserShown
<1>5. ASSUME NEW u \in Contact, UserComes(u) \/ UserLeaves(u)
      PROVE  ShownInv'
  <2>1. Gateway \in Local
    BY DEF Local
  <2> QED BY <1>5, <2>1, UserShown
<1>6. ASSUME NEW u \in Contact, UserReceives(u)
      PROVE  ShownInv'
  BY <1>6, UserReceivesShown, Zenon
<1>7. CASE UNCHANGED vars
  <2>1. /\ UNCHANGED <<items, to_contact, to_gateway, sub, allowed, here, shown>>
        /\ UNCHANGED <<client, process, link, silent>>
    BY <1>7, Zenon DEF vars
  <2>2. Orderly'
    BY <2>1, ZenonT(30) DEF ShownInv, Orderly
  <2>3. ASSUME NEW v \in Contact, NEW i \in Local, Speaks(v, i)'
        PROVE  Speaks(v, i) /\ (Asking(v, i) => Asking(v, i)')
    BY <2>1, <2>3, Zenon DEF Speaks, Asking
  <2> QED BY <2>1, <2>2, <2>3, QuietShown, Zenon
<1> QED BY <1>1, <1>2, <1>3, <1>4, <1>5, <1>6, <1>7 DEF Next

\* With nothing in flight, what is due has happened.
LEMMA QuietMeans ==
  ASSUME Quiet, NEW u \in Contact, NEW j
  PROVE  ~Settles(to_contact[u], j, 1) /\ Calm(to_contact[u], j, 1) /\ ~Asking(u, j)
<1>1. to_contact[u] = <<>> /\ to_gateway = <<>>
  BY DEF Quiet
<1>2. 1 .. Len(<<>>) = {}
  OBVIOUS
<1> QED BY <1>1, <1>2, ZenonT(30) DEF Settles, Calm, Asking

\* With nothing in flight, what the stanzas will show is what is shown.
LEMMA ShownMeans == RosterInv /\ ShownInv => GatewayShown /\ ServerShown
<1> SUFFICES ASSUME RosterInv, ShownInv PROVE GatewayShown /\ ServerShown
  BY Zenon
<1>1. here \subseteq Contact /\ Gateway \in Local /\ Gateway \notin Server /\ Server \subseteq Local
  BY RosterAssumption DEF RosterInv, TypeOK, Local
<1>2. ASSUME Quiet, link, process = "running", NEW u \in here, Gateway \in sub[u], Gateway \in allowed[u]
      PROVE  Gateway \in shown[u]
  <2>1. Speaks(u, Gateway)
    BY <1>2, Zenon DEF Speaks
  <2>2. Due(u, Gateway)
    BY <1>1, <2>1, ZenonT(30) DEF ShownInv, Told
  <2>3. ~Settles(to_contact[u], Gateway, 1) /\ ~Asking(u, Gateway)
    BY <1>1, <1>2, QuietMeans, Zenon
  <2> QED BY <1>2, <2>2, <2>3, ZenonT(30) DEF Due
<1>3. ASSUME Quiet, link, process = "running", ~silent, NEW u \in here, NEW s \in Server,
             s \in sub[u], client[<<u, s>>] = "announced"
      PROVE  s \in shown[u]
  <2>1. Speaks(u, s) /\ s # Gateway
    BY <1>1, <1>3, Zenon DEF Speaks
  <2>2. Due(u, s)
    BY <1>1, <2>1, Zenon DEF ShownInv, Told
  <2>3. ~Settles(to_contact[u], s, 1) /\ ~Asking(u, s)
    BY <1>1, <1>3, QuietMeans, Zenon
  <2> QED BY <1>3, <2>1, <2>2, <2>3, ZenonT(30) DEF Due
<1>4. ASSUME Quiet, ~silent, NEW u \in here, NEW s \in Server, s \in shown[u]
      PROVE  client[<<u, s>>] # "none"
  <2>1. Hushed(u, s)
    BY <1>1, <1>4, Zenon DEF ShownInv
  <2>2. Calm(to_contact[u], s, 1)
    BY <1>1, <1>4, QuietMeans, Zenon
  <2> QED BY <1>4, <2>1, <2>2, Zenon DEF Hushed
<1>5. GatewayShown
  BY <1>2, Zenon DEF GatewayShown
<1>6. ServerShown
  BY <1>3, <1>4, Zenon DEF ServerShown
<1> QED BY <1>5, <1>6

\* While the gateway runs, whoever is online and subscribed to it in both
\* directions sees it online, once the stanzas in flight are read: the probes
\* of after_handshake() repair what a crash, a lost stream or the farewell of
\* shutdown() left.
THEOREM GatewayAlwaysShown == Spec => []GatewayShown
<1> QED BY RosterInit, RosterStep, ShownInit, ShownStep, ShownMeans, PTL DEF Spec

\* As long as no connection ended silently, the IRC servers that a roster shows
\* are those its user is subscribed to and connected to.
THEOREM ServersAlwaysShown == Spec => []ServerShown
<1> QED BY RosterInit, RosterStep, ShownInit, ShownStep, ShownMeans, PTL DEF Spec
=============================================================================
