---------------------------- MODULE BridgeProofs ----------------------------
(***************************************************************************)
(* The books of a Bridge, for any set of servers, channels and resources.  *)
(* The four parts of BookInv are inductive together: ViewMatches needs to  *)
(* know that a client which is not connected has joined nothing, which is  *)
(* in SelfKnownWhenJoined; no part depends on what is on the wires.        *)
(***************************************************************************)
EXTENDS Bridge, TLAPS

BookInv == TypeOK /\ ServerIsUnion /\ ViewMatches /\ SelfKnownWhenJoined

\* The books of a new bridge are empty.
LEMMA BookInit == Init => BookInv
  BY BridgeAssumption DEF Init, BookInv, TypeOK, ServerIsUnion, ViewMatches, SelfKnownWhenJoined,
       Phases, Names, Rooms, EmptyRooms, ChannelsOf

\* A step that leaves the books alone.
LEMMA BookUnchanged ==
  ASSUME BookInv, UNCHANGED <<conn, ports, welcomed, chanVars, resVars>>
  PROVE  BookInv'
  BY DEF BookInv, TypeOK, ServerIsUnion, ViewMatches, SelfKnownWhenJoined,
         ChannelsOf, chanVars, resVars

\* join_irc_channel() of a channel that is not joined.
LEMMA JoinSendKeeps ==
  ASSUME BookInv, NEW h \in Host, NEW c \in Chan, NEW r \in Resource,
         JoinSend(h, c, r)
  PROVE  BookInv'
<1> USE DEF BookInv
<1>1. TypeOK'
  BY BridgeAssumption DEF JoinSend, Starts, TypeOK, Phases, Names, Rooms
<1>2. ServerIsUnion'
  BY DEF JoinSend, TypeOK, Rooms, ServerIsUnion, ChannelsOf
<1>3. ViewMatches'
  BY DEF JoinSend, TypeOK, Rooms, ViewMatches
<1>4. SelfKnownWhenJoined'
  BY DEF JoinSend, Starts, TypeOK, Phases, SelfKnownWhenJoined
<1> QED BY <1>1, <1>2, <1>3, <1>4

\* join_irc_channel() of a joined channel.
LEMMA JoinGeneratedKeeps ==
  ASSUME BookInv, NEW h \in Host, NEW c \in Chan, NEW r \in Resource,
         JoinGenerated(h, c, r)
  PROVE  BookInv'
<1> USE DEF BookInv, clientVars, chanVars
<1>1. TypeOK'
  BY DEF JoinGenerated, TypeOK, Rooms
<1>2. ServerIsUnion'
  BY DEF JoinGenerated, TypeOK, Rooms, ServerIsUnion, ChannelsOf
<1>3. ViewMatches'
  BY DEF JoinGenerated, TypeOK, Rooms, ViewMatches
<1>4. SelfKnownWhenJoined'
  BY DEF JoinGenerated, SelfKnownWhenJoined
<1> QED BY <1>1, <1>2, <1>3, <1>4

\* leave_irc_channel(), for one key or for all those of a resource.
LEMMA LeaveKeysKeeps ==
  ASSUME BookInv, NEW K, NEW r \in Resource, NEW p, LeaveKeys(K, r, p)
  PROVE  BookInv'
<1> USE DEF BookInv, clientVars
<1> DEFINE out(h, c) == <<h, c>> \in K /\ OutAtOnce(h, c, r, p[h][c])
<1> HIDE DEF out
<1>1. \A h \in Host, c \in Chan :
        /\ resources_in_chan'[h][c] = IF out(h, c) THEN resources_in_chan[h][c] \ {r}
                                                  ELSE resources_in_chan[h][c]
        /\ view'[h][c] = IF out(h, c) /\ c \in joined[h] THEN view[h][c] \ {r}
                                                         ELSE view[h][c]
        /\ out(h, c) => <<h, c>> \in K
  BY DEF LeaveKeys, out
<1>2. TypeOK'
  <2>1. resources_in_chan' \in [Host -> Rooms] /\ view' \in [Host -> Rooms]
    <3>1. \A h \in Host : resources_in_chan'[h] \in Rooms /\ view'[h] \in Rooms
      BY <1>1 DEF LeaveKeys, TypeOK, Rooms
    <3>2. QED BY <3>1 DEF LeaveKeys
  <2>2. channels' \in [Host -> SUBSET Names]
    BY DEF LeaveKeys, TypeOK, Names
  <2>3. resources_in_server' \in [Host -> SUBSET Resource]
    BY DEF LeaveKeys, TypeOK
  <2>4. QED BY <2>1, <2>2, <2>3 DEF LeaveKeys, TypeOK
<1>3. ServerIsUnion'
  <2> SUFFICES ASSUME NEW h \in Host
               PROVE  resources_in_server'[h] =
                        {x \in Resource : ChannelsOf(resources_in_chan'[h], x) # {}}
    BY DEF ServerIsUnion
  <2>1. \A x \in Resource : x # r =>
          ChannelsOf(resources_in_chan'[h], x) = ChannelsOf(resources_in_chan[h], x)
    BY <1>1 DEF ChannelsOf
  <2>2. resources_in_server'[h] =
          IF (\E c \in Chan : <<h, c>> \in K) /\ ChannelsOf(resources_in_chan'[h], r) = {}
          THEN resources_in_server[h] \ {r} ELSE resources_in_server[h]
    BY DEF LeaveKeys
  <2>3. (~\E c \in Chan : <<h, c>> \in K) =>
          ChannelsOf(resources_in_chan'[h], r) = ChannelsOf(resources_in_chan[h], r)
    BY <1>1 DEF ChannelsOf
  <2>4. ChannelsOf(resources_in_chan'[h], r) \subseteq ChannelsOf(resources_in_chan[h], r)
    BY <1>1 DEF ChannelsOf
  <2>5. resources_in_server[h] = {x \in Resource : ChannelsOf(resources_in_chan[h], x) # {}}
    BY DEF ServerIsUnion
  <2>6. QED BY <2>1, <2>2, <2>3, <2>4, <2>5
<1>4. ViewMatches'
  BY <1>1 DEF LeaveKeys, ViewMatches
<1>5. SelfKnownWhenJoined'
  BY DEF LeaveKeys, SelfKnownWhenJoined, TypeOK
<1> QED BY <1>2, <1>3, <1>4, <1>5

\* send_muc_leave() of all the resources of some channels: the two maps agree
\* after it, and the resources of those channels are told.
LEMMA AllLeaveKeeps ==
  ASSUME BookInv, NEW h \in Host, NEW C \in SUBSET Chan, AllLeave(h, C)
  PROVE  /\ resources_in_chan' \in [Host -> Rooms]
         /\ resources_in_server' \in [Host -> SUBSET Resource]
         /\ view' \in [Host -> Rooms]
         /\ ServerIsUnion'
         /\ \A g \in Host, c \in Chan :
              /\ resources_in_chan'[g][c] = IF g = h /\ c \in C THEN {}
                                            ELSE resources_in_chan[g][c]
              /\ view'[g][c] = IF g = h /\ c \in C
                               THEN view[g][c] \ resources_in_chan[g][c]
                               ELSE view[g][c]
<1> USE DEF BookInv
<1>1. \A g \in Host, c \in Chan :
        /\ resources_in_chan'[g][c] = IF g = h /\ c \in C THEN {}
                                      ELSE resources_in_chan[g][c]
        /\ view'[g][c] = IF g = h /\ c \in C
                         THEN view[g][c] \ resources_in_chan[g][c]
                         ELSE view[g][c]
  BY DEF AllLeave, TypeOK
<1>2. resources_in_chan' \in [Host -> Rooms] /\ view' \in [Host -> Rooms]
  <2>1. \A g \in Host : resources_in_chan'[g] \in Rooms /\ view'[g] \in Rooms
    BY DEF AllLeave, TypeOK, Rooms
  <2>2. QED BY <2>1 DEF AllLeave, TypeOK
<1>3. resources_in_server' \in [Host -> SUBSET Resource]
  BY DEF AllLeave, TypeOK
<1>4. ServerIsUnion'
  <2> SUFFICES ASSUME NEW g \in Host
               PROVE  resources_in_server'[g] =
                        {x \in Resource : ChannelsOf(resources_in_chan'[g], x) # {}}
    BY DEF ServerIsUnion
  <2>1. resources_in_server[g] = {x \in Resource : ChannelsOf(resources_in_chan[g], x) # {}}
    BY DEF ServerIsUnion
  <2>2. CASE g # h
    <3>1. resources_in_server'[g] = resources_in_server[g]
          /\ resources_in_chan'[g] = resources_in_chan[g]
      BY <2>2 DEF AllLeave, TypeOK
    <3>2. QED BY <2>1, <3>1
  <2>3. CASE g = h
    <3>1. resources_in_server'[h] =
            {x \in resources_in_server[h] :
               (\E c \in C : x \in resources_in_chan[h][c])
                 => ChannelsOf(resources_in_chan'[h], x) # {}}
      BY DEF AllLeave, TypeOK
    <3>2. ASSUME NEW x \in Resource
          PROVE  /\ ChannelsOf(resources_in_chan'[h], x)
                      \subseteq ChannelsOf(resources_in_chan[h], x)
                 /\ (~\E c \in C : x \in resources_in_chan[h][c]) =>
                      ChannelsOf(resources_in_chan'[h], x)
                        = ChannelsOf(resources_in_chan[h], x)
      BY <1>1 DEF ChannelsOf
    <3>3. QED BY <2>1, <2>3, <3>1, <3>2, SMTT(20)
  <2>4. QED BY <2>2, <2>3
<1> QED BY <1>1, <1>2, <1>3, <1>4

\* on_error(), whatever becomes of the client afterwards.
LEMMA OnErrorKeeps ==
  ASSUME BookInv, NEW h \in Host, OnErrorEffect(h),
         conn' \in [Host -> Phases],
         \A g \in Host : g # h => conn'[g] = conn[g],
         ports' \in [Host -> 0 .. MaxPorts], welcomed' \in [Host -> BOOLEAN]
  PROVE  BookInv'
<1> DEFINE C == joined[h]
<1>1. C \in SUBSET Chan /\ AllLeave(h, C)
  BY DEF BookInv, TypeOK, OnErrorEffect
<1> HIDE DEF C
<1>2. /\ resources_in_chan' \in [Host -> Rooms]
      /\ resources_in_server' \in [Host -> SUBSET Resource]
      /\ view' \in [Host -> Rooms]
      /\ ServerIsUnion'
      /\ \A g \in Host, c \in Chan :
           /\ resources_in_chan'[g][c] = IF g = h /\ c \in C THEN {}
                                         ELSE resources_in_chan[g][c]
           /\ view'[g][c] = IF g = h /\ c \in C
                            THEN view[g][c] \ resources_in_chan[g][c]
                            ELSE view[g][c]
  BY <1>1, AllLeaveKeeps, SMTT(20)
<1> USE DEF BookInv
<1>3. TypeOK'
  BY <1>2 DEF OnErrorEffect, TypeOK
<1>4. ViewMatches'
  <2> SUFFICES ASSUME NEW g \in Host, NEW c \in Chan
               PROVE  view'[g][c] = IF c \in joined'[g] THEN resources_in_chan'[g][c]
                                                        ELSE {}
    BY DEF ViewMatches
  <2>1. view[g][c] = IF c \in joined[g] THEN resources_in_chan[g][c] ELSE {}
    BY DEF ViewMatches
  <2>2. joined'[g] = IF g = h THEN {} ELSE joined[g]
    BY DEF OnErrorEffect, TypeOK
  <2>3. QED BY <1>2, <2>1, <2>2 DEF C
<1>5. SelfKnownWhenJoined'
  BY DEF OnErrorEffect, TypeOK, SelfKnownWhenJoined
<1> QED BY <1>2, <1>3, <1>4, <1>5

\* clean(): what it removes had joined nothing, and a bridge that is removed
\* takes both maps with it.
LEMMA CleanKeeps ==
  ASSUME BookInv, Clean
  PROVE  BookInv'
<1> USE DEF BookInv
<1>1. TypeOK'
  <2>1. MaxPorts \in 0 .. MaxPorts
    BY BridgeAssumption, SMTT(20)
  <2>2. /\ conn' \in [Host -> Phases] /\ ports' \in [Host -> 0 .. MaxPorts]
        /\ welcomed' \in [Host -> BOOLEAN]
    BY <2>1 DEF Clean, TypeOK, Phases
  <2>3. /\ channels' \in [Host -> SUBSET Names] /\ joined' \in [Host -> SUBSET Chan]
        /\ self' \in [Host -> SUBSET Chan]
    BY DEF Clean, TypeOK
  <2>4. EmptyRooms \in Rooms
    BY DEF EmptyRooms, Rooms
  <2>5. /\ resources_in_chan' \in [Host -> Rooms]
        /\ resources_in_server' \in [Host -> SUBSET Resource]
        /\ view' \in [Host -> Rooms]
    BY <2>4 DEF Clean, TypeOK
  <2>6. QED BY <2>2, <2>3, <2>5, SMTT(20) DEF TypeOK
<1>2. ServerIsUnion'
  BY DEF Clean, TypeOK, ServerIsUnion, ChannelsOf, EmptyRooms
<1>3. \A h \in Host : joined'[h] = joined[h]
  BY DEF Clean, TypeOK, SelfKnownWhenJoined
<1>4. ViewMatches'
  <2>1. CASE resources_in_chan' = resources_in_chan
    BY <1>3, <2>1, SMTT(20) DEF Clean, ViewMatches
  <2>2. CASE resources_in_chan' = [h \in Host |-> EmptyRooms]
            /\ {h \in Host : conn[h] \in {"none", "closed"}} = Host
    <3>1. \A h \in Host : joined[h] = {}
      BY <2>2 DEF SelfKnownWhenJoined, TypeOK
    <3>2. QED BY <1>3, <2>2, <3>1 DEF Clean, ViewMatches, EmptyRooms
  <2>3. QED BY <2>1, <2>2 DEF Clean
<1>5. SelfKnownWhenJoined'
  BY DEF Clean, TypeOK, SelfKnownWhenJoined
<1> QED BY <1>1, <1>2, <1>4, <1>5, SMTT(20)

\* Several resources leave at once: on_part() of c, or on_quit() of the
\* channels whose self is known.
LEMMA LeaveChannelsKeeps ==
  ASSUME BookInv, NEW h \in Host, NEW C \in SUBSET Chan, AllLeave(h, C),
         joined' = [joined EXCEPT ![h] = @ \ C],
         self' = [self EXCEPT ![h] = @ \ C],
         channels' \in [Host -> SUBSET Names],
         \A g \in Host : channels[g] \ C \subseteq channels'[g],
         \A g \in Host : g # h => channels'[g] = channels[g],
         UNCHANGED <<conn, ports, welcomed>>
  PROVE  BookInv'
<1>1. /\ resources_in_chan' \in [Host -> Rooms]
      /\ resources_in_server' \in [Host -> SUBSET Resource]
      /\ view' \in [Host -> Rooms]
      /\ ServerIsUnion'
      /\ \A g \in Host, c \in Chan :
           /\ resources_in_chan'[g][c] = IF g = h /\ c \in C THEN {}
                                         ELSE resources_in_chan[g][c]
           /\ view'[g][c] = IF g = h /\ c \in C
                            THEN view[g][c] \ resources_in_chan[g][c]
                            ELSE view[g][c]
  BY AllLeaveKeeps
<1> USE DEF BookInv
<1>2. TypeOK'
  BY <1>1 DEF TypeOK
<1>3. ViewMatches'
  <2> SUFFICES ASSUME NEW g \in Host, NEW c \in Chan
               PROVE  view'[g][c] = IF c \in joined'[g] THEN resources_in_chan'[g][c]
                                                        ELSE {}
    BY DEF ViewMatches
  <2>1. view[g][c] = IF c \in joined[g] THEN resources_in_chan[g][c] ELSE {}
    BY DEF ViewMatches
  <2>2. joined'[g] = IF g = h THEN joined[g] \ C ELSE joined[g]
    BY DEF TypeOK
  <2>3. CASE g = h /\ c \in C
    <3>1. view'[g][c] = view[g][c] \ resources_in_chan[g][c]
      BY <1>1, <2>3
    <3>2. c \notin joined'[g]
      BY <2>2, <2>3
    <3>3. QED BY <2>1, <3>1, <3>2
  <2>4. CASE ~(g = h /\ c \in C)
    <3>1. view'[g][c] = view[g][c] /\ resources_in_chan'[g][c] = resources_in_chan[g][c]
      BY <1>1, <2>4
    <3>2. QED BY <2>1, <2>2, <2>4, <3>1, SMTT(20)
  <2>5. QED BY <2>3, <2>4
<1>4. SelfKnownWhenJoined'
  BY DEF TypeOK, SelfKnownWhenJoined
<1> QED BY <1>1, <1>2, <1>3, <1>4, SMTT(20)

\* Each handler of an IRC message.
LEMMA ReceiveKeeps ==
  ASSUME BookInv, NEW h \in Host, Receive(h)
  PROVE  BookInv'
<1>1. CASE OnWelcome(h)
  <2>1. TypeOK' /\ UNCHANGED <<conn, chanVars, resVars>>
    BY <1>1 DEF OnWelcome, BookInv, TypeOK, chanVars, resVars
  <2>2. QED
    BY <2>1 DEF BookInv, ServerIsUnion, ViewMatches, SelfKnownWhenJoined,
                ChannelsOf, chanVars, resVars
<1>2. CASE OnQuit(h)
  <2>1. self[h] \in SUBSET Chan
    BY DEF BookInv, TypeOK
  <2>2. self' = [self EXCEPT ![h] = @ \ self[h]]
    BY <1>2 DEF OnQuit, BookInv, TypeOK
  <2>3. /\ channels' \in [Host -> SUBSET Names]
        /\ \A g \in Host : channels[g] \ self[h] \subseteq channels'[g]
        /\ \A g \in Host : g # h => channels'[g] = channels[g]
    BY <1>2 DEF OnQuit, BookInv, TypeOK
  <2>4. QED
    BY <1>2, <2>1, <2>2, <2>3, LeaveChannelsKeeps DEF OnQuit, clientVars
<1>3. CASE OnPrivateMessage(h)
  BY <1>3 DEF OnPrivateMessage, BookInv, TypeOK, ServerIsUnion, ViewMatches,
       SelfKnownWhenJoined, ChannelsOf, Names, clientVars, resVars
<1>4. CASE OnError(h)
  BY <1>4, OnErrorKeeps DEF OnError, BookInv, TypeOK, clientVars
<1>5. CASE OnConnectionClose(h)
  <2>1. /\ conn' \in [Host -> Phases]
        /\ \A g \in Host : g # h => conn'[g] = conn[g]
        /\ ports' \in [Host -> 0 .. MaxPorts] /\ welcomed' \in [Host -> BOOLEAN]
    BY <1>5 DEF OnConnectionClose, BookInv, TypeOK, Phases
  <2>2. QED BY <1>5, <2>1, OnErrorKeeps, SMTT(20) DEF OnConnectionClose
<1>6. ASSUME NEW c \in Chan, OnChannelJoin(h, c)
      PROVE  BookInv'
  BY <1>6 DEF OnChannelJoin, Receives, BookInv, TypeOK, ServerIsUnion, ViewMatches,
       SelfKnownWhenJoined, ChannelsOf, Names, clientVars, resVars
<1>7. ASSUME NEW c \in Chan, OnCompletelyJoined(h, c)
      PROVE  BookInv'
  <2> USE DEF BookInv, clientVars
  <2>1. TypeOK'
    BY <1>7 DEF OnCompletelyJoined, TypeOK, Rooms, Names
  <2>2. ServerIsUnion'
    BY <1>7 DEF OnCompletelyJoined, ServerIsUnion, ChannelsOf
  <2>3. ViewMatches'
    BY <1>7 DEF OnCompletelyJoined, TypeOK, Rooms, ViewMatches
  <2>4. SelfKnownWhenJoined'
    BY <1>7 DEF OnCompletelyJoined, TypeOK, SelfKnownWhenJoined
  <2>5. QED BY <2>1, <2>2, <2>3, <2>4, SMTT(20)
<1>8. ASSUME NEW c \in Chan, OnPart(h, c)
      PROVE  BookInv'
  <2>1. CASE c \in joined[h]
    <3>1. {c} \in SUBSET Chan
      OBVIOUS
    <3>2. /\ AllLeave(h, {c})
          /\ joined' = [joined EXCEPT ![h] = @ \ {c}]
          /\ self' = [self EXCEPT ![h] = @ \ {c}]
          /\ channels' = [channels EXCEPT ![h] = @ \ {c}]
          /\ UNCHANGED <<conn, ports, welcomed>>
      BY <1>8, <2>1 DEF OnPart, clientVars
    <3>3. /\ channels' \in [Host -> SUBSET Names]
          /\ \A g \in Host : channels[g] \ {c} \subseteq channels'[g]
          /\ \A g \in Host : g # h => channels'[g] = channels[g]
      BY <3>2, SMTT(20) DEF BookInv, TypeOK
    <3>4. QED BY <3>1, <3>2, <3>3, LeaveChannelsKeeps
  <2>2. CASE c \notin joined[h]
    <3>1. /\ channels' = [channels EXCEPT ![h] = @ \cup {c}]
          /\ UNCHANGED <<conn, ports, welcomed, joined, self, resVars>>
      BY <1>8, <2>2 DEF OnPart, clientVars
    <3>2. QED
      BY <3>1 DEF BookInv, TypeOK, ServerIsUnion, ViewMatches,
           SelfKnownWhenJoined, ChannelsOf, Names, resVars
  <2>3. QED BY <2>1, <2>2
<1>9. ASSUME NEW c \in Chan, OnKick(h, c)
      PROVE  BookInv'
  <2> USE DEF BookInv
  <2>1. /\ channels' = [channels EXCEPT ![h] = @ \cup {c}]
        /\ UNCHANGED <<conn, ports, welcomed, resources_in_chan, resources_in_server>>
    BY <1>9 DEF OnKick, clientVars
  <2>2. ServerIsUnion'
    BY <2>1 DEF ServerIsUnion, ChannelsOf
  <2>3. CASE c \in joined[h]
    <3>1. /\ joined' = [joined EXCEPT ![h] = @ \ {c}]
          /\ self' = [self EXCEPT ![h] = @ \ {c}]
          /\ view' = [view EXCEPT ![h][c] = @ \ resources_in_chan[h][c]]
      BY <1>9, <2>3 DEF OnKick
    <3>2. TypeOK'
      BY <2>1, <3>1 DEF TypeOK, Rooms, Names
    <3>3. ViewMatches'
      BY <2>1, <3>1 DEF TypeOK, Rooms, ViewMatches
    <3>4. SelfKnownWhenJoined'
      BY <2>1, <3>1 DEF TypeOK, SelfKnownWhenJoined
    <3>5. QED BY <2>2, <3>2, <3>3, <3>4, SMTT(20)
  <2>4. CASE c \notin joined[h]
    <3>1. UNCHANGED <<joined, self, view>>
      BY <1>9, <2>4 DEF OnKick
    <3>2. QED
      BY <2>1, <2>2, <3>1 DEF TypeOK, ViewMatches, SelfKnownWhenJoined, Names
  <2>5. QED BY <2>3, <2>4
<1>10. ASSUME NEW c \in Chan, OnRefused(h, c)
       PROVE  BookInv'
  BY <1>10, BookUnchanged DEF OnRefused, clientVars
<1> QED BY <1>1, <1>2, <1>3, <1>4, <1>5, <1>6, <1>7, <1>8, <1>9, <1>10 DEF Receive

\* Every step of the users, the servers and the network keeps the books.
LEMMA BookStep ==
  ASSUME BookInv, [Next]_vars
  PROVE  BookInv'
<1>1. ASSUME NEW h \in Host, NEW c \in Chan, NEW r \in Resource,
             JoinSend(h, c, r) \/ JoinGenerated(h, c, r) \/ Leave(h, c, r)
      PROVE  BookInv'
  BY <1>1, JoinSendKeeps, JoinGeneratedKeeps, LeaveKeysKeeps, SMTT(20) DEF Leave
<1>2. ASSUME NEW r \in Resource, RemoveResource(r)
      PROVE  BookInv'
  BY <1>2, LeaveKeysKeeps, SMTT(20) DEF RemoveResource
<1>3. ASSUME NEW h \in Host, NEW c \in Chan, TouchChannel(h, c)
      PROVE  BookInv'
  BY <1>3 DEF TouchChannel, BookInv, TypeOK, ServerIsUnion, ViewMatches,
       SelfKnownWhenJoined, ChannelsOf, Names, clientVars, resVars
<1>4. ASSUME NEW h \in Host, NEW c, NEW cmd, RawCommand(h, cmd, c)
      PROVE  BookInv'
  BY <1>4, BookUnchanged DEF RawCommand, clientVars
<1>5. ASSUME NEW h \in Host, DisconnectUserFromServer(h)
      PROVE  BookInv'
  <2>1. MaxPorts \in 0 .. MaxPorts
    BY BridgeAssumption
  <2>2. /\ conn' \in [Host -> Phases]
        /\ \A g \in Host : g # h => conn'[g] = conn[g]
        /\ ports' \in [Host -> 0 .. MaxPorts] /\ welcomed' \in [Host -> BOOLEAN]
    BY <1>5, <2>1, SMTT(20) DEF DisconnectUserFromServer, BookInv, TypeOK, Phases
  <2>3. QED BY <1>5, <2>2, OnErrorKeeps DEF DisconnectUserFromServer
<1>6. CASE Shutdown
  BY <1>6, BookUnchanged DEF Shutdown, clientVars
<1>7. CASE Network
  <2>1. UNCHANGED <<clientVars, chanVars, resVars>>
    BY <1>7 DEF Network, ServerRelaysMessage, ServerLost, ServerKicks,
                ServerForcesJoin
  <2>2. QED BY <2>1, BookUnchanged DEF clientVars
<1>8. ASSUME NEW h \in Host, ServerStep(h)
      PROVE  BookInv'
  <2>1. UNCHANGED <<clientVars, chanVars, resVars>>
    BY <1>8 DEF ServerStep, ServerRegisters, ServerJoins, ServerRefuses,
                ServerParts, ServerIgnores, ServerQuits
  <2>2. QED BY <2>1, BookUnchanged DEF clientVars
<1>9. ASSUME NEW h \in Host, Connect(h)
      PROVE  BookInv'
  <2>1. ASSUME NEW p \in Phases \ {"none"}, conn' = [conn EXCEPT ![h] = p],
               conn[h] = "connecting", ports' \in [Host -> 0 .. MaxPorts],
               UNCHANGED <<welcomed, chanVars, resVars>>
        PROVE  BookInv'
    <3> USE DEF BookInv, chanVars, resVars
    <3>1. TypeOK'
      BY <2>1, SMTT(20) DEF TypeOK
    <3>2. ServerIsUnion' /\ ViewMatches'
      BY <2>1 DEF ServerIsUnion, ViewMatches, ChannelsOf
    <3>3. SelfKnownWhenJoined'
      BY <2>1, SMTT(20) DEF SelfKnownWhenJoined, TypeOK
    <3>4. QED BY <3>1, <3>2, <3>3, SMTT(20)
  <2>2. CASE OnConnected(h)
    BY <2>1, <2>2 DEF OnConnected, BookInv, TypeOK, Phases
  <2>3. ASSUME NEW b \in BOOLEAN, OnConnectionFailed(h, b)
        PROVE  BookInv'
    <3>1. \A n \in 0 .. MaxPorts : n > 0 => n - 1 \in 0 .. MaxPorts
      BY BridgeAssumption
    <3>2. 0 \in 0 .. MaxPorts
      BY BridgeAssumption
    <3>3. conn[h] = "connecting" /\ UNCHANGED <<welcomed, chanVars, resVars>>
      BY <2>3 DEF OnConnectionFailed
    <3>4. ports' \in [Host -> 0 .. MaxPorts]
      BY <2>3, <3>1, <3>2, SMTT(20) DEF OnConnectionFailed, BookInv, TypeOK
    <3>5. conn' = [conn EXCEPT ![h] = "connecting"]
          \/ conn' = [conn EXCEPT ![h] = "closed"]
      BY <2>3 DEF OnConnectionFailed, BookInv, TypeOK
    <3>6. QED BY <2>1, <3>3, <3>4, <3>5 DEF Phases
  <2>4. QED BY <1>9, <2>2, <2>3, SMTT(20) DEF Connect
<1>10. CASE UNCHANGED vars
  BY <1>10, BookUnchanged DEF vars, chanVars, resVars
<1>11. CASE Users
  BY <1>11, <1>1, <1>2, <1>3, <1>4, <1>5, <1>6 DEF Users
<1> QED
  BY <1>7, <1>8, <1>9, <1>10, <1>11, CleanKeeps, ReceiveKeeps, SMTT(20) DEF Next

\* The books hold in every state of a bridge.
LEMMA BookAlways == Spec => []BookInv
  BY BookInit, BookStep, PTL DEF Spec

\* The types of the books of Bridge and of its IrcClients.
THEOREM BridgeTypes == Spec => []TypeOK
  BY BookAlways, PTL DEF BookInv

\* resources_in_server is the union of resources_in_chan, for any number of
\* servers, channels and resources.
THEOREM ServerBooks == Spec => []ServerIsUnion
  BY BookAlways, PTL DEF BookInv

\* The resources that were last told they are in a channel are those that
\* resources_in_chan holds for a joined channel, and no others.
THEOREM ViewsCorrect == Spec => []ViewMatches
  BY BookAlways, PTL DEF BookInv

\* get_self() of a joined channel is never null in the handlers that use it
\* without a test.
THEOREM SelfNotNull == Spec => []SelfKnownWhenJoined
  BY BookAlways, PTL DEF BookInv
=============================================================================
