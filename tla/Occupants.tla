----------------------------- MODULE Occupants ------------------------------
(***************************************************************************)
(* The occupants of one IRC channel and its topic: the IrcUsers that       *)
(* IrcChannel keeps with their modes, which of them is the user of the     *)
(* gateway, and what the resources of that user were told of occupants,    *)
(* roles and topic, against what the server has.  The messages that change *)
(* the list come from several handlers: JOIN, NAMES (353 and 366), MODE,   *)
(* PART, QUIT, NICK, KICK and the end of a connection.  Each looks the     *)
(* user up by nick, and nicks change hands.                                *)
(***************************************************************************)
EXTENDS Integers, Sequences, FiniteSets, SequencesExt

CONSTANTS
  Person,    \* people on the server
  Me,        \* the one that the gateway is
  Nick,      \* nicks
  NoNick,    \* no second nick in a message
  Nearby,    \* people that share another channel with Me
  Resource,  \* the resources of the XMPP user
  Sorted,    \* sorted_user_modes: the modes of PREFIX=, the highest first
  ChanModes, \* the four lists of CHANMODES=, as the server advertises them
  ModeLines, \* what a MODE may change: sequences of [add, mode]
  Changed,   \* people whose modes are changed
  Mask,      \* an argument of a mode that is no nick: a ban, a key, a limit
  Topic,     \* topics
  NoTopic,   \* the empty topic
  Env,       \* what the server may do
  MaxWire    \* bound: messages in flight

ASSUME OccupantsAssumption ==
  /\ Me \in Person
  /\ Nearby \subseteq Person /\ Changed \subseteq Person
  /\ NoNick \notin Nick /\ Mask \notin Nick /\ NoTopic \notin Topic
  /\ IsInjective(Sorted) /\ Len(ChanModes) = 4 /\ \A k \in 1 .. 4 : ChanModes[k] \in Seq(STRING)
  /\ \A line \in ModeLines : line \in Seq([add : BOOLEAN, mode : STRING])
  /\ MaxWire \in Nat

VARIABLES
  users,         \* IrcChannel::users, their nicks and modes
  self,          \* IrcChannel::self, as a position in users; 0 is null
  joined,        \* IrcChannel::joined
  current_nick,  \* IrcClient::current_nick
  topic,         \* IrcChannel::topic
  inside,        \* Bridge::resources_in_chan of the channel
  roster,        \* what each resource was told of a nick: its role, or "gone"
  subject,       \* the topic that each resource was told last
  from_server,   \* socket and input buffer
  members,       \* the people the server has in the channel
  nick_of,       \* the nick of each person
  modes_of,      \* the modes of each person in the channel
  topic_of       \* the topic of the channel

clientVars == <<users, self, joined, current_nick, topic, inside, roster, subject>>
topicVars == <<topic, subject>>
srvVars == <<members, nick_of, modes_of, topic_of>>
vars == <<users, self, joined, current_nick, topic, inside, roster, subject, from_server,
          members, nick_of, modes_of, topic_of>>

IrcUser(nick, modes) == [nick |-> nick, modes |-> modes]
UserMode == ToSet(Sorted)

Msg(cmd, nick, new) == [cmd |-> cmd, nick |-> nick, new |-> new]
Names(list) == [cmd |-> "353", names |-> list]
Subject(cmd, text) == [cmd |-> cmd, topic |-> text]
Mode(line, args) == [cmd |-> "MODE", line |-> line, args |-> args]

NobodyTold == [n \in Nick |-> "gone"]
Nobody == [r \in Resource |-> NobodyTold]

Init ==
  /\ users = <<>> /\ self = 0 /\ joined = FALSE
  /\ topic = NoTopic
  /\ inside = {} /\ roster = Nobody /\ subject = [r \in Resource |-> NoTopic]
  /\ from_server = <<>>
  /\ members \in SUBSET (Person \ {Me})
  /\ nick_of \in {f \in [Person -> Nick] : IsInjective(f)}
  /\ modes_of = [p \in Person |-> {}]
  /\ topic_of = NoTopic
  /\ current_nick = nick_of[Me]

-----------------------------------------------------------------------------
(* IrcChannel.                                                             *)

\* find_user(): the position of the first user with that nick, or 0.
FindUser(list, nick) == SelectInSeq(list, LAMBDA u : u.nick = nick)

\* add_user(): a user that is in the list stays as it is, with its modes.
AddUser(list, user) ==
  IF FindUser(list, user.nick) = 0 THEN Append(list, user) ELSE list

\* remove_user() of the user at position i: the first user with the same nick
\* goes; "self" and "joined" are reset if i is self.  The pointer "self" stays
\* on its user when one before it goes.
RemoveUser(i) ==
  LET k == FindUser(users, users[i].nick)
  IN  /\ users' = RemoveAt(users, k)
      /\ self' = IF i = self THEN 0 ELSE IF k < self THEN self - 1 ELSE self
      /\ joined' = (joined /\ i # self)

-----------------------------------------------------------------------------
(* What the resources are told.                                            *)

\* get_most_significant_mode() and get_role_affiliation_from_irc_mode()
Role(modes) ==
  LET k == SelectInSeq(Sorted, LAMBDA m : m \in modes)
  IN  CASE k = 0 -> "participant, none"
        [] Sorted[k] \in {"a", "q"} -> "moderator, owner"
        [] Sorted[k] = "o" -> "moderator, admin"
        [] Sorted[k] = "h" -> "moderator, member"
        [] Sorted[k] = "v" -> "participant, member"

\* The view of a resource that was told of every user of a set.
Told(view, list) ==
  [n \in Nick |-> IF \E u \in list : u.nick = n
                  THEN Role((CHOOSE u \in list : u.nick = n).modes) ELSE view[n]]

Tell(View(_)) ==
  roster' = [r \in Resource |-> IF r \in inside THEN View(roster[r]) ELSE roster[r]]

\* send_user_join() and send_affiliation_role_change() to every resource.
TellUsers(list) == Tell(LAMBDA view : Told(view, list))

\* send_muc_leave() or kick_muc_user() of another user.
TellLeave(nick) == Tell(LAMBDA view : [view EXCEPT ![nick] = "gone"])

\* The same of the user itself: the resource is out of the room.
TellSelfLeave ==
  /\ Tell(LAMBDA view : NobodyTold)
  /\ subject' = [r \in Resource |-> IF r \in inside THEN NoTopic ELSE subject[r]]

\* send_nick_change()
TellNick(old, user) == Tell(LAMBDA view : Told([view EXCEPT ![old] = "gone"], {user}))

\* send_topic() to every resource.
TellTopic(text) == subject' = [r \in Resource |-> IF r \in inside THEN text ELSE subject[r]]

\* join_irc_channel(): a resource enters; generate_channel_join_for_resource()
\* sends it the list and the topic, if the channel is joined.  "early": it comes between the
\* NAMES of the server and their end.
Enter(r) ==
  /\ r \notin inside
  /\ (self # 0 /\ ~joined) => "early" \in Env
  /\ inside' = inside \cup {r}
  /\ roster' = [roster EXCEPT ![r] = IF joined THEN Told(NobodyTold, ToSet(users))
                                                  ELSE NobodyTold]
  /\ subject' = [subject EXCEPT ![r] = IF joined THEN topic ELSE NoTopic]
  /\ UNCHANGED <<users, self, joined, current_nick, topic, from_server, srvVars>>

-----------------------------------------------------------------------------
(* The handlers.                                                           *)

Receives(cmd) ==
  /\ from_server # <<>>
  /\ Head(from_server).cmd = cmd
  /\ from_server' = Tail(from_server)

\* on_channel_join(): until the channel is joined, a JOIN is taken for ours.
OnChannelJoin ==
  LET nick == Head(from_server).nick
      list == AddUser(users, IrcUser(nick, {}))
  IN  /\ Receives("JOIN")
      /\ users' = list
      /\ IF joined THEN TellUsers({list[FindUser(list, nick)]}) /\ UNCHANGED self
                   ELSE self' = FindUser(list, nick) /\ UNCHANGED roster
      /\ UNCHANGED <<joined, current_nick, inside, topicVars, srvVars>>

\* set_and_forward_user_list(): the list of a joined channel is only forwarded.
\* Of ourself only the modes are taken; the others are announced as the list
\* has them.
OnNames ==
  LET names == Head(from_server).names
      IsSelf(u) == self # 0 /\ FindUser(users, u.nick) = self
      others == {u \in names : ~IsSelf(u)}
      mine == {u \in names : IsSelf(u)}
      list == FoldLeft(AddUser, users, SetToSeq(others))
  IN  /\ Receives("353")
      /\ IF joined THEN UNCHANGED <<users, roster>>
         ELSE /\ users' = IF mine = {} THEN list
                          ELSE [list EXCEPT ![self].modes = (CHOOSE u \in mine : TRUE).modes]
              /\ TellUsers({list[FindUser(list, u.nick)] : u \in others})
      /\ UNCHANGED <<self, joined, current_nick, inside, topicVars, srvVars>>

\* on_channel_completely_joined()
OnCompletelyJoined ==
  /\ Receives("366")
  /\ IF joined \/ self = 0
     THEN UNCHANGED <<joined, roster, subject>>
     ELSE joined' = TRUE /\ TellUsers({users[self]}) /\ TellTopic(topic)
  /\ UNCHANGED <<users, self, current_nick, topic, inside, srvVars>>

\* on_topic_received(), for 332 and TOPIC, and on_empty_topic(): the topic is
\* kept, and told if the channel is joined; an empty one (331) is only kept.
OnTopicReceived ==
  /\ Receives("332") \/ Receives("TOPIC")
  /\ topic' = Head(from_server).topic
  /\ IF joined THEN TellTopic(topic') ELSE UNCHANGED subject
  /\ UNCHANGED <<users, self, joined, current_nick, inside, roster, srvVars>>

OnEmptyTopic ==
  /\ Receives("331")
  /\ topic' = NoTopic
  /\ UNCHANGED <<users, self, joined, current_nick, inside, roster, subject, srvVars>>

\* The entry of the channel is erased, and its resources are out of it.
Erased ==
  /\ users' = <<>> /\ self' = 0 /\ joined' = FALSE /\ topic' = NoTopic
  /\ inside' = {} /\ TellSelfLeave

\* on_part()
OnPart ==
  LET nick == Head(from_server).nick
      i == FindUser(users, nick)
  IN  /\ Receives("PART")
      /\ IF ~joined \/ i = 0 THEN UNCHANGED <<users, self, joined, inside, roster, topicVars>>
         ELSE IF self # 0 /\ users[self].nick = nick THEN Erased
         ELSE RemoveUser(i) /\ TellLeave(nick) /\ UNCHANGED <<inside, topicVars>>
      /\ UNCHANGED <<current_nick, srvVars>>

\* on_quit()
OnQuit ==
  LET nick == Head(from_server).nick
      i == FindUser(users, nick)
  IN  /\ Receives("QUIT")
      /\ IF i = 0 THEN UNCHANGED <<users, self, joined, inside, roster, subject>>
         ELSE /\ RemoveUser(i)
              /\ IF i = self THEN inside' = {} /\ TellSelfLeave
                             ELSE UNCHANGED <<inside, subject>> /\ TellLeave(nick)
      /\ UNCHANGED <<current_nick, topic, srvVars>>

\* A mistaken on_nick(): current_nick is not changed.
MutOnNickKeepsCurrent ==
  LET i == FindUser(users, Head(from_server).nick)
  IN  /\ Receives("NICK")
      /\ IF i = 0 THEN UNCHANGED <<users, roster>>
         ELSE /\ users' = [users EXCEPT ![i].nick = Head(from_server).new]
              /\ TellNick(users[i].nick, users'[i])
      /\ UNCHANGED <<self, joined, inside, current_nick, topicVars, srvVars>>

\* on_nick(): it uses the nick of get_self() without a test; see NickHasSelf.
OnNick ==
  LET old == Head(from_server).nick
      new == Head(from_server).new
      me == self # 0 /\ users[self].nick = old
      i == IF me THEN self ELSE FindUser(users, old)
  IN  /\ Receives("NICK")
      /\ IF i = 0 THEN UNCHANGED <<users, roster>>
                  ELSE /\ users' = [users EXCEPT ![i].nick = new]
                       /\ TellNick(old, users'[i])
      /\ current_nick' = IF me THEN new ELSE current_nick
      /\ UNCHANGED <<self, joined, inside, topicVars, srvVars>>

\* chanmodes, from on_isupport_message(): the first letter after CHANMODES= is
\* not taken.  That of an empty first list is the comma after it.
chanmodes ==
  IF ChanModes[1] # <<>> THEN [ChanModes EXCEPT ![1] = Tail(@)]
                         ELSE Append(Tail(ChanModes), <<>>)

\* Whether on_channel_mode() takes an argument for a letter: types A, B and the
\* modes of PREFIX=, and type C when it is added.
UsesArg(lists, l) ==
  LET type == SelectInSeq(lists, LAMBDA list : Contains(list, l.mode))
  IN  \/ type \in {1, 2}
      \/ type = 0 /\ l.mode \in UserMode
      \/ type = 3 /\ l.add

\* One letter of a MODE; "stop" is the return for an argument that is nobody.
ApplyMode(st, l) ==
  LET i == FindUser(st.users, Head(st.args))
  IN  CASE st.stop \/ ~UsesArg(chanmodes, l) \/ st.args = <<>> -> st
        [] OTHER ->
             IF i = 0 THEN [st EXCEPT !.stop = TRUE]
             ELSE [st EXCEPT !.users[i].modes = IF l.add THEN @ \cup {l.mode} ELSE @ \ {l.mode},
                             !.args = Tail(@), !.touched = @ \cup {i}]

Applied(m) ==
  FoldLeft(ApplyMode, [users |-> users, args |-> m.args, touched |-> {}, stop |-> FALSE],
           m.line)

\* A mistaken on_channel_mode(): the role is told before the modes are applied.
MutOnChannelMode ==
  LET st == Applied(Head(from_server))
  IN  /\ Receives("MODE")
      /\ users' = st.users
      /\ IF st.stop THEN UNCHANGED roster ELSE TellUsers({users[i] : i \in st.touched})
      /\ UNCHANGED <<self, joined, inside, current_nick, topicVars, srvVars>>

\* on_channel_mode(): the users that were changed are announced at the end,
\* which the return does not reach.
OnChannelMode ==
  LET st == Applied(Head(from_server))
  IN  /\ Receives("MODE")
      /\ users' = st.users
      /\ IF st.stop THEN UNCHANGED roster ELSE TellUsers({st.users[i] : i \in st.touched})
      /\ UNCHANGED <<self, joined, inside, current_nick, topicVars, srvVars>>

\* A mistaken on_kick(): the kicked user stays in the list.
MutOnKickKeepsUser ==
  /\ Receives("KICK")
  /\ UNCHANGED <<clientVars, srvVars>>

\* on_kick(): only the kicked user leaves the list, even if it is ours.
OnKick ==
  LET nick == Head(from_server).nick
      i == FindUser(users, nick)
  IN  /\ Receives("KICK")
      /\ IF ~joined \/ i = 0 THEN UNCHANGED <<users, self, joined, roster, subject>>
         ELSE /\ RemoveUser(i)
              /\ IF i = self THEN TellSelfLeave ELSE TellLeave(nick) /\ UNCHANGED subject
      /\ UNCHANGED <<inside, current_nick, topic, srvVars>>

\* on_error() at the end of the connection.  "inside" is emptied only if the
\* channel was joined.
OnError ==
  /\ Receives("ERROR")
  /\ users' = <<>> /\ self' = 0 /\ joined' = FALSE /\ topic' = NoTopic
  /\ IF joined THEN inside' = {} /\ TellSelfLeave ELSE UNCHANGED <<inside, roster, subject>>
  /\ UNCHANGED <<current_nick, srvVars>>

Receive ==
  \/ OnChannelJoin \/ OnNames \/ OnCompletelyJoined \/ OnTopicReceived \/ OnEmptyTopic
  \/ OnPart \/ OnQuit \/ OnNick \/ OnChannelMode \/ OnKick \/ OnError

-----------------------------------------------------------------------------
(* The server.  It sends a message of another person to Me when both are   *)
(* in the channel, or share another one.                                   *)

Room == Len(from_server) < MaxWire
Here(p) == p \in members /\ Me \in members
Connected == \A i \in 1 .. Len(from_server) : from_server[i].cmd # "ERROR"

Relay(seen, messages) ==
  /\ Room /\ Connected
  /\ from_server' = IF seen THEN from_server \o messages ELSE from_server
  /\ UNCHANGED clientVars

\* The prefixes that the server puts before a nick; "single": it does not have
\* multi-prefix, and shows the highest one.
ShownModes(modes) ==
  IF "single" \in Env THEN {m \in modes : Role({m}) = Role(modes)}
                      ELSE modes

\* What a server says of the topic to the one who joins; some say it of an
\* empty one too ("331").
TopicOnJoin ==
  IF topic_of # NoTopic THEN <<Subject("332", topic_of)>>
  ELSE IF "331" \in Env THEN <<Subject("331", NoTopic)>> ELSE <<>>

\* The first one in a channel is its operator.
ServerJoins(p) ==
  LET list == {IrcUser(nick_of[q], ShownModes(modes_of'[q])) : q \in members \cup {p}}
      join == Msg("JOIN", nick_of[p], NoNick)
  IN  /\ p \notin members
      /\ members' = members \cup {p}
      /\ modes_of' = [modes_of EXCEPT ![p] = IF members = {} THEN {"o"} ELSE {}]
      /\ IF p = Me THEN Relay(TRUE, <<join>> \o TopicOnJoin
                                     \o <<Names(list), Msg("366", NoNick, NoNick)>>)
                   ELSE Relay(Me \in members, <<join>>)
      /\ UNCHANGED <<nick_of, topic_of>>

Leaves(p) ==
  /\ members' = members \ {p}
  /\ modes_of' = [modes_of EXCEPT ![p] = {}]
  /\ UNCHANGED <<nick_of, topic_of>>

ServerParts(p) ==
  /\ p \in members
  /\ Leaves(p)
  /\ Relay(Here(p), <<Msg("PART", nick_of[p], NoNick)>>)

\* Some servers send the QUIT to its author too.
ServerQuits(p) ==
  /\ p \in members \cup Nearby
  /\ Leaves(p)
  /\ IF p = Me THEN Relay(TRUE, <<Msg("QUIT", nick_of[p], NoNick),
                                 Msg("ERROR", NoNick, NoNick)>>)
               ELSE Relay(Here(p) \/ p \in Nearby,
                          <<Msg("QUIT", nick_of[p], NoNick)>>)

ServerKicks(p) ==
  /\ IF p = Me THEN "kick" \in Env ELSE TRUE
  /\ p \in members
  /\ Leaves(p)
  /\ Relay(Here(p), <<Msg("KICK", nick_of[p], NoNick)>>)

ServerRenames(p, new) ==
  /\ \A q \in Person : nick_of[q] # new
  /\ nick_of' = [nick_of EXCEPT ![p] = new]
  /\ p = Me => Me \in members
  /\ Relay(Here(p) \/ p \in Nearby \cup {Me}, <<Msg("NICK", nick_of[p], new)>>)
  /\ UNCHANGED <<members, modes_of, topic_of>>

\* A MODE about one person; the modes that are no user mode have a Mask as
\* argument, if they have one.
ServerModes(p, line) ==
  LET own == {k \in 1 .. Len(line) : line[k].mode \in UserMode}
      args == [k \in 1 .. Len(line) |-> IF k \in own THEN nick_of[p]
                                        ELSE IF UsesArg(ChanModes, line[k]) THEN Mask ELSE NoNick]
      Change(S, l) == IF l.mode \notin UserMode THEN S
                      ELSE IF l.add THEN S \cup {l.mode} ELSE S \ {l.mode}
  IN  /\ p \in members
      /\ modes_of' = [modes_of EXCEPT ![p] = FoldLeft(Change, @, line)]
      /\ Relay(Me \in members, <<Mode(line, SelectSeq(args, LAMBDA a : a # NoNick))>>)
      /\ UNCHANGED <<members, nick_of, topic_of>>

\* Someone in the channel changes the topic, or empties it.
ServerTopic(text) ==
  /\ members # {} /\ text # topic_of
  /\ topic_of' = text
  /\ Relay(Me \in members, <<Subject("TOPIC", text)>>)
  /\ UNCHANGED <<members, nick_of, modes_of>>

\* The connection is lost; the next one begins after its ERROR.
ServerLost ==
  /\ Relay(TRUE, <<Msg("ERROR", NoNick, NoNick)>>)
  /\ Leaves(Me)

Next ==
  \/ \E r \in Resource : Enter(r)
  \/ Receive
  \/ \E p \in Person : ServerJoins(p) \/ ServerParts(p) \/ ServerQuits(p)
                         \/ ServerKicks(p)
  \/ \E p \in Person, new \in Nick : ServerRenames(p, new)
  \/ \E p \in Changed, line \in ModeLines : ServerModes(p, line)
  \/ \E text \in Topic \cup {NoTopic} : ServerTopic(text)
  \/ ServerLost

Spec == Init /\ [][Next]_vars

-----------------------------------------------------------------------------
(* Properties.                                                             *)

\* The types; self is null (0) or points into the list of IrcChannel::users.
TypeOK ==
  /\ users \in Seq([nick : Nick, modes : SUBSET UserMode])
  /\ self \in 0 .. Len(users)
  /\ joined \in BOOLEAN
  /\ current_nick \in Nick
  /\ inside \subseteq Resource
  /\ DOMAIN roster = Resource /\ \A r \in Resource : DOMAIN roster[r] = Nick
  /\ members \subseteq Person
  /\ nick_of \in [Person -> Nick]
  /\ modes_of \in [Person -> SUBSET UserMode]
  /\ {topic, topic_of} \cup Range(subject) \subseteq Topic \cup {NoTopic}

\* The list of a joined channel, once the messages in flight are read, is the
\* list of the server: no user is missing, none is left over, and each has the
\* modes that the server gives it, whoever took over the nick of whom.  The
\* same holds of the topic.
ReplayMode(S, m) ==
  LET Change(X, l) ==
        IF l.mode \notin UserMode THEN X
        ELSE {IF ~Contains(m.args, u.nick) THEN u
              ELSE [u EXCEPT !.modes = IF l.add THEN @ \cup {l.mode} ELSE @ \ {l.mode}] : u \in X}
  IN  FoldLeft(Change, S, m.line)

Replay(S, s) ==
  FoldLeft(LAMBDA X, m :
             CASE m.cmd = "JOIN" -> X \cup {IrcUser(m.nick, {})}
               [] m.cmd \in {"PART", "QUIT", "KICK"} -> {u \in X : u.nick # m.nick}
               [] m.cmd = "NICK" -> {IF u.nick = m.nick THEN [u EXCEPT !.nick = m.new] ELSE u :
                                       u \in X}
               [] m.cmd = "MODE" -> ReplayMode(X, m)
               [] OTHER -> X,
           S, s)

Rejoining == \E i \in 1 .. Len(from_server) : from_server[i].cmd = "366"

OccupantsAgree ==
  (joined /\ Me \in members /\ ~Rejoining) =>
    /\ Replay(ToSet(users), from_server) = {IrcUser(nick_of[p], modes_of[p]) : p \in members}
    /\ FoldLeft(LAMBDA t, m : IF m.cmd = "TOPIC" THEN m.topic ELSE t, topic, from_server) = topic_of

\* Every resource in a joined channel was told of exactly the users in the
\* list, each with the role its modes give it now, and of the topic, whenever
\* the resource came in and whatever changed since.
RosterMatches ==
  joined => \A r \in inside : roster[r] = Told(NobodyTold, ToSet(users)) /\ subject[r] = topic

\* The user of the gateway is the one "self" points to, and current_nick is
\* its nick.
SelfIsMe ==
  joined => /\ self # 0
            /\ users[self].nick = current_nick
            /\ (Me \in members /\ ~Rejoining
                /\ \A i \in 1 .. Len(from_server) : from_server[i].cmd # "NICK")
               => users[self].nick = nick_of[Me]

\* on_nick() never finds a user in a channel whose self is null.
NickHasSelf ==
  (from_server # <<>> /\ Head(from_server).cmd = "NICK"
   /\ FindUser(users, Head(from_server).nick) # 0) => self # 0
=============================================================================
