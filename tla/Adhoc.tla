------------------------------- MODULE Adhoc --------------------------------
(***************************************************************************)
(* The sessions of the ad-hoc commands, the timers that end them, and the  *)
(* commands that disconnect users.  A session is known by its id and by    *)
(* the full JID that opened it.  A request is handled in one step; bridges *)
(* without a client are removed between two requests, or not yet.          *)
(*                                                                         *)
(* A session refers to strings of the handler of its first request.  They  *)
(* are gone when a later step reads them: what is read there is the string *)
(* at the same place of the stack, that is, of the current request.        *)
(***************************************************************************)
EXTENDS Integers, Sequences, FiniteSets, SequencesExt

CONSTANTS
  User,         \* bare JIDs
  Admin,        \* those in the "admin" list
  Jid,          \* full JIDs, pairs of a user and a resource
  Server,       \* IRC servers
  Command,      \* nodes of the commands that clients use
  MaxSessions,  \* bound: sessions opened
  MaxConnects   \* bound: IRC clients made

ASSUME AdhocAssumptions ==
  /\ Admin \subseteq User /\ \A j \in Jid : j[1] \in User
  /\ Command \subseteq {"ping", "hello", "disconnect-user", "disconnect-from-irc-server"}
  /\ MaxSessions \in Nat /\ MaxConnects \in Nat

VARIABLES
  sessions,  \* the sessions map
  timers,    \* the planned remove_session(), in the order of their dates
  lastId,    \* the last id of next_id()
  clients,   \* IRC clients, pairs of a user and a server
  live,      \* those that are connected or connecting
  bridges,   \* users that have a bridge
  made,      \* IRC clients made so far
  answer,    \* history: the answer of the last request
  crashed    \* the process died of a null bridge

vars == <<sessions, timers, lastId, clients, live, bridges, made, answer, crashed>>

Bare(j) == j[1]
NoForm == [sent |-> FALSE, users |-> {}, servers |-> {}]
NoAnswer == [jid |-> <<>>, status |-> "none", number |-> 0]
IsAdminOnly(cmd) == cmd = "disconnect-user"

\* AdhocCommand::callbacks.size()
Steps(cmd) == CASE cmd = "ping" -> 1
                [] cmd \in {"hello", "disconnect-user"} -> 2
                [] cmd = "disconnect-from-irc-server" -> 3

-----------------------------------------------------------------------------
Init ==
  /\ sessions = {} /\ timers = <<>> /\ lastId = 0
  /\ clients = {} /\ live = {} /\ bridges = {} /\ made = 0
  /\ answer = NoAnswer
  /\ crashed = FALSE

(***************************************************************************)
(* What a step does: how many callbacks it takes, whether it terminates    *)
(* the session, the user it keeps for later, the clients it destroys, what *)
(* it counts, and whether it needs a bridge there is not.                  *)
(***************************************************************************)
Plain(s) == [taken |-> 1, ends |-> FALSE, whom |-> s.whom, kills |-> {}, number |-> 0,
             null |-> FALSE]

\* HelloStep2, as well as the configuration forms: an empty form is an error.
HelloStep2(s, form) == [Plain(s) EXCEPT !.ends = ~form.sent]

\* DisconnectUserStep2: the clients of the chosen users are sent a QUIT, after
\* which ConnectionEnds may come.
DisconnectUserStep2(s, form, known) ==
  IF ~form.sent THEN [Plain(s) EXCEPT !.ends = TRUE]
  ELSE [Plain(s) EXCEPT !.number = Cardinality(form.users \cap known)]

\* DisconnectUserFromServerStep2: keeps the user; one who has no client ends it.
FromServerStep2(s, form, known) ==
  LET u == IF form.sent /\ form.users # {} THEN CHOOSE v \in form.users : TRUE ELSE Bare(s.jid)
  IN  [Plain(s) EXCEPT !.whom = <<u>>, !.ends = u \notin known \/ ~\E c \in clients : c[1] = u]

\* Only an administrator is asked for the user; for the others that is the
\* next callback already.
FromServerStep1(s, form, known) ==
  IF Bare(s.jid) \in Admin THEN Plain(s)
  ELSE [FromServerStep2(s, form, known) EXCEPT !.taken = 2]

\* The administrator's own clients.
MutFromServerStep3(s, form, known) ==
  LET chosen == {c \in clients : c[1] = Bare(s.jid) /\ c[2] \in form.servers}
  IN  IF s.whom = <<>> THEN Plain(s)
      ELSE [Plain(s) EXCEPT !.kills = chosen, !.number = Cardinality(chosen)]

\* DisconnectUserFromServerStep3: the clients are told of an error and erased.
FromServerStep3(s, form, known) ==
  LET chosen == {c \in clients : c[1] = s.whom[1] /\ c[2] \in form.servers}
  IN  IF s.whom = <<>> THEN Plain(s)
      ELSE [Plain(s) EXCEPT !.kills = chosen, !.number = Cardinality(chosen),
                            !.null = s.whom[1] \notin known /\ form.servers # {}]

Step(s, form, known) ==
  CASE s.cmd = "hello" /\ s.step = 1 -> HelloStep2(s, form)
    [] s.cmd = "disconnect-user" /\ s.step = 1 -> DisconnectUserStep2(s, form, known)
    [] s.cmd = "disconnect-from-irc-server" /\ s.step = 0 -> FromServerStep1(s, form, known)
    [] s.cmd = "disconnect-from-irc-server" /\ s.step = 1 -> FromServerStep2(s, form, known)
    [] s.cmd = "disconnect-from-irc-server" /\ s.step = 2 -> FromServerStep3(s, form, known)
    [] OTHER -> Plain(s)

-----------------------------------------------------------------------------
Name(s) == <<s.id, s.jid>>

\* The session is kept until somebody finishes it.
MutPlan(s) == timers

\* TimedEventsManager::add_event(): all have the same delay.
Plan(s) == Append(timers, Name(s))

\* The timer is forgotten.
MutCancel(planned, s) == planned

\* TimedEventsManager::cancel()
Cancel(planned, s) == SelectSeq(planned, LAMBDA n : n # Name(s))

IsOver(s, effect) == effect.ends \/ s.step + effect.taken = Steps(s.cmd)

Find(all, id, j) == {s \in all : s.id = id /\ s.jid = j}

Refuse(j) ==
  /\ answer' = [jid |-> j, status |-> "error", number |-> 0]
  /\ bridges' = bridges \cup {Bare(j)}
  /\ UNCHANGED <<sessions, timers, lastId, clients, live, made, crashed>>

\* handle_request(); handle_iq() has made a bridge for the user.
HandleRequest(j, node, id, action, form) ==
  LET fresh == [id |-> lastId + 1, jid |-> j, cmd |-> node, step |-> 0, whom |-> <<>>]
      all == IF id = 0 THEN sessions \cup {fresh} ELSE sessions
      planned == IF id = 0 THEN Plan(fresh) ELSE timers
      found == Find(all, IF id = 0 THEN fresh.id ELSE id, j)
      known == bridges \cup {Bare(j)}
  IN  /\ id = 0 => lastId < MaxSessions
      /\ bridges' = known
      /\ lastId' = IF id = 0 THEN fresh.id ELSE lastId
      /\ UNCHANGED made
      /\ \/ /\ action = "execute"  \* or "next", or "complete"
            /\ \E s \in found :
                 LET e == Step(s, form, known)
                     next == [s EXCEPT !.step = @ + e.taken, !.whom = e.whom]
                     over == IsOver(s, e)
                 IN  /\ sessions' = (all \ {s}) \cup (IF over THEN {} ELSE {next})
                     /\ timers' = IF over THEN Cancel(planned, s) ELSE planned
                     /\ clients' = clients \ e.kills
                     /\ live' = live \ e.kills
                     /\ crashed' = e.null
                     /\ answer' = [jid |-> j, number |-> e.number,
                                   status |-> IF over THEN "completed" ELSE "executing"]
         \/ /\ action = "cancel"
            /\ \E s \in found : sessions' = all \ {s} /\ timers' = Cancel(planned, s)
            /\ answer' = [jid |-> j, status |-> "canceled", number |-> 0]
            /\ UNCHANGED <<clients, live, crashed>>
         \/ /\ found = {} \/ action = "prev"
            /\ sessions' = all /\ timers' = planned
            /\ answer' = [jid |-> j, status |-> "error", number |-> 0]
            /\ UNCHANGED <<clients, live, crashed>>

Request(j, node, id, action, form) ==
  /\ ~crashed
  /\ IF IsAdminOnly(node) /\ Bare(j) \notin Admin THEN Refuse(j)
     ELSE HandleRequest(j, node, id, action, form)

\* The sessions end an hour after they began: remove_session().
Expire ==
  /\ ~crashed /\ timers # <<>>
  /\ sessions' = {s \in sessions : Name(s) # Head(timers)}
  /\ timers' = Tail(timers)
  /\ answer' = NoAnswer
  /\ UNCHANGED <<lastId, clients, live, bridges, made, crashed>>

-----------------------------------------------------------------------------
(* Around the sessions: joins, connections that end, clean().              *)

Connect(u, srv) ==
  /\ ~crashed /\ made < MaxConnects /\ <<u, srv>> \notin clients
  /\ clients' = clients \cup {<<u, srv>>} /\ live' = live \cup {<<u, srv>>}
  /\ bridges' = bridges \cup {u}
  /\ made' = made + 1
  /\ answer' = NoAnswer
  /\ UNCHANGED <<sessions, timers, lastId, crashed>>

ConnectionEnds(u, srv) ==
  /\ ~crashed /\ <<u, srv>> \in live
  /\ live' = live \ {<<u, srv>>}
  /\ answer' = NoAnswer
  /\ UNCHANGED <<sessions, timers, lastId, clients, bridges, made, crashed>>

Clean ==
  /\ ~crashed
  /\ clients' = clients \cap live
  /\ bridges' = {c[1] : c \in clients \cap live}
  /\ <<clients', bridges'>> # <<clients, bridges>>
  /\ answer' = NoAnswer
  /\ UNCHANGED <<sessions, timers, lastId, live, made, crashed>>

Forms == {NoForm} \cup [sent: {TRUE}, users: {{u} : u \in User}, servers: SUBSET Server]

\* A request that opens a session has no form.  The others name the command of
\* the session, and maybe one that there is not, or somebody else's: then the form
\* is not read.
Next ==
  \/ \E j \in Jid, node \in Command, action \in {"execute", "cancel", "prev"} :
       Request(j, node, 0, action, NoForm)
  \/ \E s \in sessions, form \in Forms : Request(s.jid, s.cmd, s.id, "execute", form)
  \/ \E j \in Jid, s \in sessions, action \in {"execute", "cancel", "prev"} :
       Request(j, s.cmd, s.id, action, NoForm)
  \/ \E j \in Jid, node \in Command : Request(j, node, MaxSessions + 1, "execute", NoForm)
  \/ Expire
  \/ \E u \in User, srv \in Server : Connect(u, srv) \/ ConnectionEnds(u, srv)
  \/ Clean

Spec == Init /\ [][Next]_vars

(* Timed events are run by the main loop, whatever clients do.             *)
FairSpec == Spec /\ WF_vars(Expire)

-----------------------------------------------------------------------------
(* Properties.                                                             *)

\* The variables keep their types; an id is given once.
TypeOK ==
  /\ \A s \in sessions : /\ s.id \in 1..lastId /\ s.jid \in Jid /\ s.cmd \in Command
                         /\ s.step \in 0..2
                         /\ s.whom \in {<<>>} \cup {<<u>> : u \in User}
  /\ \A s, t \in sessions : s.id = t.id => s = t
  /\ live \subseteq clients
  /\ \A c \in clients : c[1] \in bridges

\* Every session has one timer and every timer its session: a session that
\* nobody finishes is removed, and remove_session() never logs that there is none.
SessionsTimed ==
  /\ {Name(s) : s \in sessions} = Range(timers)
  /\ Cardinality(Range(timers)) = Len(timers)

\* The clients that a session destroys are those of the one user it has kept, as
\* many as it reports; other sessions in between do not change that.
KillsPicked ==
  [][LET gone == {c \in clients \ clients' : c \in live}
     IN  gone # {} =>
           /\ answer'.number >= Cardinality(gone)
           /\ \E s \in sessions \ sessions' :
                s.jid = answer'.jid /\ s.step = 2 /\ \A c \in gone : s.whom = <<c[1]>>]_vars

\* Every session comes to an end, if nobody finishes it by its timer.
SessionsEnd == \A id \in 1..MaxSessions :
  (\E s \in sessions : s.id = id) ~> (crashed \/ ~\E s \in sessions : s.id = id)
=============================================================================
