------------------------------ MODULE Archive -------------------------------
(***************************************************************************)
(* The archive of the channels: the messages that are stored, the history  *)
(* that is sent on a join and the pages of a MAM request, over Options.    *)
(* Which channels are joined is told by Bridge; here a join is underway,   *)
(* then done.  The archive is one table; the id of a line is its index.    *)
(***************************************************************************)
EXTENDS Options

CONSTANTS
  Dates,    \* dates of messages and of filters, a set of positive integers
  Limits,   \* history limits of joins: records of stanzas (-1: no limit) and since
  Windows,  \* start and end of MAM requests, pairs of dates
  MaxPage,  \* the most lines a MAM request is answered with (100)
  PageMax   \* values of <max/> in a MAM request; -1: none

ASSUME ArchiveAssumptions ==
  /\ \A d \in Dates : d \in Nat \ {0}
  /\ Limits \subseteq [stanzas: Int, since: Dates \cup {0}]
  /\ Windows \subseteq (Dates \cup {0}) \X (Dates \cup {0})
  /\ PageMax \subseteq Int /\ MaxPage \in Nat \ {0}

VARIABLES
  log,      \* muclogline_: a sequence of lines; "nick" is false for an empty one
  joined,   \* channels joined by each owner
  pending,  \* channels being joined
  limit,    \* history_limit of the IrcClient of each owner
  told,     \* history: the MUC history that the last step sent, if any
  walk      \* a client that goes through an archive, page by page; kept
            \* for one step when it is over

avars == <<log, joined, pending, limit, told, walk>>
vars == <<ovars, avars>>

NoDate == 0
NoLimit == [stanzas |-> -1, since |-> NoDate]
NoRef == 0
Absent == -1

-----------------------------------------------------------------------------
(* Queries.                                                                *)

\* The lines of an archive between two dates, by id.
Within(i, o, c, start, end) ==
  /\ log[i].owner = o /\ log[i].chan = c
  /\ start # NoDate => log[i].date >= start
  /\ end # NoDate => log[i].date <= end

Ids == [i \in 1..Len(log) |-> i]

\* The rows a query asks for: it stops at the limit.
MutRows(ids, n) == SubSeq(ids, 1, Min({n, Len(ids)}))

\* One more is asked for, to know whether there are more.
Rows(ids, n) == SubSeq(ids, 1, Min({n + 1, Len(ids)}))

\* get_muc_logs()
GetMucLogs(o, c, n, start, end, ref, paging) ==
  LET Wanted(i) == /\ Within(i, o, c, start, end)
                   /\ ref # NoRef => IF paging = "first" THEN i > ref ELSE i < ref
      Ordered(s) == IF paging = "first" THEN s ELSE Reverse(s)
      rows == Rows(Ordered(Filter(Ids, {i \in 1..Len(log) : Wanted(i)})), n)
      complete == Len(rows) # n + 1
  IN  [complete |-> complete, lines |-> Ordered(IF complete THEN rows ELSE Front(rows))]

\* get_muc_log(): otherwise RecordNotFound.
Found(ref, o, c, start, end) == ref \in 1..Len(log) /\ Within(ref, o, c, start, end)

\* handle_mam_request(): "before" is absent, empty or a reference, and wins.
PageLimit(max) == IF max < 0 \/ max > MaxPage THEN MaxPage ELSE max

Mam(o, c, q) ==
  LET paging == IF q.before = Absent THEN "first" ELSE "last"
      ref == IF q.before \in {Absent, NoRef} THEN q.after ELSE q.before
      res == GetMucLogs(o, c, PageLimit(q.max), q.start, q.end, ref, paging)
  IN  IF \E r \in {q.after, q.before} : r > NoRef /\ ~Found(r, o, c, q.start, q.end)
      THEN [error |-> TRUE, complete |-> FALSE, lines |-> <<>>]
      ELSE [error |-> FALSE, complete |-> res.complete, lines |-> res.lines]

\* The client decides.
MutHistoryLength(o, h) == IF h.stanzas >= 0 THEN h.stanzas ELSE DefaultMax

\* send_room_history(): how many lines.
HistoryLength(o, h) ==
  LET max == IF GetGlobal(o).max < 0 THEN DefaultMax ELSE GetGlobal(o).max
  IN  IF h.stanzas >= 0 /\ h.stanzas < max THEN h.stanzas ELSE max

History(o, c, h) ==
  [owner |-> o, chan |-> c, limit |-> h, max |-> GetGlobal(o).max, asof |-> Len(log),
   lines |-> GetMucLogs(o, c, HistoryLength(o, h), h.since, NoDate, NoRef, "last").lines]

-----------------------------------------------------------------------------
Init ==
  /\ OInit
  /\ log = <<>>
  /\ joined = [o \in Owner |-> {}] /\ pending = [o \in Owner |-> {}]
  /\ limit = [o \in Owner |-> NoLimit]
  /\ told = <<>>
  /\ walk = [status |-> "none"]

\* What becomes of the history variables in another step.
WalkStays == walk' = IF walk.status = "on" THEN walk ELSE [status |-> "none"]
Quiet == told' = <<>> /\ WalkStays

\* join_irc_channel(): the limit is kept in the client; a resource that enters
\* a channel that is joined already is sent the history at once.
Join(o, c, h) ==
  /\ Idle /\ Event
  /\ flag' = [flag EXCEPT ![o] = NewFlag(o)]
  /\ limit' = [limit EXCEPT ![o] = h]
  /\ IF c \in joined[o]
     THEN told' = <<History(o, c, h)>> /\ WalkStays /\ UNCHANGED pending
     ELSE pending' = [pending EXCEPT ![o] = @ \cup {c}] /\ Quiet
  /\ UNCHANGED <<disk, todo, work, cache, asked, log, joined>>

\* on_channel_completely_joined()
CompletelyJoined(o, c) ==
  /\ Idle /\ c \in pending[o]
  /\ pending' = [pending EXCEPT ![o] = @ \ {c}]
  /\ joined' = [joined EXCEPT ![o] = @ \cup {c}]
  /\ told' = <<History(o, c, limit[o])>> /\ WalkStays
  /\ UNCHANGED <<ovars, log, limit>>

Line(o, c, d, nick) == [owner |-> o, chan |-> c, date |-> d, nick |-> nick]

\* send_message() for a channel; the messages of the gateway have no nick.
OnChannelMessage(o, c, d, nick) ==
  /\ Idle /\ Event /\ c \in joined[o]
  /\ cache' = [cache EXCEPT ![<<o, c>>] = CachedEncoding(o, c)]
  /\ log' = IF flag[o] = "true" THEN Append(log, Line(o, c, d, nick)) ELSE log
  /\ UNCHANGED <<disk, todo, work, flag, asked, joined, pending, limit>>
  /\ Quiet

\* send_channel_message(): stored even if the channel is not joined.
SendChannelMessage(o, c, d) ==
  /\ Idle /\ Event /\ flag[o] # "none"
  /\ log' = IF flag[o] = "true" THEN Append(log, Line(o, c, d, TRUE)) ELSE log
  /\ UNCHANGED <<disk, todo, work, flag, cache, asked, joined, pending, limit>>
  /\ Quiet

\* The connection of a user ends, and clean() removes the bridge.
Disconnected(o) ==
  /\ Idle /\ flag[o] # "none"
  /\ flag' = [flag EXCEPT ![o] = "none"]
  /\ joined' = [joined EXCEPT ![o] = {}] /\ pending' = [pending EXCEPT ![o] = {}]
  /\ limit' = [limit EXCEPT ![o] = NoLimit]
  /\ UNCHANGED <<disk, todo, work, cache, asked, events, log>>
  /\ Quiet

Restart ==
  /\ Event /\ ORestart
  /\ joined' = [o \in Owner |-> {}] /\ pending' = [o \in Owner |-> {}]
  /\ limit' = [o \in Owner |-> NoLimit]
  /\ UNCHANGED log /\ Quiet

-----------------------------------------------------------------------------
(* A client that asks for a page, and for the next one until it is told    *)
(* that the result is complete.                                            *)

Nicked(lines) == Filter(lines, {i \in 1..Len(log) : log[i].nick})

\* What it makes of an answer: the reference of the next page is the first or
\* the last line, also when the line itself was not sent.
Takes(w) ==
  LET page == Mam(w.owner, w.chan, w.q)
      got == IF w.q.before = Absent THEN w.got \o Nicked(page.lines)
             ELSE Nicked(page.lines) \o w.got
      status == IF page.error THEN "error" ELSE IF page.complete THEN "done"
                ELSE IF page.lines = <<>> THEN "stopped" ELSE "on"
  IN  [w EXCEPT !.got = got, !.status = status,
                !.asof = IF w.q.before = Absent \/ @ = -1 THEN Len(log) ELSE @,
                !.q = IF page.lines = <<>> THEN @
                      ELSE IF w.q.before = Absent THEN [@ EXCEPT !.after = Last(page.lines)]
                      ELSE [@ EXCEPT !.before = Head(page.lines)]]

\* A client may start from a line it has seen before.
Queries ==
  {[start |-> w[1], end |-> w[2], max |-> m, after |-> r[1], before |-> r[2]] :
     w \in Windows, m \in PageMax,
     r \in ((0..Len(log)) \X {Absent}) \cup ({NoRef} \X (0..Len(log)))}

WalkBegins(o, c, q) ==
  /\ Idle /\ Event /\ walk.status # "on"
  /\ walk' = Takes([status |-> "on", owner |-> o, chan |-> c, q |-> q, q0 |-> q,
                    got |-> <<>>, asof |-> -1])
  /\ UNCHANGED <<disk, todo, work, flag, cache, asked, log, joined, pending, limit>>
  /\ told' = <<>>

WalkGoesOn ==
  /\ Idle /\ walk.status = "on"
  /\ walk' = Takes(walk)
  /\ told' = <<>>
  /\ UNCHANGED <<ovars, log, joined, pending, limit>>

-----------------------------------------------------------------------------
Next ==
  \/ ONext /\ UNCHANGED <<log, joined, pending, limit>> /\ Quiet
  \/ \E o \in Owner, c \in Chan, h \in Limits : Join(o, c, h)
  \/ \E o \in Owner, c \in Chan : CompletelyJoined(o, c)
  \/ \E o \in Owner, c \in Chan, d \in Dates, nick \in BOOLEAN : OnChannelMessage(o, c, d, nick)
  \/ \E o \in Owner, c \in Chan, d \in Dates : SendChannelMessage(o, c, d)
  \/ \E o \in Owner : Disconnected(o)
  \/ Restart
  \/ \E o \in Owner, c \in Chan, q \in Queries : WalkBegins(o, c, q)
  \/ WalkGoesOn

Spec == Init /\ [][Next]_vars

-----------------------------------------------------------------------------
(* Properties.                                                             *)

\* The variables keep their types; a bridge is what joins channels, and only a
\* running handler has statements left.
TypeOK ==
  /\ \A i \in 1..Len(log) : log[i] \in [owner: Owner, chan: Chan, date: Dates, nick: BOOLEAN]
  /\ \A o \in Owner : /\ joined[o] \cup pending[o] \subseteq Chan
                      /\ flag[o] = "none" => joined[o] = {} /\ pending[o] = {}
                      /\ limit[o] \in Limits \cup {NoLimit}
  /\ Idle => work = disk.commands

\* A walk that is told its result is complete has received every line of the
\* archive that it asked for, once, in order and nobody else's, whatever was
\* stored or restarted between its pages (a walk backwards: whatever was
\* there when it began).
WalkComplete ==
  walk.status = "done" =>
    LET q == walk.q0
        Wanted(i) == /\ i <= walk.asof /\ log[i].nick
                     /\ Within(i, walk.owner, walk.chan, q.start, q.end)
                     /\ IF q.before = Absent THEN i > q.after ELSE q.before = NoRef \/ i < q.before
    IN  walk.got = Filter(Ids, {i \in 1..Len(log) : Wanted(i)})

\* The history of a join is the end of the archive of that channel, in order,
\* and as long as the limits of the user and of the join allow.
HistoryIsTail ==
  \A k \in 1..Len(told) :
    LET t == told[k]
        all == Filter(Ids, {i \in 1..Len(log) :
                             i <= t.asof /\ Within(i, t.owner, t.chan, t.limit.since, NoDate)})
        most == Min({IF t.max < 0 THEN DefaultMax ELSE t.max}
                    \cup {n \in {t.limit.stanzas} : n >= 0})
    IN  t.lines = SubSeq(all, Max({1, Len(all) - most + 1}), Len(all))
=============================================================================
