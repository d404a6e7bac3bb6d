-------------------------- MODULE ArchiveInvariant --------------------------
(***************************************************************************)
(* What the proofs about the options and the archive keep true, and the    *)
(* words they say it in.                                                   *)
(***************************************************************************)
EXTENDS Archive

-----------------------------------------------------------------------------
(* The options.                                                            *)

\* The ids that sqlite3_last_insert_rowid() hands out: positive, one per row.
IdsOK(T) ==
  /\ \A r \in T : r.id \in Nat \ {0}
  /\ \A r, s \in T : r.id = s.id => r = s
  /\ \E n \in Nat : \A r \in T : r.id <= n

\* A table of rows of U in which a key has one row at most.
TableOK(T, U, key) ==
  /\ T \subseteq U /\ IdsOK(T)
  /\ \A r, s \in T : key[r] = key[s] => r = s

RowsOf(T, key, k) == {r \in T : key[r] = k}

\* What is read for a key.
Read(T, key, k, d) == Get(RowsOf(T, key, k), d)

\* The id of the next row that is inserted.
NewId(T) == 1 + Max({Unset} \cup {r.id : r \in T})

\* What Save() leaves in the table for a row.
Saved(T, row) == IF row.id = Unset THEN [row EXCEPT !.id = NewId(T)] ELSE row

\* A row as get_...() hands it out for a key, to be changed and saved: it has
\* the id of the row of the key, or none when there is no row.
MaySave(T, U, key, row) ==
  /\ TableOK(T, U, key) /\ row \in U /\ "id" \in DOMAIN row /\ row.id \in Nat
  /\ Saved(T, row) \in U /\ key[Saved(T, row)] = key[row]
  /\ row.id = Unset => \A r \in T : key[r] # key[row]
  /\ row.id # Unset => \E r \in T : r.id = row.id /\ key[r] = key[row]

\* Save() leaves a table, in which the row is what is read for its key.
SaveDone(T, U, key, row) ==
  /\ TableOK(Save(T, row), U, key)
  /\ \A d : Read(Save(T, row), key, key[row], d) = Saved(T, row)
  /\ \A k, d : k # key[row] => Read(Save(T, row), key, k, d) = Read(T, key, k, d)
  /\ Saved(T, row) \in Save(T, row)
  /\ \A r \in T : \E q \in Save(T, row) : q.id = r.id
  /\ Saved(T, row).id # Unset
  /\ row.id # Unset => Saved(T, row) = row
  /\ row.id = Unset => \A r \in T : r.id # Saved(T, row).id

\* The rows of the tables and their keys.
GlobalRow == [id: Nat, owner: Owner, max: Int, record: BOOLEAN]
ServerRow == [id: Nat, owner: Owner, enc: Enc]
ChannelRow == [id: Nat, owner: Owner, chan: Chan, enc: Enc,
               record: {"true", "false", "unset"}]
CommandRow == [fk: Nat, cmd: STRING]

GlobalKey == [r \in GlobalRow |-> r.owner]
ServerKey == [r \in ServerRow |-> r.owner]
ChannelKey == [r \in ChannelRow |-> <<r.owner, r.chan>>]

Of(fk) == {r \in CommandRow : r.fk = fk}
NotOf(fk) == {r \in CommandRow : r.fk # fk}

\* The types of the variables of Options.
OptionTypes ==
  /\ disk \in [global: SUBSET GlobalRow, server: SUBSET ServerRow,
               channel: SUBSET ChannelRow, commands: Seq(CommandRow)]
  /\ work \in Seq(CommandRow)
  /\ cache \in [Key -> Enc \cup {"none"}]
  /\ asked \in [max: [Owner -> Int], record: [Owner -> {"true", "false"}],
                enc: [Key -> Enc], senc: [Owner -> Enc],
                crecord: [Key -> {"true", "false", "unset"}],
                cmds: [Owner -> Seq(STRING)], next: {<<>>} \cup (Owner \X Commands)]

\* Each key has one row at most, and so has each id.
Tables ==
  /\ TableOK(disk.global, GlobalRow, GlobalKey)
  /\ TableOK(disk.server, ServerRow, ServerKey)
  /\ TableOK(disk.channel, ChannelRow, ChannelKey)
  /\ \A r \in Range(disk.commands) : \E s \in disk.server : s.id = r.fk

\* The rows that the first n commands are inserted as.
Inserted(fk, cmds, n) == [k \in 1..n |-> [fk |-> fk, cmd |-> cmds[k]]]

\* Where the transaction of set_after_connection_commands() is: j statements
\* of it have been run, and the table it sees is the one on disk with them.
Underway ==
  LET o == asked.next[1]
      cmds == asked.next[2]
      fk == GetServer(o).id
  IN  /\ asked.next # <<>> /\ fk # Unset
      /\ \E j \in 0 .. Len(cmds) + 1 :
           /\ todo = SubSeq(Replace(fk, cmds), j + 1, Len(cmds) + 2)
           /\ work = IF j = 0 THEN disk.commands
                     ELSE Filter(disk.commands, NotOf(fk)) \o Inserted(fk, cmds, j - 1)

\* The inductive invariant of the options.
OptionsInv ==
  /\ OptionTypes /\ Tables /\ OptionsStick /\ CacheFresh
  /\ IF Idle THEN work = disk.commands ELSE Underway

\* What is read where there is no row.
GlobalDefault(o) == [id |-> Unset, owner |-> o, max |-> DefaultMax, record |-> TRUE]
ServerDefault(o) == [id |-> Unset, owner |-> o, enc |-> Empty]
ChannelDefault(o, c) == [id |-> Unset, owner |-> o, chan |-> c, enc |-> Empty, record |-> "unset"]

\* The after-connection commands of a server in a table.
CmdsOf(t, fk) == LET rows == Filter(t, Of(fk)) IN [k \in 1..Len(rows) |-> rows[k].cmd]

\* The statements of set_after_connection_commands(), and what all of them do.
StatementRow == [op: {"delete", "insert", "end"}, fk: Nat, cmd: STRING \cup {Empty}]

Applied(u, t, fk, cmds) ==
  /\ u \in Seq(CommandRow)
  /\ CmdsOf(u, fk) = cmds
  /\ \A g : g # fk => CmdsOf(u, g) = CmdsOf(t, g)
  /\ \A r \in Range(u) : r \in Range(t) \/ r.fk = fk

-----------------------------------------------------------------------------
(* The archive.                                                            *)

\* A line of the archive.
LogLine == [owner: Owner, chan: Chan, date: Dates, nick: BOOLEAN]

\* The lines that a walk may be sent, and those of them that are.
Window(w) == {i \in 1..Len(log) : Within(i, w.owner, w.chan, w.q0.start, w.q0.end)}
Sent(w) == {i \in Window(w) : log[i].nick}

\* A walk through the archive and the query of its next page.
Query == [start: Nat, end: Nat, max: Int, after: Nat, before: Int]
Status == {"on", "done", "stopped", "error"}
Walk == [status: Status, owner: Owner, chan: Chan, q: Query, q0: Query, got: Seq(Nat), asof: Int]

\* What a walk that goes on has been sent: everything from where it began to
\* where it is.
WalkOn(w) ==
  /\ w \in Walk /\ Ascending(w.got)
  /\ w.q.start = w.q0.start /\ w.q.end = w.q0.end
  /\ \/ /\ w.q0.before = Absent /\ w.q.before = Absent
        /\ w.q0.after <= w.q.after /\ w.q.after <= Len(log)
        /\ Range(w.got) = {i \in Sent(w) : w.q0.after < i /\ i <= w.q.after}
     \/ /\ w.q0.before \in 0..Len(log) /\ w.q.after = NoRef
        /\ \/ w.asof = -1 /\ w.got = <<>> /\ w.q.before = w.q0.before
           \/ /\ w.q.before \in 1..w.asof /\ w.asof <= Len(log)
              /\ w.q0.before # NoRef => w.q.before < w.q0.before
              /\ Range(w.got) = {i \in Sent(w) : /\ w.q.before <= i /\ i <= w.asof
                                                 /\ w.q0.before # NoRef => i < w.q0.before}

\* WalkComplete, of any walk.
Complete(w) ==
  LET q == w.q0
      Wanted(i) == /\ i <= w.asof /\ log[i].nick
                   /\ Within(i, w.owner, w.chan, q.start, q.end)
                   /\ IF q.before = Absent THEN i > q.after ELSE q.before = NoRef \/ i < q.before
  IN  w.got = Filter(Ids, {i \in 1..Len(log) : Wanted(i)})

\* The inductive invariant of the archive.
ArchiveInv ==
  /\ log \in Seq(LogLine)
  /\ limit \in [Owner -> [stanzas: Int, since: Nat]]
  /\ HistoryIsTail
  /\ walk.status = "on" => WalkOn(walk)
  /\ walk.status = "done" => Complete(walk)

\* The lines of a page of n, out of the rows that its query selects.
Cut(ids, n) == IF Len(Rows(ids, n)) # n + 1 THEN Rows(ids, n) ELSE Front(Rows(ids, n))

\* The lines that the query of a page selects, in order.
Selected(o, c, start, end, ref, paging) ==
  Filter(Ids, {i \in 1..Len(log) :
                 /\ Within(i, o, c, start, end)
                 /\ ref # NoRef => IF paging = "first" THEN i > ref ELSE i < ref})

\* The history that a join is sent, which History() reads off the archive.
TailOf(t) ==
  LET all == Filter(Ids, {i \in 1..Len(log) :
                           i <= t.asof /\ Within(i, t.owner, t.chan, t.limit.since, NoDate)})
      most == Min({IF t.max < 0 THEN DefaultMax ELSE t.max}
                  \cup {n \in {t.limit.stanzas} : n >= 0})
  IN  t.lines = SubSeq(all, Max({1, Len(all) - most + 1}), Len(all))

\* A page from the start of what is selected ends with its last line: all
\* that comes before is on it.
FirstOf(p, F, n) ==
  /\ p \in Seq(Nat) /\ Ascending(p) /\ Range(p) \subseteq Range(F)
  /\ Len(F) <= n => Range(p) = Range(F)
  /\ p # <<>> => Last(p) \in Range(F) /\ Range(p) = {x \in Range(F) : x <= Last(p)}

\* What a request that goes forwards, or backwards, asks for.
After(o, c, q) ==
  {i \in 1..Len(log) : Within(i, o, c, q.start, q.end) /\ q.after < i}
Before(o, c, q) ==
  {i \in 1..Len(log) : Within(i, o, c, q.start, q.end) /\ (q.before # NoRef => i < q.before)}

\* What a page must leave behind.
Taken(v) == (v.status = "on" => WalkOn(v)) /\ (v.status = "done" => Complete(v))

\* A line is stored at the end: what was stored stays where it is.
Grows == log' = log \/ \E l \in LogLine : log' = Append(log, l)
=============================================================================
