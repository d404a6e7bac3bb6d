------------------------------ MODULE Options -------------------------------
(***************************************************************************)
(* The options of the users in the database, the forms that change them,   *)
(* and what the process keeps in memory of them: the flag record_history   *)
(* of a bridge and the cache of the encodings.  One IRC server.            *)
(*                                                                         *)
(* A handler runs its SQL statements one by one.  Those of a transaction   *)
(* are on disk together; a crash loses the memory and the open transaction.*)
(***************************************************************************)
EXTENDS Integers, Sequences, FiniteSets, FiniteSetsExt, Filtering

CONSTANTS
  Owner,       \* bare JIDs of the users
  Chan,        \* channels
  Enc,         \* encodings; Empty is no encoding, "latin1" the default
  Commands,    \* values of "After-connection IRC commands", sequences
  DefaultMax,  \* max_history_length when nothing is configured (20)
  Maxes,       \* other values of max_history_length, a set of integers
  FormCost,    \* bound: what a form takes of MaxEvents; anything else takes 1
  MaxEvents    \* bound: messages, joins, forms, walks and crashes

Empty == ""

ASSUME OptionsAssumptions ==
  /\ DefaultMax \in Nat /\ Maxes \subseteq Int /\ MaxEvents \in Nat /\ FormCost \in Nat
  /\ Empty \in Enc /\ "latin1" \in Enc /\ Commands \subseteq Seq(STRING)

VARIABLES
  disk,    \* the tables, as committed
  todo,    \* the statements a handler has not run yet
  work,    \* the after_connection_commands_ table as the open transaction sees it
  flag,    \* record_history of each bridge; "none" when there is no bridge
  cache,   \* encoding_in_cache; "none" when a channel is not in it
  asked,   \* history: the options as last submitted; "cmds" as last applied
  events   \* history: how much has happened

ovars == <<disk, todo, work, flag, cache, asked, events>>

Key == Owner \X Chan
Unset == 0  \* Id::unset_value
Flag(b) == IF b THEN "true" ELSE "false"

-----------------------------------------------------------------------------
(* Tables.                                                                 *)

\* Every save inserts a row, also that of a row which has an id.
MutSave(table, row) ==
  table \cup {[row EXCEPT !.id = 1 + Max({Unset} \cup {r.id : r \in table})]}

\* A row that has no id is inserted, otherwise the one with its id is updated.
Save(table, row) ==
  IF row.id = Unset
  THEN table \cup {[row EXCEPT !.id = 1 + Max({Unset} \cup {r.id : r \in table})]}
  ELSE {r \in table : r.id # row.id} \cup {row}

\* The row of a key, or the defaults when there is not exactly one.
Get(rows, default) == IF \E r \in rows : rows = {r} THEN CHOOSE r \in rows : TRUE ELSE default

GetGlobal(o) ==
  Get({r \in disk.global : r.owner = o},
      [id |-> Unset, owner |-> o, max |-> DefaultMax, record |-> TRUE])

GetServer(o) ==
  Get({r \in disk.server : r.owner = o}, [id |-> Unset, owner |-> o, enc |-> Empty])

GetChannel(o, c) ==
  Get({r \in disk.channel : r.owner = o /\ r.chan = c},
      [id |-> Unset, owner |-> o, chan |-> c, enc |-> Empty, record |-> "unset"])

\* get_irc_channel_options_with_server_default()
FirstNonEmpty(a, b) == IF a # Empty THEN a ELSE b
WithServerDefault(o, c) == FirstNonEmpty(GetChannel(o, c).enc, GetServer(o).enc)

\* get_encoding_in(), past the cache.
Encoding(o, c) == FirstNonEmpty(WithServerDefault(o, c), "latin1")

\* get_after_connection_commands(); none for options that were never saved.
CommandsOf(table, o) ==
  LET rows == Filter(table, {r \in Range(table) : r.fk = GetServer(o).id})
  IN  IF GetServer(o).id = Unset THEN <<>> ELSE [k \in 1..Len(rows) |-> rows[k].cmd]

-----------------------------------------------------------------------------
OInit ==
  /\ disk = [global |-> {}, server |-> {}, channel |-> {}, commands |-> <<>>]
  /\ todo = <<>> /\ work = <<>>
  /\ flag = [o \in Owner |-> "none"]
  /\ cache = [k \in Key |-> "none"]
  /\ asked = [max |-> [o \in Owner |-> DefaultMax], record |-> [o \in Owner |-> "true"],
              enc |-> [k \in Key |-> Empty], senc |-> [o \in Owner |-> Empty],
              crecord |-> [k \in Key |-> "unset"], cmds |-> [o \in Owner |-> <<>>],
              next |-> <<>>]
  /\ events = 0

Costs(n) == events + n <= MaxEvents /\ events' = events + n
Event == Costs(1)
Form == Costs(FormCost)
Idle == todo = <<>>

\* ConfigureGlobalStep2.  Fields that are not in the form are cleared: 0 and
\* false.  A number that cannot be read is the default.
ConfigureGlobal(o, max, record) ==
  LET n == CASE max = <<>> -> 0 [] max = <<"bad">> -> DefaultMax [] OTHER -> max[2]
      row == [GetGlobal(o) EXCEPT !.max = n, !.record = (record = "true")]
  IN  /\ Idle /\ Form
      /\ disk' = [disk EXCEPT !.global = Save(@, row)]
      /\ flag' = [flag EXCEPT ![o] = IF @ = "none" \/ record = "absent" THEN @ ELSE record]
      /\ asked' = [asked EXCEPT !.max[o] = n, !.record[o] = Flag(record = "true")]
      /\ UNCHANGED <<todo, work, cache>>

\* The cache is not told.
MutInvalidateAll == cache

\* invalidate_encoding_in_cache(), of everything and of one channel.
InvalidateAll == [k \in Key |-> "none"]
Invalidate(k) == [cache EXCEPT ![k] = "none"]

\* set_after_connection_commands(): a transaction that replaces the commands.
Replace(fk, cmds) ==
  << [op |-> "delete", fk |-> fk, cmd |-> Empty] >>
  \o [k \in 1..Len(cmds) |-> [op |-> "insert", fk |-> fk, cmd |-> cmds[k]]]
  \o << [op |-> "end", fk |-> fk, cmd |-> Empty] >>

\* ConfigureIrcServerStep2, up to that transaction.
ConfigureServer(o, enc, cmds) ==
  LET table == Save(disk.server, [GetServer(o) EXCEPT !.enc = enc])
  IN  /\ Idle /\ Form
      /\ cache' = InvalidateAll
      /\ disk' = [disk EXCEPT !.server = table]
      /\ work' = disk.commands
      /\ todo' = Replace((CHOOSE r \in table : r.owner = o).id, cmds)
      /\ asked' = [asked EXCEPT !.senc[o] = enc, !.next = <<o, cmds>>]
      /\ UNCHANGED flag

\* ~Transaction() commits.
Commits(s) == s.op = "end"

\* The next statement of the transaction.
Statement ==
  /\ todo # <<>>
  /\ LET s == Head(todo)
     IN  /\ work' = CASE s.op = "delete" -> Filter(work, {r \in Range(work) : r.fk # s.fk})
                      [] s.op = "insert" -> Append(work, [fk |-> s.fk, cmd |-> s.cmd])
                      [] s.op = "end" -> work
         /\ disk' = IF Commits(s) THEN [disk EXCEPT !.commands = work'] ELSE disk
         /\ asked' = IF s.op = "end" THEN [asked EXCEPT !.cmds[asked.next[1]] = asked.next[2]]
                     ELSE asked
  /\ todo' = Tail(todo)
  /\ UNCHANGED <<flag, cache, events>>

\* handle_irc_channel_configuration_form(): the flag of the bridge follows the
\* form, and the global option when the form says "unset".
ConfigureChannel(o, c, enc, record) ==
  LET row == [GetChannel(o, c) EXCEPT !.enc = enc,
                !.record = IF record = "absent" THEN "unset" ELSE record]
  IN  /\ Idle /\ Form
      /\ cache' = Invalidate(<<o, c>>)
      /\ disk' = [disk EXCEPT !.channel = Save(@, row)]
      /\ flag' = [flag EXCEPT ![o] =
                    CASE @ = "none" \/ record = "absent" -> @
                      [] record = "unset" -> Flag(GetGlobal(o).record)
                      [] OTHER -> record]
      /\ asked' = [asked EXCEPT !.enc[<<o, c>>] = enc, !.crecord[<<o, c>>] = row.record]
      /\ UNCHANGED <<todo, work>>

\* The constructor of Bridge.
NewFlag(o) == IF flag[o] = "none" THEN Flag(GetGlobal(o).record) ELSE flag[o]

\* get_encoding_in(): the cache is filled on the way.
CachedEncoding(o, c) == IF cache[<<o, c>>] # "none" THEN cache[<<o, c>>] ELSE Encoding(o, c)

\* The process stops, whatever it was doing, and starts again.
ORestart ==
  /\ flag' = [o \in Owner |-> "none"]
  /\ cache' = [k \in Key |-> "none"]
  /\ todo' = <<>> /\ work' = disk.commands
  /\ UNCHANGED <<disk, asked>>

MaxField == {<<>>, <<"bad">>} \cup {<<"n", n>> : n \in Maxes}
Bools == {"true", "false"}

ONext ==
  \/ \E o \in Owner : \E max \in MaxField, record \in Bools \cup {"absent"} :
       ConfigureGlobal(o, max, record)
  \/ \E o \in Owner, enc \in Enc, cmds \in Commands : ConfigureServer(o, enc, cmds)
  \/ Statement
  \/ \E o \in Owner, c \in Chan, enc \in Enc, record \in Bools \cup {"unset", "absent"} :
       ConfigureChannel(o, c, enc, record)

-----------------------------------------------------------------------------
(* Properties.                                                             *)

\* The after-connection commands of a user are the last ones that were applied
\* in full: no crash leaves a part of them, and nobody else's form touches them.
CommandsWhole == \A o \in Owner : CommandsOf(disk.commands, o) = asked.cmds[o]

\* An encoding is never read from the cache after it was changed for the
\* channel or for its server.
CacheFresh == \A o \in Owner, c \in Chan : cache[<<o, c>>] \in {"none", Encoding(o, c)}

\* The options that are read are the ones that were last submitted, across
\* restarts: a save never leaves two rows for a key, of which none is read, and
\* the after-connection commands are replaced as a whole.
OptionsStick ==
  /\ CommandsWhole
  /\ \A o \in Owner :
       /\ GetGlobal(o).max = asked.max[o] /\ Flag(GetGlobal(o).record) = asked.record[o]
       /\ GetServer(o).enc = asked.senc[o]
       /\ \A c \in Chan : /\ GetChannel(o, c).enc = asked.enc[<<o, c>>]
                          /\ GetChannel(o, c).record = asked.crecord[<<o, c>>]
=============================================================================
