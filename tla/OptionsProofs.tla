---------------------------- MODULE OptionsProofs ---------------------------
(***************************************************************************)
(* Proofs about the options of the users, for every set of users and       *)
(* channels, and every sequence of forms and crashes.                      *)
(***************************************************************************)
EXTENDS ArchiveInvariant, FilterProofs

-----------------------------------------------------------------------------
(* Tables.                                                                 *)

\* A bounded set of numbers has a greatest one, which is what Max() finds.
LEMMA MaxIs ==
  ASSUME NEW S \in SUBSET Nat, S # {}, NEW n \in Nat, \A x \in S : x <= n
  PROVE  Max(S) \in S /\ \A x \in S : x <= Max(S)
<1> DEFINE T == {m \in Nat : \A x \in S : x <= m}
<1>1. T \in SUBSET Nat /\ T # {}
  OBVIOUS
<1>2. PICK m \in T : \A y \in T : m <= y
  <2> HIDE DEF T
  <2> QED BY <1>1, LeastNumber
<1>3. m \in S
  <2> SUFFICES ASSUME m \notin S PROVE FALSE
    OBVIOUS
  <2>1. PICK x \in S : TRUE
    BY Zenon
  <2>2. x < m /\ m - 1 \in Nat
    BY <2>1
  <2>3. m - 1 \in T
    BY <2>2
  <2> QED BY <2>3, <1>2
<1>4. \E x \in S : \A y \in S : x >= y
  BY <1>3
<1> QED BY <1>4, Zenon DEF Max

\* A new row gets an id that no row has.
LEMMA NewIdFresh ==
  ASSUME NEW T, IdsOK(T)
  PROVE  NewId(T) \in Nat \ {0} /\ \A r \in T : r.id < NewId(T)
<1> DEFINE S == {Unset} \cup {r.id : r \in T}
<1>1. PICK n \in Nat : \A r \in T : r.id <= n
  BY DEF IdsOK
<1>2. S \in SUBSET Nat /\ S # {} /\ \A x \in S : x <= n
  BY <1>1 DEF IdsOK, Unset
<1>3. Max(S) \in S /\ \A x \in S : x <= Max(S)
  <2> HIDE DEF S
  <2> QED BY <1>2, MaxIs, Zenon
<1>4. Max(S) \in Nat /\ \A r \in T : r.id <= Max(S)
  BY <1>2, <1>3
<1>5. NewId(T) = 1 + Max(S)
  BY DEF NewId
<1>6. \A r \in T : r.id \in Nat
  BY DEF IdsOK
<1> HIDE DEF S
<1> QED BY <1>4, <1>5, <1>6

\* Get() reads the only row, or the defaults when there is none.
LEMMA GetIs ==
  /\ \A r, d : Get({r}, d) = r
  /\ \A d : Get({}, d) = d
<1>1. \A r : (CHOOSE q \in {r} : TRUE) = r
  OBVIOUS
<1>2. ASSUME NEW r, NEW d PROVE Get({r}, d) = r
  BY <1>1 DEF Get
<1>3. ASSUME NEW d PROVE Get({}, d) = d
  BY DEF Get
<1> QED BY <1>2, <1>3, Zenon

\* save() writes one row: that of the key, which then is the only one, and
\* leaves the rows of the other keys alone.
LEMMA SaveRow ==
  ASSUME NEW T, NEW U, NEW key, NEW row, MaySave(T, U, key, row)
  PROVE  SaveDone(T, U, key, row)
<1> USE DEF MaySave
<1> DEFINE x == Saved(T, row)
<1>0. IdsOK(T) /\ T \subseteq U /\ \A r, s \in T : key[r] = key[s] => r = s
  BY DEF TableOK
<1>1. NewId(T) \in Nat \ {0} /\ \A r \in T : r.id < NewId(T) /\ r.id \in Nat
  BY <1>0, NewIdFresh DEF IdsOK
<1>2. x.id \in Nat \ {0} /\ (row.id = Unset => x.id = NewId(T)) /\ (row.id # Unset => x = row)
  BY <1>1 DEF Saved, Unset
<1>3. Save(T, row) = {r \in T : r.id # x.id} \cup {x}
  <2>1. CASE row.id = Unset
    <3>1. Save(T, row) = T \cup {x}
      BY <2>1 DEF Save, Saved, NewId
    <3>2. \A r \in T : r.id # x.id
      BY <1>1, <1>2, <2>1
    <3> HIDE DEF x
    <3> QED BY <3>1, <3>2
  <2>2. CASE row.id # Unset
    BY <2>2 DEF Save, Saved
  <2> QED BY <2>1, <2>2
<1>4. \A r \in T : r.id = x.id <=> key[r] = key[x]
  <2>1. CASE row.id = Unset
    BY <1>1, <1>2, <2>1
  <2>2. CASE row.id # Unset
    BY <1>0, <1>2, <2>2 DEF IdsOK
  <2> QED BY <2>1, <2>2
<1>5. IdsOK(Save(T, row))
  <2>1. PICK n \in Nat : \A r \in T : r.id <= n
    BY <1>0 DEF IdsOK
  <2>2. \E m \in Nat : m >= n /\ m >= x.id
    BY <1>2
  <2>3. \E m \in Nat : \A r \in Save(T, row) : r.id <= m
    <3> HIDE DEF x
    <3> QED BY <2>1, <2>2, <1>1, <1>2, <1>3
  <2> HIDE DEF x
  <2> QED BY <2>3, <1>0, <1>2, <1>3 DEF IdsOK
<1>6. TableOK(Save(T, row), U, key)
  <2> HIDE DEF x
  <2>1. x \in U
    BY DEF x
  <2> QED BY <1>0, <1>3, <1>4, <1>5, <2>1 DEF TableOK
<1>7. key[x] = key[row]
  OBVIOUS
<1> HIDE DEF x
<1>8. RowsOf(Save(T, row), key, key[row]) = {x}
  BY <1>3, <1>4, <1>7 DEF RowsOf
<1>9. \A k : k # key[row] => RowsOf(Save(T, row), key, k) = RowsOf(T, key, k)
  BY <1>3, <1>4, <1>7 DEF RowsOf
<1>10. \A r \in T : \E q \in Save(T, row) : q.id = r.id
  BY <1>3
<1>12. \A d : Read(Save(T, row), key, key[row], d) = x
  <2>1. \A d : Get({x}, d) = x
    BY GetIs, Zenon
  <2> QED BY <1>8, <2>1, Zenon DEF Read
<1>13. \A k, d : k # key[row] => Read(Save(T, row), key, k, d) = Read(T, key, k, d)
  BY <1>9, Zenon DEF Read
<1>11. row.id = Unset => \A r \in T : r.id # x.id
  BY <1>1, <1>2
<1> QED BY <1>2, <1>3, <1>6, <1>12, <1>13, <1>10, <1>11 DEF x, Unset, SaveDone

-----------------------------------------------------------------------------
(* Reading the tables.                                                     *)

\* A key is read from its only row, or is the defaults.
LEMMA ReadRow ==
  ASSUME NEW U, NEW key, NEW T, TableOK(T, U, key), NEW k, NEW d
  PROVE  \/ (\A r \in T : key[r] # k) /\ Read(T, key, k, d) = d
         \/ Read(T, key, k, d) \in T /\ key[Read(T, key, k, d)] = k
<1>1. CASE RowsOf(T, key, k) = {}
  <2>1. Get({}, d) = d
    BY GetIs
  <2> QED BY <1>1, <2>1 DEF Read, RowsOf
<1>2. CASE RowsOf(T, key, k) # {}
  <2>1. PICK r \in T : key[r] = k
    BY <1>2 DEF RowsOf
  <2>2. RowsOf(T, key, k) = {r}
    BY <2>1 DEF RowsOf, TableOK
  <2>3. Get({r}, d) = r
    BY GetIs, Zenon
  <2>4. Read(T, key, k, d) = r
    BY <2>2, <2>3, Zenon DEF Read
  <2> QED BY <2>1, <2>4
<1> QED BY <1>1, <1>2

\* The statements that select from each table.
LEMMA GlobalRead ==
  ASSUME NEW T \in SUBSET GlobalRow, NEW o
  PROVE  Get({r \in T : r.owner = o}, GlobalDefault(o)) = Read(T, GlobalKey, o, GlobalDefault(o))
<1>1. {r \in T : r.owner = o} = RowsOf(T, GlobalKey, o)
  BY DEF RowsOf, GlobalKey
<1> QED BY <1>1, Zenon DEF Read

\* The same for the servers.
LEMMA ServerRead ==
  ASSUME NEW T \in SUBSET ServerRow, NEW o
  PROVE  Get({r \in T : r.owner = o}, ServerDefault(o)) = Read(T, ServerKey, o, ServerDefault(o))
<1>1. {r \in T : r.owner = o} = RowsOf(T, ServerKey, o)
  BY DEF RowsOf, ServerKey
<1> QED BY <1>1, Zenon DEF Read

\* The same for the channels.
LEMMA ChannelRead ==
  ASSUME NEW T \in SUBSET ChannelRow, NEW o, NEW c
  PROVE  Get({r \in T : r.owner = o /\ r.chan = c}, ChannelDefault(o, c))
           = Read(T, ChannelKey, <<o, c>>, ChannelDefault(o, c))
<1>1. {r \in T : r.owner = o /\ r.chan = c} = RowsOf(T, ChannelKey, <<o, c>>)
  BY DEF RowsOf, ChannelKey
<1> QED BY <1>1, Zenon DEF Read

\* The rows of a user among the after-connection commands.
LEMMA CommandRows ==
  ASSUME NEW t \in Seq(CommandRow), NEW fk
  PROVE  /\ Filter(t, {r \in Range(t) : r.fk = fk}) = Filter(t, Of(fk))
         /\ Filter(t, {r \in Range(t) : r.fk # fk}) = Filter(t, NotOf(fk))
<1>1. Range(t) \subseteq CommandRow
  BY RangeSeq
<1> DEFINE A == {r \in Range(t) : r.fk = fk}
           B == {r \in Range(t) : r.fk # fk}
<1>2. \A y \in Range(t) : (y \in A <=> y \in Of(fk)) /\ (y \in B <=> y \in NotOf(fk))
  BY <1>1 DEF Of, NotOf
<1> HIDE DEF A, B
<1>3. Filter(t, A) = Filter(t, Of(fk))
  BY <1>2, FilterSame
<1>4. Filter(t, B) = Filter(t, NotOf(fk))
  BY <1>2, FilterSame
<1> QED BY <1>3, <1>4 DEF A, B

\* Rows of commands that stay are read as before.
LEMMA CommandsSame ==
  ASSUME CommandsWhole, disk'.commands = disk.commands, asked'.cmds = asked.cmds,
         \A p \in Owner : GetServer(p)' = GetServer(p)
  PROVE  CommandsWhole'
<1> SUFFICES ASSUME NEW p \in Owner PROVE CommandsOf(disk.commands, p)' = asked'.cmds[p]
  BY DEF CommandsWhole
<1>1. CommandsOf(disk.commands, p) = asked.cmds[p]
  BY DEF CommandsWhole
<1>2. GetServer(p)' = GetServer(p)
  OBVIOUS
<1>3. CommandsOf(disk.commands, p)' = CommandsOf(disk.commands, p)
  BY <1>2, Zenon DEF CommandsOf
<1> QED BY <1>1, <1>3, Zenon

\* Options other than the commands that are read as before.
LEMMA StickSame ==
  ASSUME OptionsStick, CommandsWhole',
         \A p \in Owner : GetGlobal(p)' = GetGlobal(p) /\ GetServer(p)' = GetServer(p),
         \A p \in Owner, c \in Chan : GetChannel(p, c)' = GetChannel(p, c),
         asked'.max = asked.max, asked'.record = asked.record, asked'.senc = asked.senc,
         asked'.enc = asked.enc, asked'.crecord = asked.crecord
  PROVE  OptionsStick'
<1>1. ASSUME NEW p \in Owner
      PROVE  /\ GetGlobal(p)'.max = asked'.max[p] /\ Flag(GetGlobal(p)'.record) = asked'.record[p]
             /\ GetServer(p)'.enc = asked'.senc[p]
  <2>1. /\ GetGlobal(p).max = asked.max[p] /\ Flag(GetGlobal(p).record) = asked.record[p]
        /\ GetServer(p).enc = asked.senc[p]
    BY DEF OptionsStick
  <2> QED BY <2>1
<1>2. ASSUME NEW p \in Owner, NEW c \in Chan
      PROVE  /\ GetChannel(p, c)'.enc = asked'.enc[<<p, c>>]
             /\ GetChannel(p, c)'.record = asked'.crecord[<<p, c>>]
  <2>1. /\ GetChannel(p, c).enc = asked.enc[<<p, c>>]
        /\ GetChannel(p, c).record = asked.crecord[<<p, c>>]
    BY DEF OptionsStick
  <2> QED BY <2>1
<1> QED BY <1>1, <1>2 DEF OptionsStick, Flag

\* A form of the global options.
LEMMA ConfigureGlobalInv ==
  ASSUME OptionsInv, NEW o \in Owner, NEW max \in MaxField, NEW record \in Bools \cup {"absent"},
         ConfigureGlobal(o, max, record)
  PROVE  OptionsInv'
<1> DEFINE n == CASE max = <<>> -> 0 [] max = <<"bad">> -> DefaultMax [] OTHER -> max[2]
           g == GetGlobal(o)
           row == [g EXCEPT !.max = n, !.record = (record = "true")]
           T == disk.global
           x == Saved(T, row)
<1>0. /\ OptionTypes /\ Tables /\ OptionsStick /\ CacheFresh /\ Idle /\ work = disk.commands
      /\ TableOK(T, GlobalRow, GlobalKey) /\ T \in SUBSET GlobalRow
  BY DEF OptionsInv, ConfigureGlobal, Tables, OptionTypes
<1>1. n \in Int
  <2>1. DefaultMax \in Int /\ Maxes \subseteq Int
    BY OptionsAssumptions
  <2>2. CASE max = <<>>
    BY <2>2
  <2>3. CASE max = <<"bad">>
    <3>1. max # <<>>
      BY <2>3
    <3>2. n = DefaultMax
      BY <2>3, <3>1
    <3> QED BY <2>1, <3>2
  <2>4. CASE \E m \in Maxes : max = <<"n", m>>
    <3>1. PICK m \in Maxes : max = <<"n", m>>
      BY <2>4
    <3>2. max # <<>> /\ max # <<"bad">> /\ max[2] = m
      BY <3>1
    <3> QED BY <2>1, <3>2
  <2> QED BY <2>2, <2>3, <2>4 DEF MaxField
<1>2. /\ disk' = [disk EXCEPT !.global = Save(T, row)]
      /\ asked' = [asked EXCEPT !.max[o] = n, !.record[o] = Flag(record = "true")]
      /\ UNCHANGED <<todo, work, cache>>
  BY DEF ConfigureGlobal
<1> HIDE DEF n
<1>3. \A p \in Owner : GetGlobal(p) = Read(T, GlobalKey, p, GlobalDefault(p))
  BY <1>0, GlobalRead DEF GetGlobal, GlobalDefault
<1>5. /\ g \in GlobalRow /\ g.owner = o
      /\ g.id = Unset => \A r \in T : GlobalKey[r] # o
      /\ g.id # Unset => g \in T
  <2>1. CASE (\A r \in T : GlobalKey[r] # o) /\ g = GlobalDefault(o)
    <3>1. DefaultMax \in Int /\ Unset \in Nat /\ TRUE \in BOOLEAN
      BY OptionsAssumptions DEF Unset
    <3>2. GlobalDefault(o) \in GlobalRow
      BY <3>1, Zenon DEF GlobalDefault, GlobalRow
    <3>3. GlobalDefault(o).owner = o /\ GlobalDefault(o).id = Unset
      BY DEF GlobalDefault
    <3> HIDE DEF g
    <3> QED BY <2>1, <3>2, <3>3
  <2>2. CASE g \in T /\ GlobalKey[g] = o
    <3> HIDE DEF g
    <3>1. g \in GlobalRow /\ g.owner = o /\ g.id # Unset
      BY <1>0, <2>2 DEF GlobalKey, TableOK, IdsOK, Unset
    <3> QED BY <2>2, <3>1
  <2> QED BY <1>0, <1>3, <2>1, <2>2, ReadRow
<1> HIDE DEF g
<1>6. /\ row \in GlobalRow /\ row.owner = o /\ row.id = g.id /\ GlobalKey[row] = o
      /\ row.max = n /\ row.record = (record = "true")
  BY <1>1, <1>5, Zenon DEF GlobalRow, GlobalKey
<1> HIDE DEF row
<1>7. /\ x \in GlobalRow /\ x.owner = o /\ x.max = n /\ x.record = (record = "true")
      /\ GlobalKey[x] = o
  <2>1. NewId(T) \in Nat
    BY <1>0, NewIdFresh DEF TableOK
  <2> QED BY <1>6, <2>1 DEF Saved, GlobalRow, GlobalKey
<1>8. /\ TableOK(Save(T, row), GlobalRow, GlobalKey)
      /\ \A d : Read(Save(T, row), GlobalKey, o, d) = x
      /\ \A k, d : k # o => Read(Save(T, row), GlobalKey, k, d) = Read(T, GlobalKey, k, d)
  <2>1. "id" \in DOMAIN row /\ row.id \in Nat
    BY <1>6 DEF GlobalRow
  <2>2. row.id = Unset => \A r \in T : GlobalKey[r] # GlobalKey[row]
    BY <1>5, <1>6
  <2>3. row.id # Unset => \E r \in T : r.id = row.id /\ GlobalKey[r] = GlobalKey[row]
    BY <1>5, <1>6 DEF GlobalKey
  <2>4. MaySave(T, GlobalRow, GlobalKey, row)
    BY <1>0, <1>6, <1>7, <2>1, <2>2, <2>3 DEF MaySave
  <2>5. SaveDone(T, GlobalRow, GlobalKey, row)
    BY <2>4, SaveRow
  <2> HIDE DEF x
  <2> QED BY <1>6, <2>5 DEF x, SaveDone
<1> HIDE DEF x
<1>9. /\ disk'.global = Save(T, row) /\ disk'.server = disk.server
      /\ disk'.channel = disk.channel /\ disk'.commands = disk.commands
  BY <1>0, <1>2 DEF OptionTypes
<1>10. OptionTypes'
  <2>1. disk' \in [global: SUBSET GlobalRow, server: SUBSET ServerRow,
                   channel: SUBSET ChannelRow, commands: Seq(CommandRow)]
    <3>1. Save(T, row) \in SUBSET GlobalRow
      BY <1>8 DEF TableOK
    <3> QED BY <1>0, <1>2, <3>1, Zenon DEF OptionTypes
  <2>2. asked' \in [max: [Owner -> Int], record: [Owner -> {"true", "false"}],
                enc: [Key -> Enc], senc: [Owner -> Enc],
                crecord: [Key -> {"true", "false", "unset"}],
                cmds: [Owner -> Seq(STRING)], next: {<<>>} \cup (Owner \X Commands)]
    BY <1>0, <1>1, <1>2, Zenon DEF OptionTypes, Flag
  <2> QED BY <1>0, <1>2, <2>1, <2>2, Zenon DEF OptionTypes
<1>11. Tables'
  BY <1>0, <1>8, <1>9, SMTT(20) DEF Tables
<1>12. /\ \A p \in Owner : GetServer(p)' = GetServer(p)
       /\ \A p \in Owner, c \in Chan : GetChannel(p, c)' = GetChannel(p, c)
  BY <1>9 DEF GetServer, GetChannel
<1>13. \A p \in Owner : GetGlobal(p)' = IF p = o THEN x ELSE GetGlobal(p)
  <2>1. \A p \in Owner : GetGlobal(p)' = Read(Save(T, row), GlobalKey, p, GlobalDefault(p))
    <3>1. Save(T, row) \in SUBSET GlobalRow
      BY <1>8 DEF TableOK
    <3> QED BY <1>9, <3>1, GlobalRead DEF GetGlobal, GlobalDefault
  <2> QED BY <1>3, <1>8, <2>1, Zenon
<1>14. OptionsStick'
  <2>1. /\ asked'.max = [asked.max EXCEPT ![o] = n]
        /\ asked'.record = [asked.record EXCEPT ![o] = Flag(record = "true")]
        /\ asked'.senc = asked.senc /\ asked'.enc = asked.enc /\ asked'.crecord = asked.crecord
        /\ asked'.cmds = asked.cmds
    BY <1>0, <1>2 DEF OptionTypes
  <2>2. CommandsWhole'
    BY <1>0, <1>9, <1>12, <2>1, CommandsSame, Zenon DEF OptionsStick
  <2>3. \A p \in Owner : /\ GetGlobal(p)'.max = asked'.max[p]
                         /\ Flag(GetGlobal(p)'.record) = asked'.record[p]
    BY <1>0, <1>7, <1>13, <2>1 DEF OptionsStick, OptionTypes
  <2>4. \A p \in Owner : GetServer(p)'.enc = asked'.senc[p]
    BY <1>0, <1>12, <2>1, Zenon DEF OptionsStick
  <2>5. \A p \in Owner, c \in Chan : /\ GetChannel(p, c)'.enc = asked'.enc[<<p, c>>]
                                     /\ GetChannel(p, c)'.record = asked'.crecord[<<p, c>>]
    <3> TAKE p \in Owner, c \in Chan
    <3>1. /\ GetChannel(p, c).enc = asked.enc[<<p, c>>]
          /\ GetChannel(p, c).record = asked.crecord[<<p, c>>]
      BY <1>0 DEF OptionsStick
    <3> QED BY <1>12, <2>1, <3>1
  <2> QED BY <2>2, <2>3, <2>4, <2>5 DEF OptionsStick, Flag
<1>15. CacheFresh'
  BY <1>0, <1>2, <1>12, Zenon DEF CacheFresh, Encoding, WithServerDefault
<1> QED BY <1>0, <1>2, <1>9, <1>10, <1>11, <1>14, <1>15 DEF OptionsInv, Idle

\* A form of the options of a channel.
LEMMA ConfigureChannelInv ==
  ASSUME OptionsInv, NEW o \in Owner, NEW c \in Chan, NEW enc \in Enc,
         NEW record \in Bools \cup {"unset", "absent"}, ConfigureChannel(o, c, enc, record)
  PROVE  OptionsInv'
<1> DEFINE rec == IF record = "absent" THEN "unset" ELSE record
           g == GetChannel(o, c)
           row == [g EXCEPT !.enc = enc, !.record = rec]
           T == disk.channel
           x == Saved(T, row)
           k == <<o, c>>
<1>0. /\ OptionTypes /\ Tables /\ OptionsStick /\ CacheFresh /\ Idle /\ work = disk.commands
      /\ TableOK(T, ChannelRow, ChannelKey) /\ T \in SUBSET ChannelRow
  BY DEF OptionsInv, ConfigureChannel, Tables, OptionTypes
<1>1. rec \in {"true", "false", "unset"}
  BY DEF Bools
<1>2. /\ disk' = [disk EXCEPT !.channel = Save(T, row)]
      /\ asked' = [asked EXCEPT !.enc[<<o, c>>] = enc, !.crecord[<<o, c>>] = row.record]
      /\ cache' = [cache EXCEPT ![<<o, c>>] = "none"]
      /\ UNCHANGED <<todo, work>>
  BY Zenon DEF ConfigureChannel, Invalidate
<1> HIDE DEF rec
<1>3. \A p \in Owner, d \in Chan :
        GetChannel(p, d) = Read(T, ChannelKey, <<p, d>>, ChannelDefault(p, d))
  BY <1>0, ChannelRead, Zenon DEF GetChannel, ChannelDefault
<1>5. /\ g \in ChannelRow /\ g.owner = o /\ g.chan = c
      /\ g.id = Unset => \A r \in T : ChannelKey[r] # k
      /\ g.id # Unset => g \in T
  <2>1. CASE (\A r \in T : ChannelKey[r] # k) /\ g = ChannelDefault(o, c)
    <3>1. Empty \in Enc /\ Unset \in Nat
      BY OptionsAssumptions DEF Unset
    <3>2. /\ ChannelDefault(o, c) \in ChannelRow /\ ChannelDefault(o, c).owner = o
          /\ ChannelDefault(o, c).chan = c /\ ChannelDefault(o, c).id = Unset
      BY <3>1 DEF ChannelDefault, ChannelRow
    <3> HIDE DEF g
    <3> QED BY <2>1, <3>2
  <2>2. CASE g \in T /\ ChannelKey[g] = k
    <3> HIDE DEF g
    <3>1. g \in ChannelRow /\ g.id # Unset
      BY <1>0, <2>2 DEF TableOK, IdsOK, Unset
    <3>2. <<g.owner, g.chan>> = <<o, c>>
      BY <2>2, <3>1 DEF ChannelKey
    <3> QED BY <2>2, <3>1, <3>2
  <2>3. g = Read(T, ChannelKey, k, ChannelDefault(o, c))
    BY <1>3
  <2> HIDE DEF g, k, T
  <2> QED BY <1>0, <2>1, <2>2, <2>3, ReadRow, SMTT(20)
<1> HIDE DEF g
<1>6. /\ row \in ChannelRow /\ row.owner = o /\ row.chan = c /\ row.id = g.id
      /\ ChannelKey[row] = k /\ row.enc = enc /\ row.record = rec
  BY <1>1, <1>5, Zenon DEF ChannelRow, ChannelKey
<1> HIDE DEF row
<1>7. x \in ChannelRow /\ x.enc = enc /\ x.record = rec /\ ChannelKey[x] = k
  <2>1. NewId(T) \in Nat
    BY <1>0, NewIdFresh DEF TableOK
  <2> QED BY <1>6, <2>1 DEF Saved, ChannelRow, ChannelKey
<1>8. /\ TableOK(Save(T, row), ChannelRow, ChannelKey)
      /\ \A d : Read(Save(T, row), ChannelKey, k, d) = x
      /\ \A j, d : j # k => Read(Save(T, row), ChannelKey, j, d) = Read(T, ChannelKey, j, d)
  <2>1. "id" \in DOMAIN row /\ row.id \in Nat
    BY <1>6 DEF ChannelRow
  <2>2. row.id = Unset => \A r \in T : ChannelKey[r] # ChannelKey[row]
    BY <1>5, <1>6
  <2>3. row.id # Unset => \E r \in T : r.id = row.id /\ ChannelKey[r] = ChannelKey[row]
    BY <1>5, <1>6, Zenon DEF ChannelKey
  <2>4. MaySave(T, ChannelRow, ChannelKey, row)
    BY <1>0, <1>6, <1>7, <2>1, <2>2, <2>3 DEF MaySave
  <2>5. SaveDone(T, ChannelRow, ChannelKey, row)
    BY <2>4, SaveRow
  <2> HIDE DEF x, k
  <2> QED BY <1>6, <2>5 DEF x, SaveDone
<1> HIDE DEF x
<1>9. /\ disk'.channel = Save(T, row) /\ disk'.server = disk.server
      /\ disk'.global = disk.global /\ disk'.commands = disk.commands
  BY <1>0, <1>2 DEF OptionTypes
<1>10. OptionTypes'
  <2>1. disk' \in [global: SUBSET GlobalRow, server: SUBSET ServerRow,
                   channel: SUBSET ChannelRow, commands: Seq(CommandRow)]
    <3>1. Save(T, row) \in SUBSET ChannelRow
      BY <1>8 DEF TableOK
    <3> QED BY <1>0, <1>2, <3>1, Zenon DEF OptionTypes
  <2>2. asked' \in [max: [Owner -> Int], record: [Owner -> {"true", "false"}],
                enc: [Key -> Enc], senc: [Owner -> Enc],
                crecord: [Key -> {"true", "false", "unset"}],
                cmds: [Owner -> Seq(STRING)], next: {<<>>} \cup (Owner \X Commands)]
    BY <1>0, <1>1, <1>2, <1>6, Zenon DEF OptionTypes
  <2>3. cache' \in [Key -> Enc \cup {"none"}]
    BY <1>0, <1>2, Zenon DEF OptionTypes
  <2> QED BY <1>0, <1>2, <2>1, <2>2, <2>3, Zenon DEF OptionTypes
<1>11. Tables'
  BY <1>0, <1>8, <1>9, Zenon DEF Tables
<1>12. /\ \A p \in Owner : GetServer(p)' = GetServer(p)
       /\ \A p \in Owner : GetGlobal(p)' = GetGlobal(p)
  BY <1>9, Zenon DEF GetServer, GetGlobal
<1>13. \A p \in Owner, d \in Chan :
         GetChannel(p, d)' = IF p = o /\ d = c THEN x ELSE GetChannel(p, d)
  <2> TAKE p \in Owner, d \in Chan
  <2>1. GetChannel(p, d)' = Read(Save(T, row), ChannelKey, <<p, d>>, ChannelDefault(p, d))
    <3>1. Save(T, row) \in SUBSET ChannelRow
      BY <1>8 DEF TableOK
    <3> QED BY <1>9, <3>1, ChannelRead, Zenon DEF GetChannel, ChannelDefault
  <2>2. <<p, d>> = k <=> p = o /\ d = c
    OBVIOUS
  <2> HIDE DEF k
  <2> QED BY <1>3, <1>8, <2>1, <2>2
<1>14. OptionsStick'
  <2>1. /\ asked'.enc = [asked.enc EXCEPT ![<<o, c>>] = enc]
        /\ asked'.crecord = [asked.crecord EXCEPT ![<<o, c>>] = rec]
        /\ asked'.senc = asked.senc /\ asked'.max = asked.max /\ asked'.record = asked.record
        /\ asked'.cmds = asked.cmds
    BY <1>0, <1>2, <1>6, Zenon DEF OptionTypes
  <2>2. CommandsWhole'
    BY <1>0, <1>9, <1>12, <2>1, SMTT(20) DEF OptionsStick, CommandsWhole, CommandsOf
  <2>3. \A p \in Owner : /\ GetGlobal(p)'.max = asked'.max[p]
                         /\ Flag(GetGlobal(p)'.record) = asked'.record[p]
    BY <1>0, <1>12, <2>1, Zenon DEF OptionsStick
  <2>4. \A p \in Owner : GetServer(p)'.enc = asked'.senc[p]
    BY <1>0, <1>12, <2>1 DEF OptionsStick
  <2>5. \A p \in Owner, d \in Chan : /\ GetChannel(p, d)'.enc = asked'.enc[<<p, d>>]
                                     /\ GetChannel(p, d)'.record = asked'.crecord[<<p, d>>]
    <3> TAKE p \in Owner, d \in Chan
    <3>1. /\ GetChannel(p, d).enc = asked.enc[<<p, d>>]
          /\ GetChannel(p, d).record = asked.crecord[<<p, d>>]
      BY <1>0 DEF OptionsStick
    <3>2. <<p, d>> \in Key /\ asked.enc \in [Key -> Enc]
          /\ asked.crecord \in [Key -> {"true", "false", "unset"}]
      BY <1>0 DEF OptionTypes, Key
    <3>3. CASE p = o /\ d = c
      BY <1>7, <1>13, <2>1, <3>2, <3>3, ZenonT(30)
    <3>4. CASE ~(p = o /\ d = c)
      <4>1. <<p, d>> # <<o, c>>
        BY <3>4
      <4>2. /\ asked'.enc[<<p, d>>] = asked.enc[<<p, d>>]
            /\ asked'.crecord[<<p, d>>] = asked.crecord[<<p, d>>]
        BY <2>1, <3>2, <4>1
      <4> QED BY <1>13, <3>1, <3>4, <4>2
    <3> QED BY <3>3, <3>4
  <2> QED BY <2>2, <2>3, <2>4, <2>5 DEF OptionsStick, Flag
<1>15. CacheFresh'
  <2> SUFFICES ASSUME NEW p \in Owner, NEW d \in Chan
               PROVE  cache'[<<p, d>>] \in {"none", Encoding(p, d)'}
    BY Zenon DEF CacheFresh
  <2>1. <<p, d>> \in Key /\ cache \in [Key -> Enc \cup {"none"}]
    BY <1>0 DEF OptionTypes, Key
  <2>2. CASE p = o /\ d = c
    BY <1>2, <2>1, <2>2
  <2>3. CASE ~(p = o /\ d = c)
    <3>1. cache'[<<p, d>>] = cache[<<p, d>>]
      BY <1>2, <2>1, <2>3
    <3>2. Encoding(p, d)' = Encoding(p, d)
      BY <1>12, <1>13, <2>3 DEF Encoding, WithServerDefault
    <3> QED BY <1>0, <3>1, <3>2 DEF CacheFresh
  <2> QED BY <2>2, <2>3
<1> QED BY <1>0, <1>2, <1>9, <1>10, <1>11, <1>14, <1>15 DEF OptionsInv, Idle

-----------------------------------------------------------------------------
(* The after-connection commands.                                          *)

\* get_after_connection_commands() in terms of the rows of the user.
LEMMA CommandsOfIs ==
  ASSUME NEW t \in Seq(CommandRow), NEW o
  PROVE  CommandsOf(t, o) = IF GetServer(o).id = Unset THEN <<>> ELSE CmdsOf(t, GetServer(o).id)
<1> DEFINE fk == GetServer(o).id
<1>1. Filter(t, {r \in Range(t) : r.fk = fk}) = Filter(t, Of(fk))
  <2> HIDE DEF fk
  <2> QED BY CommandRows, Zenon
<1> QED BY <1>1, Zenon DEF CommandsOf, CmdsOf

\* A key that no row refers to has no command.
LEMMA NoCommands ==
  ASSUME NEW t \in Seq(CommandRow), NEW fk, \A r \in Range(t) : r.fk # fk
  PROVE  CmdsOf(t, fk) = <<>>
<1>1. Range(t) \cap Of(fk) = {}
  BY DEF Of
<1>2. Filter(t, Of(fk)) = <<>>
  BY <1>1, FilterNone
<1>3. Len(<<>>) = 0
  OBVIOUS
<1> QED BY <1>2, <1>3 DEF CmdsOf

\* The statements of the transaction, one by one.
LEMMA ReplaceIs ==
  ASSUME NEW fk \in Nat, NEW cmds \in Seq(STRING)
  PROVE  /\ Replace(fk, cmds) \in Seq(StatementRow)
         /\ Len(Replace(fk, cmds)) = Len(cmds) + 2
         /\ Replace(fk, cmds)[1] = [op |-> "delete", fk |-> fk, cmd |-> Empty]
         /\ \A k \in 1 .. Len(cmds) :
              Replace(fk, cmds)[k + 1] = [op |-> "insert", fk |-> fk, cmd |-> cmds[k]]
         /\ Replace(fk, cmds)[Len(cmds) + 2] = [op |-> "end", fk |-> fk, cmd |-> Empty]
<1> DEFINE a == [op |-> "delete", fk |-> fk, cmd |-> Empty]
           b == [k \in 1..Len(cmds) |-> [op |-> "insert", fk |-> fk, cmd |-> cmds[k]]]
           z == [op |-> "end", fk |-> fk, cmd |-> Empty]
<1>1. a \in StatementRow /\ z \in StatementRow
  BY DEF StatementRow
<1>2. /\ b \in Seq(StatementRow) /\ Len(b) = Len(cmds) /\ Len(cmds) \in Nat
      /\ \A k \in 1..Len(cmds) : b[k] = [op |-> "insert", fk |-> fk, cmd |-> cmds[k]]
  <2>1. \A k \in 1..Len(cmds) : [op |-> "insert", fk |-> fk, cmd |-> cmds[k]] \in StatementRow
    BY DEF StatementRow
  <2> QED BY <2>1
<1>3. Replace(fk, cmds) = <<a>> \o b \o <<z>>
  BY DEF Replace
<1> HIDE DEF a, b, z
<1>4. <<a>> \o b \in Seq(StatementRow) /\ Len(<<a>> \o b) = Len(cmds) + 1
  BY <1>1, <1>2
<1>5. /\ (<<a>> \o b)[1] = a
      /\ \A k \in 1..Len(cmds) : (<<a>> \o b)[k + 1] = b[k]
  BY <1>1, <1>2
<1> DEFINE c == <<a>> \o b
<1>6. c \in Seq(StatementRow) /\ Len(c) = Len(cmds) + 1
  BY <1>4
<1>7. c[1] = a /\ \A k \in 1..Len(cmds) : c[k + 1] = b[k]
  BY <1>5, Zenon
<1> HIDE DEF c
<1>8. /\ c \o <<z>> \in Seq(StatementRow) /\ Len(c \o <<z>>) = Len(cmds) + 2
      /\ (c \o <<z>>)[Len(cmds) + 2] = z
      /\ \A k \in 1..Len(cmds) + 1 : (c \o <<z>>)[k] = c[k]
  BY <1>1, <1>2, <1>6
<1>9. Replace(fk, cmds) = c \o <<z>>
  BY <1>3 DEF c
<1>10. /\ (c \o <<z>>)[1] = a
       /\ \A k \in 1..Len(cmds) : (c \o <<z>>)[k + 1] = b[k]
  <2>1. 1 \in 1..Len(cmds) + 1 /\ \A k \in 1..Len(cmds) : k + 1 \in 1..Len(cmds) + 1
    BY <1>2
  <2> QED BY <1>7, <1>8, <2>1
<1> QED BY <1>2, <1>8, <1>9, <1>10, Zenon DEF a, z

\* The options of a server as they are read: those of the user's only row.
LEMMA ServerIs ==
  ASSUME OptionTypes, Tables, NEW o \in Owner
  PROVE  /\ GetServer(o) \in ServerRow /\ GetServer(o).owner = o
         /\ GetServer(o).id = Unset => \A r \in disk.server : ServerKey[r] # o
         /\ GetServer(o).id # Unset => GetServer(o) \in disk.server
<1> DEFINE g == GetServer(o)
           T == disk.server
<1>1. TableOK(T, ServerRow, ServerKey) /\ T \in SUBSET ServerRow
  BY DEF Tables, OptionTypes
<1>2. CASE (\A r \in T : ServerKey[r] # o) /\ g = ServerDefault(o)
  <2>1. Empty \in Enc /\ Unset \in Nat
    BY OptionsAssumptions DEF Unset
  <2>2. /\ ServerDefault(o) \in ServerRow /\ ServerDefault(o).owner = o
        /\ ServerDefault(o).id = Unset
    BY <2>1 DEF ServerDefault, ServerRow
  <2> HIDE DEF g
  <2> QED BY <1>2, <2>2 DEF g
<1>3. CASE g \in T /\ ServerKey[g] = o
  <2> HIDE DEF g
  <2>1. g \in ServerRow /\ g.owner = o /\ g.id # Unset
    BY <1>1, <1>3, Zenon DEF ServerKey, TableOK, IdsOK, Unset
  <2> QED BY <1>3, <2>1 DEF g
<1>4. g = Read(T, ServerKey, o, ServerDefault(o))
  BY <1>1, ServerRead DEF GetServer, ServerDefault
<1> HIDE DEF g, T
<1>5. \/ (\A r \in T : ServerKey[r] # o) /\ g = ServerDefault(o)
      \/ g \in T /\ ServerKey[g] = o
  BY <1>1, <1>4, ReadRow
<1> QED BY <1>2, <1>3, <1>5

\* A form of the options of a server: its row is saved, and the transaction
\* that replaces the commands begins.
LEMMA ConfigureServerInv ==
  ASSUME OptionsInv, NEW o \in Owner, NEW enc \in Enc, NEW cmds \in Commands,
         ConfigureServer(o, enc, cmds)
  PROVE  OptionsInv'
<1> DEFINE g == GetServer(o)
           row == [g EXCEPT !.enc = enc]
           T == disk.server
           x == Saved(T, row)
<1>0. /\ OptionTypes /\ Tables /\ OptionsStick /\ CacheFresh /\ Idle /\ work = disk.commands
      /\ TableOK(T, ServerRow, ServerKey) /\ T \in SUBSET ServerRow
      /\ cmds \in Seq(STRING)
  BY OptionsAssumptions DEF OptionsInv, ConfigureServer, Tables, OptionTypes
<1>2. /\ disk' = [disk EXCEPT !.server = Save(T, row)]
      /\ asked' = [asked EXCEPT !.senc[o] = enc, !.next = <<o, cmds>>]
      /\ cache' = [k \in Key |-> "none"]
      /\ work' = disk.commands
      /\ todo' = Replace((CHOOSE r \in Save(T, row) : r.owner = o).id, cmds)
  BY Zenon DEF ConfigureServer, InvalidateAll
<1>3. \A p \in Owner : GetServer(p) = Read(T, ServerKey, p, ServerDefault(p))
  BY <1>0, ServerRead, Zenon DEF GetServer, ServerDefault
<1>5. /\ g \in ServerRow /\ g.owner = o
      /\ g.id = Unset => \A r \in T : ServerKey[r] # o
      /\ g.id # Unset => g \in T
  BY <1>0, ServerIs
<1> HIDE DEF g
<1>6. /\ row \in ServerRow /\ row.owner = o /\ row.id = g.id /\ ServerKey[row] = o
      /\ row.enc = enc
  BY <1>5 DEF ServerRow, ServerKey
<1> HIDE DEF row
<1>7. x \in ServerRow /\ x.enc = enc /\ ServerKey[x] = o
  <2>1. NewId(T) \in Nat
    BY <1>0, NewIdFresh, Zenon DEF TableOK
  <2> QED BY <1>6, <2>1, Zenon DEF Saved, ServerRow, ServerKey
<1>8. /\ TableOK(Save(T, row), ServerRow, ServerKey)
      /\ \A d : Read(Save(T, row), ServerKey, o, d) = x
      /\ \A j, d : j # o => Read(Save(T, row), ServerKey, j, d) = Read(T, ServerKey, j, d)
      /\ x \in Save(T, row) /\ (\A r \in T : \E q \in Save(T, row) : q.id = r.id)
      /\ x.id # Unset /\ (g.id # Unset => x.id = g.id)
      /\ g.id = Unset => \A r \in T : r.id # x.id
  <2>1. "id" \in DOMAIN row /\ row.id \in Nat
    BY <1>6 DEF ServerRow
  <2>2. row.id = Unset => \A r \in T : ServerKey[r] # ServerKey[row]
    BY <1>5, <1>6
  <2>3. row.id # Unset => \E r \in T : r.id = row.id /\ ServerKey[r] = ServerKey[row]
    BY <1>5, <1>6, Zenon DEF ServerKey
  <2>4. MaySave(T, ServerRow, ServerKey, row)
    BY <1>0, <1>6, <1>7, <2>1, <2>2, <2>3 DEF MaySave
  <2>5. SaveDone(T, ServerRow, ServerKey, row)
    BY <2>4, SaveRow
  <2> HIDE DEF x
  <2> QED BY <1>6, <2>5, Zenon DEF x, SaveDone
<1> HIDE DEF x
<1>9. /\ disk'.server = Save(T, row) /\ disk'.channel = disk.channel
      /\ disk'.global = disk.global /\ disk'.commands = disk.commands
  BY <1>0, <1>2 DEF OptionTypes
<1>10. OptionTypes'
  <2>1. disk' \in [global: SUBSET GlobalRow, server: SUBSET ServerRow,
                   channel: SUBSET ChannelRow, commands: Seq(CommandRow)]
    <3>1. Save(T, row) \in SUBSET ServerRow
      BY <1>8 DEF TableOK
    <3> QED BY <1>0, <1>2, <3>1, Zenon DEF OptionTypes
  <2>2. asked' \in [max: [Owner -> Int], record: [Owner -> {"true", "false"}],
                enc: [Key -> Enc], senc: [Owner -> Enc],
                crecord: [Key -> {"true", "false", "unset"}],
                cmds: [Owner -> Seq(STRING)], next: {<<>>} \cup (Owner \X Commands)]
    <3>1. <<o, cmds>> \in Owner \X Commands
      OBVIOUS
    <3> QED BY <1>0, <1>2, <3>1, Zenon DEF OptionTypes
  <2>3. cache' \in [Key -> Enc \cup {"none"}]
    BY <1>2
  <2> QED BY <1>0, <1>2, <2>1, <2>2, <2>3, Zenon DEF OptionTypes
<1>11. Tables'
  <2>1. \A r \in Range(disk.commands) : \E q \in Save(T, row) : q.id = r.fk
    <3> TAKE r \in Range(disk.commands)
    <3>1. PICK q \in T : q.id = r.fk
      BY <1>0, Zenon DEF Tables
    <3> QED BY <1>8, <3>1, Zenon
  <2> QED BY <1>0, <1>8, <1>9, <2>1, Zenon DEF Tables
<1>12. /\ \A p \in Owner : GetGlobal(p)' = GetGlobal(p)
       /\ \A p \in Owner, c \in Chan : GetChannel(p, c)' = GetChannel(p, c)
  BY <1>9, Zenon DEF GetGlobal, GetChannel
<1>13. \A p \in Owner : GetServer(p)' = IF p = o THEN x ELSE GetServer(p)
  <2> TAKE p \in Owner
  <2>1. GetServer(p)' = Read(Save(T, row), ServerKey, p, ServerDefault(p))
    <3>1. Save(T, row) \in SUBSET ServerRow
      BY <1>8, Zenon DEF TableOK
    <3> QED BY <1>9, <3>1, ServerRead, Zenon DEF GetServer, ServerDefault
  <2> QED BY <1>3, <1>8, <2>1
<1>14. OptionsStick'
  <2>1. /\ asked'.senc = [asked.senc EXCEPT ![o] = enc]
        /\ asked'.enc = asked.enc /\ asked'.crecord = asked.crecord
        /\ asked'.max = asked.max /\ asked'.record = asked.record
        /\ asked'.cmds = asked.cmds
    BY <1>0, <1>2 DEF OptionTypes
  <2>2. CommandsWhole'
    <3> SUFFICES ASSUME NEW p \in Owner PROVE CommandsOf(disk.commands, p)' = asked.cmds[p]
      BY <2>1 DEF CommandsWhole
    <3>1. disk.commands \in Seq(CommandRow) /\ disk'.commands \in Seq(CommandRow)
      BY <1>0, <1>10, Zenon DEF OptionTypes
    <3>2. CommandsOf(disk.commands, p) = asked.cmds[p]
      BY <1>0 DEF OptionsStick, CommandsWhole
    <3>3. CommandsOf(disk.commands, p) =
            IF GetServer(p).id = Unset THEN <<>> ELSE CmdsOf(disk.commands, GetServer(p).id)
      BY <3>1, CommandsOfIs
    <3>4. CommandsOf(disk.commands, p)' =
            IF GetServer(p)'.id = Unset THEN <<>> ELSE CmdsOf(disk.commands, GetServer(p)'.id)
      <4> DEFINE fk == GetServer(p)'.id
      <4>1. Filter(disk'.commands, {r \in Range(disk'.commands) : r.fk = fk})
              = Filter(disk.commands, Of(fk))
        <5> HIDE DEF fk
        <5> QED BY <1>9, <3>1, CommandRows, Zenon
      <4> QED BY <4>1, Zenon DEF CommandsOf, CmdsOf
    <3>5. CASE p # o
      BY <1>13, <3>2, <3>3, <3>4, <3>5
    <3>6. CASE p = o /\ g.id # Unset
      <4>1. GetServer(p)'.id = GetServer(p).id
        BY <1>8, <1>13, <3>6, Zenon DEF g
      <4> QED BY <3>2, <3>3, <3>4, <4>1, Zenon
    <3>7. CASE p = o /\ g.id = Unset
      <4>1. \A r \in Range(disk.commands) : r.fk # x.id
        BY <1>0, <1>8, <3>7, Zenon DEF Tables
      <4>2. CmdsOf(disk.commands, x.id) = <<>>
        BY <3>1, <4>1, NoCommands, Zenon
      <4> QED BY <1>8, <1>13, <3>2, <3>3, <3>4, <3>7, <4>2, Zenon DEF g
    <3> QED BY <3>5, <3>6, <3>7, Zenon
  <2>3. \A p \in Owner : /\ GetGlobal(p)'.max = asked'.max[p]
                         /\ Flag(GetGlobal(p)'.record) = asked'.record[p]
    <3> TAKE p \in Owner
    <3>1. GetGlobal(p).max = asked.max[p] /\ Flag(GetGlobal(p).record) = asked.record[p]
      BY <1>0, Zenon DEF OptionsStick
    <3> QED BY <1>12, <2>1, <3>1, Zenon
  <2>4. \A p \in Owner : GetServer(p)'.enc = asked'.senc[p]
    BY <1>0, <1>7, <1>13, <2>1, ZenonT(30) DEF OptionsStick, OptionTypes
  <2>5. \A p \in Owner, c \in Chan : /\ GetChannel(p, c)'.enc = asked'.enc[<<p, c>>]
                                     /\ GetChannel(p, c)'.record = asked'.crecord[<<p, c>>]
    <3> TAKE p \in Owner, c \in Chan
    <3>1. /\ GetChannel(p, c).enc = asked.enc[<<p, c>>]
          /\ GetChannel(p, c).record = asked.crecord[<<p, c>>]
      BY <1>0 DEF OptionsStick
    <3> QED BY <1>12, <2>1, <3>1, Zenon
  <2> QED BY <2>2, <2>3, <2>4, <2>5 DEF OptionsStick, Flag
<1>15. CacheFresh'
  BY <1>2, Zenon DEF CacheFresh, Key
<1>16. ~Idle' /\ Underway'
  <2>1. (CHOOSE r \in Save(T, row) : r.owner = o) = x
    <3>1. \A r \in Save(T, row) : r.owner = o <=> r = x
      BY <1>7, <1>8, Zenon DEF TableOK, ServerKey
    <3> QED BY <1>8, <3>1, Zenon
  <2>2. asked'.next = <<o, cmds>> /\ asked'.next # <<>>
        /\ asked'.next[1] = o /\ asked'.next[2] = cmds
    <3>1. asked'.next = <<o, cmds>>
      BY <1>0, <1>2, SMTT(20) DEF OptionTypes
    <3> QED BY <3>1
  <2>3. GetServer(o)'.id = x.id /\ x.id \in Nat /\ x.id # Unset
    BY <1>7, <1>8, <1>13 DEF ServerRow
  <2>4. todo' = Replace(x.id, cmds)
    BY <1>2, <2>1, Zenon
  <2>5. /\ Replace(x.id, cmds) \in Seq(StatementRow)
        /\ Len(Replace(x.id, cmds)) = Len(cmds) + 2 /\ Len(cmds) \in Nat
    <3> DEFINE fk == x.id
    <3>1. fk \in Nat /\ Len(cmds) \in Nat
      BY <1>0, <2>3, SMTT(20)
    <3> HIDE DEF fk
    <3>2. Replace(fk, cmds) \in Seq(StatementRow) /\ Len(Replace(fk, cmds)) = Len(cmds) + 2
      BY <1>0, <3>1, ReplaceIs, Zenon
    <3> QED BY <3>1, <3>2 DEF fk
  <2>6. Replace(x.id, cmds) = SubSeq(Replace(x.id, cmds), 0 + 1, Len(cmds) + 2)
    BY <2>5
  <2>7. todo' # <<>>
    BY <2>4, <2>5
  <2>8. \E j \in 0 .. Len(cmds) + 1 :
           /\ todo' = SubSeq(Replace(x.id, cmds), j + 1, Len(cmds) + 2)
           /\ work' = IF j = 0 THEN disk'.commands
                     ELSE Filter(disk'.commands, NotOf(x.id)) \o Inserted(x.id, cmds, j - 1)
    <3>1. 0 \in 0 .. Len(cmds) + 1
      BY <2>5
    <3> QED BY <1>2, <1>9, <2>4, <2>6, <3>1, Zenon
  <2> QED BY <2>2, <2>3, <2>7, <2>8, Zenon DEF Underway, Idle
<1> QED BY <1>10, <1>11, <1>14, <1>15, <1>16 DEF OptionsInv

\* The rows of one statement more.
LEMMA InsertedNext ==
  ASSUME NEW fk \in Nat, NEW cmds \in Seq(STRING), NEW j \in 1 .. Len(cmds)
  PROVE  /\ Inserted(fk, cmds, j - 1) \in Seq(CommandRow)
         /\ Inserted(fk, cmds, j) = Append(Inserted(fk, cmds, j - 1), [fk |-> fk, cmd |-> cmds[j]])
<1>1. \A k \in 1..Len(cmds) : [fk |-> fk, cmd |-> cmds[k]] \in CommandRow
  BY DEF CommandRow
<1> DEFINE a == Inserted(fk, cmds, j - 1)
           b == Inserted(fk, cmds, j)
           z == [fk |-> fk, cmd |-> cmds[j]]
<1>2. Len(cmds) \in Nat /\ j \in Nat /\ j - 1 \in Nat
  OBVIOUS
<1>3. /\ a \in Seq(CommandRow) /\ Len(a) = j - 1
      /\ \A k \in 1..j - 1 : a[k] = [fk |-> fk, cmd |-> cmds[k]]
  BY <1>1, <1>2 DEF Inserted
<1>4. /\ b \in Seq(CommandRow) /\ Len(b) = j
      /\ \A k \in 1..j : b[k] = [fk |-> fk, cmd |-> cmds[k]]
  BY <1>1, <1>2 DEF Inserted
<1>5. z \in CommandRow
  BY <1>1
<1>6. Append(a, z) \in Seq(CommandRow) /\ Len(Append(a, z)) = j
      /\ Append(a, z)[j] = z /\ \A k \in 1..j - 1 : Append(a, z)[k] = a[k]
  <2> HIDE DEF a, z
  <2> QED BY <1>2, <1>3, <1>5
<1>7. \A k \in 1..j : b[k] = Append(a, z)[k]
  <2> TAKE k \in 1..j
  <2>1. CASE k = j
    BY <1>4, <1>6, <2>1
  <2>2. CASE k \in 1..j - 1
    BY <1>3, <1>4, <1>6, <2>2
  <2> HIDE DEF a, b, z
  <2>3. k = j \/ k \in 1..j - 1
    BY <1>2
  <2> QED BY <2>1, <2>2, <2>3, Zenon
<1>8. b = Append(a, z)
  <2> HIDE DEF a, b, z
  <2> QED BY <1>4, <1>6, <1>7
<1> QED BY <1>3, <1>8

\* What the whole transaction leaves: for its user the commands of the form,
\* for everybody else what there was.
LEMMA TransactionIs ==
  ASSUME NEW t \in Seq(CommandRow), NEW fk \in Nat, NEW cmds \in Seq(STRING)
  PROVE  Applied(Filter(t, NotOf(fk)) \o Inserted(fk, cmds, Len(cmds)), t, fk, cmds)
<1> DEFINE a == Filter(t, NotOf(fk))
           b == Inserted(fk, cmds, Len(cmds))
<1>1. /\ b \in Seq(CommandRow) /\ Len(b) = Len(cmds) /\ Len(cmds) \in Nat
      /\ \A k \in 1..Len(cmds) : b[k].fk = fk /\ b[k].cmd = cmds[k]
  <2>1. \A k \in 1..Len(cmds) : [fk |-> fk, cmd |-> cmds[k]] \in CommandRow
    BY DEF CommandRow
  <2> QED BY <2>1 DEF Inserted
<1>2. a \in Seq(CommandRow) /\ Range(a) = Range(t) \cap NotOf(fk)
  BY FilterType, FilterRange
<1>3. \A r \in Range(b) : r \in CommandRow /\ r.fk = fk
  <2> HIDE DEF b
  <2> QED BY <1>1, RangeSeq
<1>4. \A S : Filter(a \o b, S) = Filter(a, S) \o Filter(b, S)
  <2> HIDE DEF a, b
  <2> QED BY <1>1, <1>2, FilterConcat
<1>5. CmdsOf(a \o b, fk) = cmds
  <2>1. Filter(a, Of(fk)) = <<>>
    <3>1. Range(a) \cap Of(fk) = {}
      <4> HIDE DEF a
      <4> QED BY <1>2 DEF Of, NotOf
    <3> HIDE DEF a
    <3> QED BY <1>2, <3>1, FilterNone
  <2>2. Filter(b, Of(fk)) = b
    <3>1. Range(b) \subseteq Of(fk)
      <4> HIDE DEF b
      <4> QED BY <1>3 DEF Of
    <3> HIDE DEF b
    <3> QED BY <1>1, <3>1, FilterAll
  <2>3. <<>> \o b = b
    <3> HIDE DEF b
    <3> QED BY <1>1
  <2>4. Filter(a \o b, Of(fk)) = b
    <3> HIDE DEF a, b
    <3> QED BY <1>4, <2>1, <2>2, <2>3, Zenon
  <2>5. CmdsOf(a \o b, fk) = [k \in 1..Len(b) |-> b[k].cmd]
    <3> HIDE DEF a, b
    <3> QED BY <2>4, Zenon DEF CmdsOf
  <2>6. [k \in 1..Len(b) |-> b[k].cmd] = [k \in 1..Len(cmds) |-> cmds[k]]
    <3> HIDE DEF b
    <3> QED BY <1>1
  <2>7. [k \in 1..Len(cmds) |-> cmds[k]] = cmds
    OBVIOUS
  <2> HIDE DEF a, b
  <2> QED BY <2>5, <2>6, <2>7, Zenon
<1>6. ASSUME NEW g, g # fk PROVE CmdsOf(a \o b, g) = CmdsOf(t, g)
  <2>1. Filter(a, Of(g)) = Filter(t, Of(g))
    <3>1. Filter(a, Of(g)) = Filter(t, NotOf(fk) \cap Of(g))
      BY FilterTwice
    <3>2. NotOf(fk) \cap Of(g) = Of(g)
      BY <1>6, Zenon DEF NotOf, Of
    <3> HIDE DEF a
    <3> QED BY <3>1, <3>2, Zenon
  <2>2. Filter(b, Of(g)) = <<>>
    <3>1. Range(b) \cap Of(g) = {}
      <4> HIDE DEF b
      <4> QED BY <1>3, <1>6 DEF Of
    <3> HIDE DEF b
    <3> QED BY <1>1, <3>1, FilterNone
  <2>3. Filter(t, Of(g)) \in Seq(CommandRow)
    BY FilterType
  <2>4. Filter(t, Of(g)) \o <<>> = Filter(t, Of(g))
    BY <2>3
  <2> HIDE DEF a, b
  <2>5. Filter(a \o b, Of(g)) = Filter(t, Of(g))
    BY <1>4, <2>1, <2>2, <2>4, Zenon
  <2> QED BY <2>5, Zenon DEF CmdsOf
<1>7. a \o b \in Seq(CommandRow) /\ Range(a \o b) = Range(a) \cup Range(b)
  <2> HIDE DEF a, b
  <2> QED BY <1>1, <1>2, RangeConcat
<1>8. \A r \in Range(a \o b) : r \in Range(t) \/ r.fk = fk
  <2> HIDE DEF a, b
  <2> QED BY <1>2, <1>3, <1>7
<1> HIDE DEF a, b
<1>9. Applied(a \o b, t, fk, cmds)
  BY <1>5, <1>6, <1>7, <1>8, Zenon DEF Applied
<1> QED BY <1>9, Zenon DEF a, b

\* The first element of a part of a sequence and the others.
LEMMA PartSplit ==
  ASSUME NEW A, NEW s \in Seq(A), NEW m \in 1..Len(s), NEW n \in m..Len(s)
  PROVE  Head(SubSeq(s, m, n)) = s[m] /\ Tail(SubSeq(s, m, n)) = SubSeq(s, m + 1, n)
  OBVIOUS

\* A statement of the transaction.
LEMMA StatementInv ==
  ASSUME OptionsInv, Statement
  PROVE  OptionsInv'
<1> DEFINE o == asked.next[1]
           cmds == asked.next[2]
           fk == GetServer(o).id
           R == Replace(fk, cmds)
           L == Len(cmds)
           s == Head(todo)
<1>0. /\ OptionTypes /\ Tables /\ OptionsStick /\ CacheFresh /\ Underway /\ todo # <<>>
  BY Zenon DEF OptionsInv, Statement, Idle
<1>1. PICK j \in 0 .. L + 1 :
        /\ todo = SubSeq(R, j + 1, L + 2)
        /\ work = IF j = 0 THEN disk.commands
                  ELSE Filter(disk.commands, NotOf(fk)) \o Inserted(fk, cmds, j - 1)
  BY <1>0 DEF Underway
<1>2. /\ o \in Owner /\ cmds \in Seq(STRING) /\ L \in Nat
      /\ fk \in Nat /\ fk # Unset /\ asked.next # <<>>
  <2>1. asked.next # <<>> /\ fk # Unset /\ asked.next \in Owner \X Commands
    BY <1>0 DEF Underway, OptionTypes
  <2>2. o \in Owner /\ cmds \in Commands
    BY <2>1
  <2>3. cmds \in Seq(STRING)
    BY <2>2, OptionsAssumptions
  <2>4. fk \in Nat
    BY <1>0, <2>2, ServerIs, Zenon DEF ServerRow
  <2> QED BY <2>1, <2>2, <2>3, <2>4, SMTT(20)
<1> HIDE DEF o, cmds, fk
<1>3. /\ R \in Seq(StatementRow) /\ Len(R) = L + 2
      /\ R[1] = [op |-> "delete", fk |-> fk, cmd |-> Empty]
      /\ \A k \in 1 .. L : R[k + 1] = [op |-> "insert", fk |-> fk, cmd |-> cmds[k]]
      /\ R[L + 2] = [op |-> "end", fk |-> fk, cmd |-> Empty]
  BY <1>2, ReplaceIs, Zenon
<1> HIDE DEF R, L
<1>4. s = R[j + 1] /\ Tail(todo) = SubSeq(R, j + 2, L + 2) /\ Len(R) = L + 2 /\ L \in Nat
  <2>1. j + 1 \in 1 .. Len(R) /\ L + 2 \in j + 1 .. Len(R) /\ (j + 1) + 1 = j + 2
    BY <1>2, <1>3
  <2> QED BY <1>1, <1>2, <1>3, <2>1, PartSplit, SMTT(20)
<1> HIDE DEF s
<1>5. /\ todo' = SubSeq(R, j + 2, L + 2)
      /\ work' = CASE s.op = "delete" -> Filter(work, {r \in Range(work) : r.fk # s.fk})
                   [] s.op = "insert" -> Append(work, [fk |-> s.fk, cmd |-> s.cmd])
                   [] s.op = "end" -> work
      /\ disk' = IF s.op = "end" THEN [disk EXCEPT !.commands = work'] ELSE disk
      /\ asked' = IF s.op = "end" THEN [asked EXCEPT !.cmds[o] = cmds] ELSE asked
      /\ cache' = cache
  BY <1>4, Zenon DEF Statement, Commits, s, o, cmds
<1>6. /\ \A p \in Owner : GetGlobal(p)' = GetGlobal(p) /\ GetServer(p)' = GetServer(p)
      /\ \A p \in Owner, c \in Chan : GetChannel(p, c)' = GetChannel(p, c)
      /\ disk'.global = disk.global /\ disk'.server = disk.server /\ disk'.channel = disk.channel
  <2>1. disk'.global = disk.global /\ disk'.server = disk.server /\ disk'.channel = disk.channel
    BY <1>0, <1>5 DEF OptionTypes
  <2> QED BY <2>1, Zenon DEF GetGlobal, GetServer, GetChannel
<1>7. CacheFresh'
  BY <1>0, <1>5, <1>6, Zenon DEF CacheFresh, Encoding, WithServerDefault
<1>8. disk.commands \in Seq(CommandRow) /\ work \in Seq(CommandRow)
  BY <1>0 DEF OptionTypes
<1>9. CASE j # L + 1
  <2>1. j \in 0 .. L
    BY <1>2, <1>9 DEF L
  <2>2. s.op # "end"
    <3>1. CASE j = 0
      BY <1>3, <1>4, <3>1, SMTT(20)
    <3>2. CASE j \in 1 .. L
      <4>1. R[j + 1] = [op |-> "insert", fk |-> fk, cmd |-> cmds[j]]
        BY <1>3, <3>2
      <4> QED BY <1>4, <4>1, SMTT(20)
    <3> QED BY <2>1, <3>1, <3>2, <1>4, SMTT(20)
  <2>3. disk' = disk /\ asked' = asked
    BY <1>5, <2>2
  <2>4. work' = Filter(disk.commands, NotOf(fk)) \o Inserted(fk, cmds, j) /\ work' \in Seq(CommandRow)
    <3>1. CASE j = 0
      <4>1. s.op = "delete" /\ s.fk = fk
        BY <1>3, <1>4, <3>1
      <4>2. work' = Filter(work, {r \in Range(work) : r.fk # fk}) /\ work = disk.commands
        BY <1>1, <1>5, <3>1, <4>1
      <4>3. work' = Filter(disk.commands, NotOf(fk))
        BY <1>8, <4>2, CommandRows, Zenon
      <4>4. work' \in Seq(CommandRow)
        BY <1>8, <4>3, FilterType
      <4>5. Inserted(fk, cmds, 0) = <<>>
        BY DEF Inserted
      <4> QED BY <3>1, <4>3, <4>4, <4>5
    <3>2. CASE j \in 1 .. L
      <4>1. s.op = "insert" /\ s.fk = fk /\ s.cmd = cmds[j]
        <5>1. R[j + 1] = [op |-> "insert", fk |-> fk, cmd |-> cmds[j]]
          BY <1>3, <3>2
        <5> QED BY <1>4, <5>1
      <4>2. work' = Append(work, [fk |-> fk, cmd |-> cmds[j]])
        BY <1>5, <4>1
      <4>3. j # 0
        BY <3>2
      <4>4. work = Filter(disk.commands, NotOf(fk)) \o Inserted(fk, cmds, j - 1)
        BY <1>1, <4>3
      <4>5. /\ Inserted(fk, cmds, j - 1) \in Seq(CommandRow)
            /\ Inserted(fk, cmds, j) = Append(Inserted(fk, cmds, j - 1), [fk |-> fk, cmd |-> cmds[j]])
        BY <1>2, <3>2, InsertedNext DEF L
      <4>6. Filter(disk.commands, NotOf(fk)) \in Seq(CommandRow)
        BY <1>8, FilterType
      <4>7. [fk |-> fk, cmd |-> cmds[j]] \in CommandRow
        BY <1>2, <3>2 DEF CommandRow, L
      <4>8. ASSUME NEW a \in Seq(CommandRow), NEW b \in Seq(CommandRow), NEW z \in CommandRow
            PROVE  Append(a \o b, z) = a \o Append(b, z) /\ Append(a \o b, z) \in Seq(CommandRow)
        BY SMTT(20)
      <4> DEFINE a == Filter(disk.commands, NotOf(fk))
                 b == Inserted(fk, cmds, j - 1)
                 z == [fk |-> fk, cmd |-> cmds[j]]
      <4>9. a \in Seq(CommandRow) /\ b \in Seq(CommandRow) /\ z \in CommandRow
        BY <4>5, <4>6, <4>7
      <4>10. work' = Append(a \o b, z) /\ Inserted(fk, cmds, j) = Append(b, z)
        BY <4>2, <4>4, <4>5, Zenon
      <4> HIDE DEF a, b, z
      <4>11. work' = a \o Append(b, z) /\ work' \in Seq(CommandRow)
        BY ONLY <4>8, <4>9, <4>10, Zenon
      <4> QED BY <4>10, <4>11, Zenon DEF a
    <3> QED BY <1>4, <2>1, <3>1, <3>2
  <2>5. ~Idle'
    <3>1. Len(SubSeq(R, j + 2, L + 2)) = L - j + 1
      BY <1>3, <1>4, <2>1
    <3>2. Len(<<>>) = 0 /\ L - j + 1 # 0
      BY <1>4, <2>1, SMTT(20)
    <3> QED BY <1>5, <3>1, <3>2, Zenon DEF Idle
  <2>6. Underway'
    <3>1. j + 1 \in 0 .. L + 1 /\ (j + 1) + 1 = j + 2 /\ j + 1 # 0 /\ (j + 1) - 1 = j
      BY <1>4, <2>1
    <3>2. \E i \in 0 .. L + 1 :
            /\ todo' = SubSeq(R, i + 1, L + 2)
            /\ work' = IF i = 0 THEN disk.commands
                       ELSE Filter(disk.commands, NotOf(fk)) \o Inserted(fk, cmds, i - 1)
      BY <1>5, <2>4, <3>1, Zenon
    <3>3. asked.next # <<>> /\ fk # Unset
      BY <1>2
    <3> QED BY <2>3, <3>2, <3>3, Zenon DEF Underway, R, L, fk, o, cmds, GetServer
  <2>7. OptionTypes'
    BY <1>0, <1>5, <2>3, <2>4, Zenon DEF OptionTypes
  <2>8. Tables'
    BY <1>0, <2>3 DEF Tables
  <2>9. OptionsStick'
    <3>1. CommandsWhole'
      BY <1>0, <1>6, <2>3, CommandsSame DEF OptionsStick
    <3>2. /\ asked'.max = asked.max /\ asked'.record = asked.record /\ asked'.senc = asked.senc
          /\ asked'.enc = asked.enc /\ asked'.crecord = asked.crecord
      BY <2>3, Zenon
    <3> QED BY <1>0, <1>6, <3>1, <3>2, StickSame, Zenon
  <2> QED BY <1>7, <2>5, <2>6, <2>7, <2>8, <2>9 DEF OptionsInv
<1>10. CASE j = L + 1
  <2>1. s.op = "end" /\ j # 0 /\ j - 1 = L
    <3>1. j + 1 = L + 2 /\ j # 0 /\ j - 1 = L
      BY <1>4, <1>10
    <3> QED BY <1>3, <1>4, <3>1
  <2>2. work' = work
    BY <1>5, <2>1
  <2>3. work = Filter(disk.commands, NotOf(fk)) \o Inserted(fk, cmds, Len(cmds))
    BY <1>1, <2>1 DEF L
  <2>4. disk' = [disk EXCEPT !.commands = work] /\ asked' = [asked EXCEPT !.cmds[o] = cmds]
    BY <1>5, <2>1, <2>2
  <2>5. disk'.commands = work /\ asked'.cmds = [asked.cmds EXCEPT ![o] = cmds]
        /\ asked'.max = asked.max /\ asked'.record = asked.record /\ asked'.senc = asked.senc
        /\ asked'.enc = asked.enc /\ asked'.crecord = asked.crecord
    BY <1>0, <2>4 DEF OptionTypes
  <2>6. /\ CmdsOf(work, fk) = cmds
        /\ \A g : g # fk => CmdsOf(work, g) = CmdsOf(disk.commands, g)
        /\ \A r \in Range(work) : r \in Range(disk.commands) \/ r.fk = fk
    <3>1. Applied(Filter(disk.commands, NotOf(fk)) \o Inserted(fk, cmds, Len(cmds)),
                  disk.commands, fk, cmds)
      BY <1>2, <1>8, TransactionIs
    <3>2. Applied(work, disk.commands, fk, cmds)
      BY <2>3, <3>1, Zenon
    <3> QED BY <3>2 DEF Applied
  <2>7. OptionTypes'
    <3>1. disk' \in [global: SUBSET GlobalRow, server: SUBSET ServerRow,
                     channel: SUBSET ChannelRow, commands: Seq(CommandRow)]
      BY <1>0, <1>8, <2>4, Zenon DEF OptionTypes
    <3>2. asked' \in [max: [Owner -> Int], record: [Owner -> {"true", "false"}],
                enc: [Key -> Enc], senc: [Owner -> Enc],
                crecord: [Key -> {"true", "false", "unset"}],
                cmds: [Owner -> Seq(STRING)], next: {<<>>} \cup (Owner \X Commands)]
      BY <1>0, <1>2, <2>4, Zenon DEF OptionTypes
    <3>3. work' \in Seq(CommandRow) /\ cache' \in [Key -> Enc \cup {"none"}]
      <4>1. cache' = cache
        BY <1>5
      <4> QED BY <1>0, <1>8, <2>2, <4>1 DEF OptionTypes
    <3> QED BY <3>1, <3>2, <3>3 DEF OptionTypes
  <2>8. GetServer(o) \in disk.server
    BY <1>0, <1>2, ServerIs, Zenon DEF fk
  <2>9. Tables'
    BY <1>0, <1>6, <2>5, <2>6, <2>8, Zenon DEF Tables, fk
  <2>10. CommandsWhole'
    <3> SUFFICES ASSUME NEW p \in Owner PROVE CommandsOf(disk.commands, p)' = asked'.cmds[p]
      BY DEF CommandsWhole
    <3> DEFINE id == GetServer(p).id
    <3>1. CommandsOf(disk.commands, p) = IF id = Unset THEN <<>> ELSE CmdsOf(disk.commands, id)
      BY <1>8, CommandsOfIs
    <3>2. CommandsOf(disk.commands, p)' = IF id = Unset THEN <<>> ELSE CmdsOf(work, id)
      <4>1. GetServer(p)'.id = id
        BY <1>6
      <4>2. Filter(work, {r \in Range(work) : r.fk = id}) = Filter(work, Of(id))
        <5> HIDE DEF id
        <5> QED BY <1>8, CommandRows, Zenon
      <4> HIDE DEF id
      <4> QED BY <2>5, <4>1, <4>2, ZenonT(30) DEF CommandsOf, CmdsOf
    <3>3. CommandsOf(disk.commands, p) = asked.cmds[p]
      BY <1>0 DEF OptionsStick, CommandsWhole
    <3>4. CASE p = o
      BY <1>0, <1>2, <2>5, <2>6, <3>2, <3>4, Zenon DEF OptionTypes, fk
    <3>5. CASE p # o
      <4>1. id # Unset => id # fk
        <5>1. id # Unset => GetServer(p) \in disk.server
          BY <1>0, ServerIs
        <5>2. GetServer(p).owner = p /\ GetServer(o).owner = o
          BY <1>0, <1>2, ServerIs, Zenon
        <5>3. \A q, r \in disk.server : q.id = r.id => q = r
          BY <1>0, Zenon DEF Tables, TableOK, IdsOK
        <5> QED BY <2>8, <3>5, <5>1, <5>2, <5>3 DEF fk
      <4>2. asked'.cmds[p] = asked.cmds[p]
        BY <1>0, <1>2, <2>5, <3>5, Zenon DEF OptionTypes
      <4> HIDE DEF id
      <4> QED BY <2>6, <3>1, <3>2, <3>3, <4>1, <4>2, Zenon
    <3> QED BY <3>4, <3>5
  <2>11. OptionsStick'
    BY <1>0, <1>6, <2>5, <2>10, StickSame
  <2>12. Idle' /\ work' = disk'.commands
    <3>1. SubSeq(R, j + 2, L + 2) = <<>>
      BY <1>4, <1>10
    <3> QED BY <1>5, <2>2, <2>5, <3>1, Zenon DEF Idle
  <2> QED BY <1>7, <2>7, <2>9, <2>11, <2>12, Zenon DEF OptionsInv
<1> QED BY <1>9, <1>10

-----------------------------------------------------------------------------
(* The other steps, and the theorems about the options.                    *)

\* The empty database.
LEMMA OptionsInit ==
  ASSUME Init
  PROVE  OptionsInv
<1>0. /\ disk = [global |-> {}, server |-> {}, channel |-> {}, commands |-> <<>>]
      /\ todo = <<>> /\ work = <<>> /\ cache = [k \in Key |-> "none"]
      /\ asked = [max |-> [o \in Owner |-> DefaultMax], record |-> [o \in Owner |-> "true"],
              enc |-> [k \in Key |-> Empty], senc |-> [o \in Owner |-> Empty],
              crecord |-> [k \in Key |-> "unset"], cmds |-> [o \in Owner |-> <<>>],
              next |-> <<>>]
  BY Zenon DEF Init, OInit
<1>1. /\ disk.global = {} /\ disk.server = {} /\ disk.channel = {} /\ disk.commands = <<>>
  BY <1>0
<1>2. DefaultMax \in Int /\ Empty \in Enc
  BY OptionsAssumptions, SMTT(20)
<1>3. OptionTypes
  <2>1. disk \in [global: SUBSET GlobalRow, server: SUBSET ServerRow,
                  channel: SUBSET ChannelRow, commands: Seq(CommandRow)]
    <3>1. <<>> \in Seq(CommandRow)
      OBVIOUS
    <3>2. disk = [global |-> {}, server |-> {}, channel |-> {}, commands |-> <<>>]
      BY <1>0, Zenon
    <3> QED BY ONLY <3>1, <3>2
  <2>2. asked \in [max: [Owner -> Int], record: [Owner -> {"true", "false"}],
                enc: [Key -> Enc], senc: [Owner -> Enc],
                crecord: [Key -> {"true", "false", "unset"}],
                cmds: [Owner -> Seq(STRING)], next: {<<>>} \cup (Owner \X Commands)]
    <3> DEFINE mx == [o \in Owner |-> DefaultMax]
               rc == [o \in Owner |-> "true"]
               en == [k \in Key |-> Empty]
               se == [o \in Owner |-> Empty]
               cr == [k \in Key |-> "unset"]
               cm == [o \in Owner |-> <<>>]
               NX == {<<>>} \cup (Owner \X Commands)
               CS == Seq(STRING)
    <3>1. /\ mx \in [Owner -> Int] /\ rc \in [Owner -> {"true", "false"}]
          /\ en \in [Key -> Enc] /\ se \in [Owner -> Enc]
          /\ cr \in [Key -> {"true", "false", "unset"}]
      BY ONLY <1>2
    <3>2. cm \in [Owner -> CS] /\ <<>> \in NX
      <4>1. <<>> \in CS
        OBVIOUS
      <4> HIDE DEF CS
      <4> QED BY ONLY <4>1
    <3>3. asked = [max |-> mx, record |-> rc, enc |-> en, senc |-> se, crecord |-> cr,
                   cmds |-> cm, next |-> <<>>]
      BY <1>0, Zenon
    <3> HIDE DEF mx, rc, en, se, cr, cm, NX, CS
    <3>4. asked \in [max: [Owner -> Int], record: [Owner -> {"true", "false"}],
                   enc: [Key -> Enc], senc: [Owner -> Enc],
                   crecord: [Key -> {"true", "false", "unset"}],
                   cmds: [Owner -> CS], next: NX]
      BY ONLY <3>1, <3>2, <3>3, Zenon
    <3> QED BY ONLY <3>4, Zenon DEF CS, NX
  <2> QED BY <1>0, <2>1, <2>2, Zenon DEF OptionTypes
<1>4. Tables
  <2>1. \A U, key : TableOK({}, U, key)
    BY DEF TableOK, IdsOK
  <2>2. Range(<<>>) = {}
    BY DEF Range
  <2> QED BY <1>1, <2>1, <2>2, Zenon DEF Tables
<1>5. \A d : Get({}, d) = d
  BY GetIs
<1>6. \A o \in Owner : /\ GetGlobal(o) = GlobalDefault(o) /\ GetServer(o) = ServerDefault(o)
                       /\ \A c \in Chan : GetChannel(o, c) = ChannelDefault(o, c)
  <2> TAKE o \in Owner
  <2>1. /\ {r \in disk.global : r.owner = o} = {} /\ {r \in disk.server : r.owner = o} = {}
        /\ \A c \in Chan : {r \in disk.channel : r.owner = o /\ r.chan = c} = {}
    BY <1>1, Zenon
  <2> QED BY <1>5, <2>1, Zenon DEF GetGlobal, GetServer, GetChannel, GlobalDefault,
                                   ServerDefault, ChannelDefault
<1>7. OptionsStick
  <2>1. CommandsWhole
    <3>1. \A o \in Owner : GetServer(o).id = Unset
      BY <1>6 DEF ServerDefault
    <3> QED BY <1>0, <3>1, Zenon DEF CommandsWhole, CommandsOf
  <2>2. ASSUME NEW o \in Owner
        PROVE  /\ GetGlobal(o).max = asked.max[o] /\ Flag(GetGlobal(o).record) = asked.record[o]
               /\ GetServer(o).enc = asked.senc[o]
    <3>1. Flag(TRUE) = "true"
      BY DEF Flag
    <3>2. GlobalDefault(o).record = TRUE /\ GlobalDefault(o).max = DefaultMax
      BY Zenon DEF GlobalDefault
    <3>3. asked.record[o] = "true" /\ asked.max[o] = DefaultMax /\ asked.senc[o] = Empty
      BY <1>0
    <3>4. /\ GetGlobal(o) = GlobalDefault(o) /\ GetServer(o) = ServerDefault(o)
          /\ ServerDefault(o).enc = Empty
      BY <1>6, Zenon DEF ServerDefault
    <3> QED BY <3>1, <3>2, <3>3, <3>4, Zenon
  <2>3. ASSUME NEW o \in Owner, NEW c \in Chan
        PROVE  /\ GetChannel(o, c).enc = asked.enc[<<o, c>>]
               /\ GetChannel(o, c).record = asked.crecord[<<o, c>>]
    <3>1. <<o, c>> \in Key
      BY DEF Key
    <3>2. asked.enc[<<o, c>>] = Empty /\ asked.crecord[<<o, c>>] = "unset"
      BY <1>0, <3>1
    <3>3. /\ GetChannel(o, c) = ChannelDefault(o, c)
          /\ ChannelDefault(o, c).enc = Empty /\ ChannelDefault(o, c).record = "unset"
      BY <1>6, Zenon DEF ChannelDefault
    <3> QED BY <3>2, <3>3, Zenon
  <2> QED BY <2>1, <2>2, <2>3, Zenon DEF OptionsStick
<1>8. CacheFresh
  BY <1>0 DEF CacheFresh, Key
<1> QED BY <1>0, <1>1, <1>3, <1>4, <1>7, <1>8 DEF OptionsInv, Idle

\* A step that leaves the database and what was asked alone, and puts in the
\* cache only what is read from the database.
LEMMA OptionsFrame ==
  ASSUME OptionsInv, disk' = disk, asked' = asked, CacheFresh',
         cache' \in [Key -> Enc \cup {"none"}],
         \/ todo' = todo /\ work' = work
         \/ todo' = <<>> /\ work' = disk.commands
  PROVE  OptionsInv'
<1>1. OptionTypes'
  <2>1. OptionTypes
    BY DEF OptionsInv
  <2>2. work' \in Seq(CommandRow)
    BY <2>1 DEF OptionTypes
  <2>3. /\ disk' \in [global: SUBSET GlobalRow, server: SUBSET ServerRow,
                     channel: SUBSET ChannelRow, commands: Seq(CommandRow)]
        /\ asked' \in [max: [Owner -> Int], record: [Owner -> {"true", "false"}],
                enc: [Key -> Enc], senc: [Owner -> Enc],
                crecord: [Key -> {"true", "false", "unset"}],
                cmds: [Owner -> Seq(STRING)], next: {<<>>} \cup (Owner \X Commands)]
    BY <2>1, Zenon DEF OptionTypes
  <2> QED BY <2>2, <2>3, Zenon DEF OptionTypes
<1>2. Tables' /\ OptionsStick'
  BY ZenonT(30) DEF OptionsInv, Tables, OptionsStick, CommandsWhole, CommandsOf, GetGlobal, GetServer,
         GetChannel
<1>3. CASE todo' = todo /\ work' = work
  BY <1>1, <1>2, <1>3, Zenon DEF OptionsInv, Idle, Underway, GetServer
<1>4. CASE todo' = <<>> /\ work' = disk.commands
  BY <1>1, <1>2, <1>4, Zenon DEF OptionsInv, Idle
<1> QED BY <1>3, <1>4

\* Every step keeps the invariant.
LEMMA OptionsStep ==
  ASSUME OptionsInv, [Next]_vars
  PROVE  OptionsInv'
<1>0. OptionTypes /\ CacheFresh /\ cache \in [Key -> Enc \cup {"none"}]
  BY Zenon DEF OptionsInv, OptionTypes
<1>1. ASSUME UNCHANGED <<disk, todo, work, cache, asked>>
      PROVE  OptionsInv'
  <2>1. CacheFresh'
    BY <1>0, <1>1, Zenon DEF CacheFresh, Encoding, WithServerDefault, GetServer, GetChannel
  <2> QED BY <1>0, <1>1, <2>1, OptionsFrame, Zenon
<1>2. CASE ONext /\ UNCHANGED <<log, joined, pending, limit>> /\ Quiet
  <2> USE <1>2
  <2>1. ASSUME NEW o \in Owner, NEW max \in MaxField, NEW record \in Bools \cup {"absent"},
               ConfigureGlobal(o, max, record)
        PROVE  OptionsInv'
    BY <2>1, ConfigureGlobalInv
  <2>2. ASSUME NEW o \in Owner, NEW enc \in Enc, NEW cmds \in Commands, ConfigureServer(o, enc, cmds)
        PROVE  OptionsInv'
    BY <2>2, ConfigureServerInv
  <2>3. ASSUME NEW o \in Owner, NEW c \in Chan, NEW enc \in Enc,
               NEW record \in Bools \cup {"unset", "absent"}, ConfigureChannel(o, c, enc, record)
        PROVE  OptionsInv'
    BY <2>3, ConfigureChannelInv
  <2>4. CASE Statement
    BY <2>4, StatementInv
  <2> QED BY <2>1, <2>2, <2>3, <2>4 DEF ONext
<1>3. ASSUME NEW o \in Owner, NEW c \in Chan, NEW d \in Dates, NEW nick \in BOOLEAN,
             OnChannelMessage(o, c, d, nick)
      PROVE  OptionsInv'
  <2>1. /\ UNCHANGED <<disk, todo, work, asked>>
        /\ cache' = [cache EXCEPT ![<<o, c>>] = CachedEncoding(o, c)]
    BY <1>3 DEF OnChannelMessage
  <2>2. CachedEncoding(o, c) \in {Encoding(o, c)}
    BY <1>0 DEF CachedEncoding, CacheFresh
  <2>3. Encoding(o, c) \in Enc
    <3>1. GetChannel(o, c).enc \in Enc /\ GetServer(o).enc \in Enc /\ "latin1" \in Enc
      <4>1. GetChannel(o, c).enc = asked.enc[<<o, c>>] /\ GetServer(o).enc = asked.senc[o]
        BY DEF OptionsInv, OptionsStick
      <4>2. <<o, c>> \in Key
        BY DEF Key
      <4> QED BY <1>0, <4>1, <4>2, OptionsAssumptions, SMTT(20) DEF OptionTypes
    <3> QED BY <3>1, Zenon DEF Encoding, WithServerDefault, FirstNonEmpty
  <2>4. cache' \in [Key -> Enc \cup {"none"}]
    BY <1>0, <2>1, <2>2, <2>3, Zenon
  <2>5. CacheFresh'
    <3> SUFFICES ASSUME NEW p \in Owner, NEW e \in Chan
                 PROVE  cache'[<<p, e>>] \in {"none", Encoding(p, e)'}
      BY Zenon DEF CacheFresh
    <3>1. Encoding(p, e)' = Encoding(p, e)
      BY <2>1, Zenon DEF Encoding, WithServerDefault, GetServer, GetChannel
    <3>2. <<p, e>> \in Key /\ cache[<<p, e>>] \in {"none", Encoding(p, e)}
      BY <1>0, Zenon DEF CacheFresh, Key
    <3>3. CASE p = o /\ e = c
      <4>1. cache'[<<p, e>>] = CachedEncoding(o, c)
        BY <1>0, <2>1, <3>2, <3>3, Zenon
      <4> QED BY <2>2, <3>1, <3>3, <4>1
    <3>4. CASE ~(p = o /\ e = c)
      <4>1. <<p, e>> # <<o, c>>
        BY <3>4
      <4>2. cache'[<<p, e>>] = cache[<<p, e>>]
        BY <1>0, <2>1, <3>2, <4>1
      <4> QED BY <3>1, <3>2, <4>2
    <3> QED BY <3>3, <3>4
  <2> QED BY <2>1, <2>4, <2>5, OptionsFrame, Zenon
<1>4. CASE Restart
  <2>1. /\ UNCHANGED <<disk, asked>> /\ todo' = <<>> /\ work' = disk.commands
        /\ cache' = [k \in Key |-> "none"]
    BY <1>4 DEF Restart, ORestart
  <2>2. CacheFresh' /\ cache' \in [Key -> Enc \cup {"none"}]
    BY <2>1, Zenon DEF CacheFresh, Key
  <2> QED BY <2>1, <2>2, OptionsFrame
<1>5. CASE \E o \in Owner, c \in Chan, h \in Limits : Join(o, c, h)
  BY <1>1, <1>5, Zenon DEF Join
<1>6. CASE \E o \in Owner, c \in Chan : CompletelyJoined(o, c)
  BY <1>1, <1>6, Zenon DEF CompletelyJoined, ovars
<1>7. CASE \E o \in Owner, c \in Chan, d \in Dates : SendChannelMessage(o, c, d)
  BY <1>1, <1>7 DEF SendChannelMessage
<1>8. CASE \E o \in Owner : Disconnected(o)
  BY <1>1, <1>8, Zenon DEF Disconnected
<1>9. CASE \E o \in Owner, c \in Chan, q \in Queries : WalkBegins(o, c, q)
  BY <1>1, <1>9 DEF WalkBegins
<1>10. CASE WalkGoesOn
  BY <1>1, <1>10 DEF WalkGoesOn, ovars
<1>11. CASE UNCHANGED vars
  BY <1>1, <1>11 DEF vars, ovars
<1> QED BY <1>2, <1>3, <1>4, <1>5, <1>6, <1>7, <1>8, <1>9, <1>10, <1>11, Zenon DEF Next

\* The options that are read are the ones that were last submitted, and the
\* after-connection commands those of the last transaction that was committed,
\* whatever is submitted and wherever the process stops: Save() never leaves
\* two rows for a key, and set_after_connection_commands() is atomic.
THEOREM OptionsAlwaysStick == Spec => []OptionsStick
<1>1. OptionsInv => OptionsStick
  BY DEF OptionsInv
<1>2. Spec => []OptionsInv
  BY OptionsInit, OptionsStep, PTL DEF Spec
<1> QED BY <1>1, <1>2, PTL

\* The encoding that is found in encoding_in_cache is the one the database
\* has: every form that changes one invalidates what was derived from it.
THEOREM CacheAlwaysFresh == Spec => []CacheFresh
<1>1. OptionsInv => CacheFresh
  BY DEF OptionsInv
<1>2. Spec => []OptionsInv
  BY OptionsInit, OptionsStep, PTL DEF Spec
<1> QED BY <1>1, <1>2, PTL
=============================================================================
