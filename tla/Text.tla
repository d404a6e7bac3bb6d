-------------------------------- MODULE Text --------------------------------
(***************************************************************************)
(* The conversions of text between XMPP and IRC: lines and messages of     *)
(* IRC, the bodies of XMPP messages, UTF-8, the characters of XML, and the *)
(* names of channels and users in JIDs.  A string is a sequence of bytes,  *)
(* without a null one.                                                     *)
(*                                                                         *)
(* The inputs are the strings made of the characters of one alphabet; a    *)
(* step adds a character, and each property is about the current string.   *)
(***************************************************************************)
EXTENDS Integers, Sequences, FiniteSets, SequencesExt, FiniteSetsExt

CONSTANTS
  Alphabets,  \* sets of characters, each a string
  MaxChars,   \* bound: characters of an alphabet in a string
  MaxLines,   \* values for the maximum size of a line of IRC, which is 512
  Nick, Chan, Host, Gateway  \* a nick, a channel, an IRC server and the JID of the gateway

ASSUME TextAssumption ==
  /\ MaxLines \subseteq Nat
  /\ \A A \in DOMAIN Alphabets : MaxChars[A] \in Nat /\ Alphabets[A] \subseteq Seq(1 .. 255)

VARIABLES
  alphabet,  \* the alphabet of the string
  text,      \* the string
  length     \* its length in characters

vars == <<alphabet, text, length>>

Init == alphabet \in DOMAIN Alphabets /\ text = <<>> /\ length = 0

Next ==
  /\ length < MaxChars[alphabet]
  /\ \E c \in Alphabets[alphabet] : text' = text \o c
  /\ length' = length + 1
  /\ UNCHANGED alphabet

Spec == Init /\ [][Next]_vars

-----------------------------------------------------------------------------
(* Strings.                                                                *)

At(s, i) == IF i <= Len(s) THEN s[i] ELSE 0
Drop(s, n) == SubSeq(s, n + 1, Len(s))

\* find() of a character: its first position, or one past the end.
Find(s, C) ==
  LET i == SelectInSeq(s, LAMBDA c : c \in C) IN IF i = 0 THEN Len(s) + 1 ELSE i

\* utils::split(): the empty string after the last delimiter is no item.
RECURSIVE Split(_, _, _)
Split(s, delim, allow_empty) ==
  LET i == Find(s, {delim})
      item == SubSeq(s, 1, i - 1)
  IN  IF s = <<>> THEN <<>>
      ELSE (IF item = <<>> /\ ~allow_empty THEN <<>> ELSE <<item>>)
           \o Split(Drop(s, i), delim, allow_empty)

\* utils::tolower()
ToLower(s) == [i \in 1 .. Len(s) |-> IF s[i] \in 65 .. 90 THEN s[i] + 32 ELSE s[i]]

-----------------------------------------------------------------------------
(* UTF-8.                                                                  *)

\* get_next_codepoint_size()
CodepointSize(c) ==
  CASE c \div 8 = 30 -> 4
    [] c \div 16 = 14 -> 3
    [] c \div 32 = 6 -> 2
    [] OTHER -> 1

Continues(c) == c \div 64 = 2

\* is_valid_utf8()
RECURSIVE IsValidUtf8(_)
IsValidUtf8(s) ==
  s = <<>> \/ LET n == CodepointSize(s[1])
              IN  /\ n = 1 => s[1] < 128
                  /\ \A k \in 2 .. n : Continues(At(s, k))
                  /\ IsValidUtf8(Drop(s, n))

\* The codepoint at the beginning of a string.
Codepoint(s) ==
  LET n == CodepointSize(s[1])
      lead == CASE n = 4 -> s[1] % 8 [] n = 3 -> s[1] % 16 [] n = 2 -> s[1] % 32 [] n = 1 -> s[1]
  IN  FoldLeft(LAMBDA code, c : code * 64 + (c % 64), lead, SubSeq(s, 2, n))

\* The test of remove_invalid_xml_chars(); a codepoint of four bytes is kept in
\* a std::bitset<20>.
IsKept(s) ==
  LET c == Codepoint(s)
  IN  CASE CodepointSize(s[1]) = 4 -> c % 1048576 <= 1114111
        [] CodepointSize(s[1]) = 3 -> c <= 55295 \/ c \in 57344 .. 65533
        [] CodepointSize(s[1]) = 2 -> TRUE
        [] OTHER -> c \in {9, 10, 13} \/ c >= 32

\* remove_invalid_xml_chars(), of valid UTF-8.
RECURSIVE RemoveInvalidXmlChars(_)
RemoveInvalidXmlChars(s) ==
  IF s = <<>> THEN <<>>
  ELSE LET n == CodepointSize(s[1])
       IN  (IF IsKept(s) THEN SubSeq(s, 1, n) ELSE <<>>) \o RemoveInvalidXmlChars(Drop(s, n))

\* A mistaken cut(): the codepoints are not looked at.
MutWhole(val, size) == Min({size, Len(val)})

\* The inner loop of cut(): how many bytes of val, at most size, are whole
\* codepoints.
Whole(val, size) ==
  LET RECURSIVE Grow(_)
      Grow(s) == LET n == CodepointSize(At(val, s + 1))
                 IN  IF s + n <= size /\ s < Len(val) THEN Grow(s + n) ELSE s
  IN  Grow(0)

\* cut(), for a size of at least one codepoint.
RECURSIVE Cut(_, _)
Cut(val, size) ==
  IF val = <<>> THEN <<>>
  ELSE LET s == Whole(val, size)
       IN  <<SubSeq(val, 1, Min({s, Len(val)}))>> \o Cut(Drop(val, s), size)

\* xml_escape()
Entities == << <<38, <<38, 97, 109, 112, 59>> >>, <<60, <<38, 108, 116, 59>> >>,
               <<62, <<38, 103, 116, 59>> >>, <<34, <<38, 113, 117, 111, 116, 59>> >>,
               <<39, <<38, 97, 112, 111, 115, 59>> >> >>

XmlEscape(s) ==
  FlattenSeq([i \in 1 .. Len(s) |->
    LET k == SelectInSeq(Entities, LAMBDA e : e[1] = s[i])
    IN  IF k = 0 THEN <<s[i]>> ELSE Entities[k][2]])

-----------------------------------------------------------------------------
(* irc_format_to_xhtmlim(): the tree that is made of the formatting codes  *)
(* of IRC.                                                                 *)

Bold == 2
Color == 3
Newline == 10
Reset == 15
Italic == 29
Underline == 31
FormatCodes == {Bold, Color, Newline, Reset, 17, 18, 22, Italic, Underline}
Comma == 44
Digits == 48 .. 57
NumColors == 16

Plain == [strong |-> FALSE, underline |-> FALSE, italic |-> FALSE, fg |-> -1, bg |-> -1]
Element(name, style) ==
  [name |-> name, style |-> style, inner |-> <<>>, children |-> <<>>, tail |-> <<>>]

\* The number at the beginning of a string, of at most two digits.
NumberSize(s) == IF At(s, 1) \notin Digits THEN 0 ELSE IF At(s, 2) \notin Digits THEN 1 ELSE 2
Number(s) == IF NumberSize(s) = 0 THEN -1
             ELSE FoldLeft(LAMBDA n, c : 10 * n + c - 48, 0, SubSeq(s, 1, NumberSize(s)))

\* What follows the code of a color: its size and the two colors.
Colors(s) ==
  LET n == NumberSize(s)
      background == At(s, n + 1) = Comma
      after == Drop(s, n + 1)
  IN  [size |-> IF background THEN n + 1 + NumberSize(after) ELSE n,
       fg |-> Number(s), bg |-> IF background THEN Number(after) ELSE -1]

Restyled(styles, code, colors) ==
  CASE code = Bold -> [styles EXCEPT !.strong = ~@]
    [] code = Underline -> [styles EXCEPT !.underline = ~@]
    [] code = Italic -> [styles EXCEPT !.italic = ~@]
    [] code = Reset -> Plain
    [] code = Color -> [styles EXCEPT !.fg = colors.fg, !.bg = colors.bg]
    [] OTHER -> styles

\* The attribute of a span; none for Plain.
Css(styles) ==
  LET Name(color) == IF color = -1 THEN -1 ELSE color % NumColors
  IN  [styles EXCEPT !.fg = Name(@), !.bg = Name(@)]

AddText(node, txt) ==
  IF node.children = <<>> THEN [node EXCEPT !.inner = @ \o txt]
  ELSE [node EXCEPT !.children[Len(node.children)].tail = @ \o txt]
AddChild(node, child) == [node EXCEPT !.children = Append(@, child)]

\* The current node is the last of a stack of one or two: the body, and the
\* span that is open.
Current(stack, node) == Append(Front(stack), node)
Closed(stack) == IF Len(stack) = 1 THEN stack ELSE <<AddChild(stack[1], stack[2])>>

\* A mistaken loop: the span that is open is not closed before the next one.
MutOpened(stack, styles) ==
  IF styles = Plain THEN Closed(stack) ELSE <<stack[1], Element("span", Css(styles))>>

Opened(stack, styles) ==
  IF styles = Plain THEN Closed(stack) ELSE Append(Closed(stack), Element("span", Css(styles)))

RECURSIVE Format(_, _, _, _)
Format(s, stack, styles, cleaned) ==
  LET i == Find(s, FormatCodes)
      txt == SubSeq(s, 1, i - 1)
      texted == Current(stack, AddText(Last(stack), txt))
      broken == IF At(s, i) = Newline
                THEN Current(texted, AddChild(Last(texted), Element("br", Plain))) ELSE texted
      rest == Drop(s, i)
      colors == Colors(rest)
      restyled == Restyled(styles, At(s, i), colors)
  IN  IF i > Len(s) THEN [cleaned |-> cleaned \o txt, xhtml |-> Closed(texted)]
      ELSE Format(IF s[i] = Color THEN Drop(rest, colors.size) ELSE rest,
                  Opened(broken, restyled), restyled,
                  cleaned \o txt \o (IF s[i] = Newline THEN <<Newline>> ELSE <<>>))

IrcFormatToXhtmlim(s) ==
  IF Find(s, FormatCodes) > Len(s) THEN [cleaned |-> s, xhtml |-> <<>>]
  ELSE Format(s, <<Element("body", Plain)>>, Plain, <<>>)

-----------------------------------------------------------------------------
(* Lines of IRC.                                                           *)

Space == 32
Colon == 58
White == (9 .. 13) \cup {Space}

\* Whether actual_send() puts a colon before an argument.
IsTrailing(arg) == Contains(arg, Space) \/ At(arg, 1) = Colon

\* actual_send(): nothing is put after the first such argument.
Serialise(command, args) ==
  LET k == SelectInSeq(args, IsTrailing)
      plain == IF k = 0 THEN args ELSE SubSeq(args, 1, k - 1)
  IN  command \o FlattenSeq([i \in 1 .. Len(plain) |-> <<Space>> \o plain[i]])
              \o (IF k = 0 THEN <<>> ELSE <<Space, Colon>> \o args[k])

\* The constructor of IrcMessage from a line: operator>> skips white space and
\* reads a word, getline() reads what follows a colon.
SkipWhite(s) == Drop(s, Find(s, (1 .. 255) \ White) - 1)
Word(s) == SubSeq(SkipWhite(s), 1, Find(SkipWhite(s), White) - 1)
AfterWord(s) == Drop(SkipWhite(s), Len(Word(s)))

\* A mistaken loop: a colon is a character like another.
MutArguments(s) == Split(s, Space, FALSE)

RECURSIVE Arguments(_)
Arguments(s) ==
  LET t == SkipWhite(s)
      end == Find(t, {10})
  IN  IF t = <<>> THEN <<>>
      ELSE IF t[1] = Colon THEN <<SubSeq(t, 2, end - 1)>> \o Arguments(Drop(t, end))
      ELSE <<Word(t)>> \o Arguments(AfterWord(t))

IrcMessage(line) ==
  LET prefixed == At(line, 1) = Colon
      rest == IF prefixed THEN AfterWord(Tail(line)) ELSE line
  IN  [prefix |-> IF prefixed THEN Word(Tail(line)) ELSE <<>>,
       command |-> Word(rest),
       arguments |-> Arguments(AfterWord(rest))]

-----------------------------------------------------------------------------
(* The message of an XMPP user to a channel.                               *)

PRIVMSG == <<80>>  \* one letter stands for the name of a command
MODE == <<77>>
ActionPrefix == <<1, 65, 67, 84, 73, 79, 78, Space>>  \* "\01ACTION "
SlashMe == <<47, 109, 101, Space>>
SlashMode == <<47, 109, 111, 100, 101>>

\* IrcClient::send_channel_message(): what may be written in one message, so
\* that the server has room for ":nick!user@host" before it.
MaxUsername == 10
MaxHostname == 63
LineSize(max) == max - Len(Nick) - MaxUsername - MaxHostname - 12 - Len(Chan) - 4

SendChannelMessage(body, max) ==
  LET lines == Cut(body, LineSize(max))
  IN  [k \in 1 .. Len(lines) |-> [command |-> PRIVMSG, args |-> <<Chan, lines[k]>>]]

\* What Bridge::send_channel_message() makes of one line of the body.
LineMessages(line, max) ==
  CASE IsPrefix(SlashMode, line) ->
         <<[command |-> MODE, args |-> <<Chan>> \o Split(Drop(line, 5), Space, FALSE)]>>
    [] IsPrefix(SlashMe, line) ->
         SendChannelMessage(ActionPrefix \o Drop(line, 4) \o <<1>>, max)
    [] OTHER -> SendChannelMessage(line, max)

\* mirror_to_all_resources(): what the user sees of a message that was sent.
Mirrored(line) ==
  IF Len(line) > 8 /\ IsPrefix(Front(ActionPrefix), line) /\ Last(line) = 1
  THEN SlashMe \o SubSeq(line, 9, Len(line) - 1) ELSE line

-----------------------------------------------------------------------------
(* Names.                                                                  *)

\* xep0106::encode_map, in its order.
Escaped == << <<32, <<92, 50, 48>> >>, <<34, <<92, 50, 50>> >>, <<38, <<92, 50, 54>> >>,
              <<39, <<92, 50, 55>> >>, <<47, <<92, 50, 102>> >>, <<58, <<92, 51, 97>> >>,
              <<60, <<92, 51, 99>> >>, <<62, <<92, 51, 101>> >>, <<64, <<92, 52, 48>> >> >>

\* A mistaken encode(): "/" is not escaped.
MutEncode(s) ==
  FlattenSeq([i \in 1 .. Len(s) |->
    LET k == SelectInSeq(Escaped, LAMBDA e : e[1] = s[i] /\ e[1] # 47)
    IN  IF k = 0 THEN <<s[i]>> ELSE Escaped[k][2]])

\* xep0106::encode()
Encode(s) ==
  FlattenSeq([i \in 1 .. Len(s) |->
    LET k == SelectInSeq(Escaped, LAMBDA e : e[1] = s[i])
    IN  IF k = 0 THEN <<s[i]>> ELSE Escaped[k][2]])

\* The first position of a substring, or 0.
FindSub(s, sub) ==
  SelectInSeq([i \in 1 .. Len(s) |-> SubSeq(s, i, Min({i + Len(sub) - 1, Len(s)})) = sub],
              LAMBDA b : b)

RECURSIVE Unescape(_, _)
Unescape(s, e) ==
  LET i == FindSub(s, e[2])
  IN  IF i = 0 THEN s ELSE Unescape(SubSeq(s, 1, i - 1) \o <<e[1]>> \o Drop(s, i + 2), e)

\* xep0106::decode(): one character after the other.
Decode(s) == FoldLeft(Unescape, s, Escaped)

Percent == 37
ChanTypes == {35, 38}  \* "#&"

\* The constructor of Iid from a string, with and without fixed_irc_server.
Iid(s, fixed) ==
  LET sep == Find(s, {Percent})
      no_local == fixed = <<>> /\ sep > Len(s)
      local == IF no_local THEN <<>>
               ELSE Decode(ToLower(IF fixed = <<>> THEN SubSeq(s, 1, sep - 1) ELSE s))
      server == ToLower(IF fixed # <<>> THEN fixed ELSE IF no_local THEN s ELSE Drop(s, sep))
  IN  [local |-> local, server |-> server,
       type |-> CASE local = <<>> /\ (fixed # <<>> \/ server = <<>>) -> "None"
                  [] local = <<>> /\ no_local -> "Server"
                  [] local = <<>> -> "Channel"
                  [] local[1] \in ChanTypes -> "Channel"
                  [] OTHER -> "User"]

\* std::to_string(Iid)
IidToString(iid, fixed) ==
  IF fixed # <<>> THEN Encode(iid.local)
  ELSE IF iid.type = "Server" THEN iid.server
  ELSE IF iid.local = <<>> /\ iid.server = <<>> THEN <<>>
  ELSE Encode(iid.local) \o <<Percent>> \o iid.server

\* The constructor of Jid.
Jid(s) ==
  LET slash == Find(s, {47})
      at == Find(s, {64})
      has_local == at < slash
  IN  [local |-> IF has_local THEN SubSeq(s, 1, at - 1) ELSE <<>>,
       domain |-> SubSeq(s, IF has_local THEN at + 1 ELSE 1, slash - 1),
       resource |-> Drop(s, slash)]

\* jidprep(), the domain of a JID that is no IP address, after nameprep:
\* std::replace_if(), std::unique() and the removal at both ends.
Special == {45, 46}  \* "-."
Unique(s) ==
  FoldLeft(LAMBDA t, c : IF t # <<>> /\ Last(t) \in Special /\ c \in Special THEN t
                         ELSE Append(t, c), <<>>, s)

Trim(s) ==
  LET t == IF s # <<>> /\ Last(s) \in Special THEN Front(s) ELSE s
  IN  IF t # <<>> /\ t[1] \in Special THEN Tail(t) ELSE t

PrepDomain(s) ==
  LET allowed == (97 .. 122) \cup (48 .. 57) \cup Special
      t == Trim(Unique([i \in 1 .. Len(s) |-> IF s[i] \in allowed THEN s[i] ELSE 45]))
  IN  IF t = <<>> THEN <<101, 109, 112, 116, 121>> ELSE t

-----------------------------------------------------------------------------
(* Properties.                                                             *)

\* How the protocol reads the parameters of a line: words between spaces, and
\* all of the rest after a colon that begins a word.
Parameters(s) ==
  LET i == SelectInSeq([k \in 1 .. Len(s) |-> s[k] = Colon /\ (k = 1 \/ s[k - 1] = Space)],
                       LAMBDA b : b)
  IN  IF i = 0 THEN Split(s, Space, FALSE)
      ELSE Append(Split(SubSeq(s, 1, i - 1), Space, FALSE), Drop(s, i))

\* A line of a message to a channel reaches IRC whole: the server reads, in the
\* parameters of the messages that are sent, the text of the line and nothing
\* else; none of them breaks a character or gets too long when the server
\* relays it; and a line that was not cut is what the user is shown.  Of a
\* "/mode" the server reads the words.
LinesWhole ==
  \A max \in MaxLines : \A line \in ToSet(Split(text, 10, TRUE)) :
    IsValidUtf8(line) =>
      LET sent == LineMessages(line, max)
          words == Split(Drop(line, 5), Space, FALSE)
          whole == IF IsPrefix(SlashMe, line) THEN ActionPrefix \o Drop(line, 4) \o <<1>> ELSE line
          Read(k) == Parameters(Drop(Serialise(sent[k].command, sent[k].args), 1))
          relayed(k) == Len(Nick) + MaxUsername + MaxHostname + 12 + Len(Chan) + Len(Read(k)[2]) + 4
      IN  IF IsPrefix(SlashMode, line)
          THEN (\A w \in ToSet(words) : w[1] # Colon) => Read(1) = <<Chan>> \o words
          ELSE /\ \A k \in 1 .. Len(sent) :
                    /\ Len(Read(k)) = 2 /\ Read(k)[1] = Chan
                    /\ IsValidUtf8(Read(k)[2]) /\ relayed(k) <= max
               /\ FlattenSeq([k \in 1 .. Len(sent) |-> Read(k)[2]]) = whole
               /\ Len(sent) = 1 => Mirrored(Read(1)[2]) = line

\* A line of the server is read as the protocol says, with and without a prefix,
\* whatever the spaces and colons in it.
LineRead ==
  (\A c \in White \ {Space} : ~Contains(text, c)) =>
    \A prefix \in {<<>>, Host} :
      LET line == (IF prefix = <<>> THEN <<>> ELSE <<Colon>> \o prefix \o <<Space>>)
                  \o PRIVMSG \o <<Space>> \o text
      IN  IrcMessage(line) = [prefix |-> prefix, command |-> PRIVMSG,
                              arguments |-> Parameters(text)]

\* The JID made for a channel or a user of IRC is read back as the same channel
\* or user, with the nick in its resource, in both modes of the gateway.  The
\* name has no upper-case letter, nothing that looks like an escape, and no
\* separator unless the server is fixed.
NamesRoundTrip ==
  \A fixed \in {<<>>, Host} :
    (/\ text # <<>> /\ ToLower(text) = text
     /\ \A e \in ToSet(Escaped) : FindSub(text, e[2]) = 0
     /\ fixed = <<>> => ~Contains(text, Percent)) =>
      LET iid == [local |-> text, server |-> Host,
                  type |-> IF text[1] \in ChanTypes THEN "Channel" ELSE "User"]
          jid == Jid(IidToString(iid, fixed) \o <<64>> \o Gateway \o <<47>> \o text)
      IN  /\ Iid(jid.local, fixed) = iid
          /\ jid.domain = Gateway /\ jid.resource = text

\* The domain that jidprep() makes of the host of an IRC user is a host name:
\* not empty, of the allowed characters, no "-" or "." at its ends or next to
\* another; and one that is clean is left alone.
DomainPrepared ==
  LET domain == PrepDomain(text)
  IN  /\ domain # <<>> /\ domain[1] \notin Special /\ Last(domain) \notin Special
      /\ ToSet(domain) \subseteq (97 .. 122) \cup (48 .. 57) \cup Special
      /\ \A i \in 1 .. Len(domain) - 1 : ~({domain[i], domain[i + 1]} \subseteq Special)
      /\ PrepDomain(domain) = domain

\* Addresses that are made of IRC names are right.
AddressesRight == NamesRoundTrip /\ DomainPrepared

\* What is written into a stanza is the valid UTF-8 it was made from without
\* the characters that XML excludes, and only those.
RECURSIVE Characters(_)
Characters(s) ==
  IF s = <<>> THEN <<>>
  ELSE <<SubSeq(s, 1, CodepointSize(s[1]))>> \o Characters(Drop(s, CodepointSize(s[1])))

InXml(c) ==
  \/ Codepoint(c) \in {9, 10, 13}
  \/ \E range \in { <<32, 55295>>, <<57344, 65533>>, <<65536, 1114111>> } :
       range[1] <= Codepoint(c) /\ Codepoint(c) <= range[2]

XmlClean ==
  IsValidUtf8(text) =>
    /\ RemoveInvalidXmlChars(text) = FlattenSeq(SelectSeq(Characters(text), InXml))
    /\ IsValidUtf8(RemoveInvalidXmlChars(text))

\* The references of XML, as a parser reads them.
RECURSIVE XmlRead(_)
XmlRead(s) ==
  LET k == SelectInSeq(Entities, LAMBDA e : IsPrefix(e[2], s))
  IN  IF s = <<>> THEN <<>>
      ELSE IF k = 0 THEN <<s[1]>> \o XmlRead(Tail(s))
      ELSE <<Entities[k][1]>> \o XmlRead(Drop(s, Len(Entities[k][2])))

\* The characters of a tree in the order they are shown, each with its style.
RECURSIVE ShownIn(_, _)
ShownIn(node, style) ==
  LET Styled(txt) == [i \in 1 .. Len(txt) |-> <<txt[i], style>>]
      Child(c) == IF c.name = "br" THEN << <<Newline, style>> >> ELSE ShownIn(c, c.style)
  IN  Styled(node.inner)
      \o FlattenSeq([k \in 1 .. Len(node.children) |->
                       Child(node.children[k]) \o Styled(node.children[k].tail)])

\* What the codes mean.  A switch is on when there is an odd number of its code
\* since the last reset; a color is that of the last code of a color since.
StyleAt(i) ==
  LET Before(codes) == {j \in 1 .. i - 1 : text[j] \in codes}
      since == Max(Before({Reset}) \cup {0})
      On(code) == Cardinality({j \in Before({code}) : j > since}) % 2 = 1
      colored == Max({j \in Before({Color}) : j > since} \cup {0})
      colors == Colors(Drop(text, colored))
  IN  Css([strong |-> On(Bold), underline |-> On(Underline), italic |-> On(Italic),
           fg |-> IF colored = 0 THEN -1 ELSE colors.fg,
           bg |-> IF colored = 0 THEN -1 ELSE colors.bg])

\* The positions that are shown: no code, and no number of a color.
IsShown(i) ==
  /\ text[i] \notin FormatCodes \ {Newline}
  /\ \A j \in 1 .. i - 1 : text[j] = Color => i > j + Colors(Drop(text, j)).size

\* The formatting codes of IRC lose no text: the body is the text without them,
\* and the XHTML shows the same characters in the same order, each with the
\* styles that the codes before it have left on.
FormatKept ==
  LET shown == SelectSeq([i \in 1 .. Len(text) |-> i], IsShown)
      format == IrcFormatToXhtmlim(text)
  IN  /\ format.cleaned = [k \in 1 .. Len(shown) |-> text[shown[k]]]
      /\ format.xhtml # <<>> =>
           ShownIn(format.xhtml[1], Plain)
             = [k \in 1 .. Len(shown) |-> <<text[shown[k]], StyleAt(shown[k])>>]

\* What the XMPP client is shown of a message is right: XmlClean, FormatKept,
\* and what is escaped for XML is read back.
BodiesRight == XmlClean /\ FormatKept /\ XmlRead(XmlEscape(text)) = text
=============================================================================
