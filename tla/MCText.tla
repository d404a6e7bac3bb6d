------------------------------- MODULE MCText -------------------------------
(* Instances of Text for TLC.                                              *)
EXTENDS Text, TLC

Bytes(S) == {<<c>> : c \in S}

\* Messages: a letter, a space, a colon, a line feed, "/me ", "/mode", and
\* characters of three and four bytes.
Messages == Bytes({97, 32, 58, 10})
            \cup {SlashMe, SlashMode, <<226, 130, 172>>, <<240, 159, 152, 128>>}

\* Names: a letter, "\\", "2", "0", "@", "/", "%", "#" and a space.
Names == Bytes({97, 92, 50, 48, 64, 47, 37, 35, 32})

\* Hosts: a letter, "-", "." and an underscore.
Hosts == Bytes({97, 45, 46, 95})

\* Text of IRC: bytes of each kind, as they come.  No string of them is the long
\* form of a codepoint that has a shorter one, or beyond the last codepoint.
Raw == Bytes({97, 127, 128, 191, 195, 226, 241})

\* Characters at the limits of what XML has, and next to them, "&" and "<".
Codes == Bytes({9, 31, 32, 38, 60}) \cup {<<38, 108, 116, 59>>} \cup
         { <<237, 159, 191>>, <<237, 160, 128>>, <<238, 128, 128>>, <<239, 191, 189>>,
           <<239, 191, 190>>, <<240, 144, 128, 128>>, <<244, 143, 191, 191>> }

\* Formatting codes: bold, underline, color, reset and line feed, a digit, a
\* letter, and a comma with a digit.
Formats == Bytes({Bold, Underline, Color, Reset, Newline, 49, 97}) \cup {<<Comma, 52>>}

MCAlphabets == [messages |-> Messages, names |-> Names, hosts |-> Hosts, raw |-> Raw,
                codes |-> Codes, formats |-> Formats]
MCMaxChars == [messages |-> 5, names |-> 4, hosts |-> 6, raw |-> 4, codes |-> 3, formats |-> 5]

MCNick == <<110>>
MCChan == <<35, 99>>
MCHost == <<105, 46, 111>>
MCGateway == <<103, 46, 111>>
=============================================================================
