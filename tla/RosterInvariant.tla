-------------------------- MODULE RosterInvariant ---------------------------
(***************************************************************************)
(* What the proofs about the rosters keep true: the table has everybody    *)
(* that is subscribed, and what the stanzas in flight will make of each    *)
(* roster once they are read.                                              *)
(***************************************************************************)
EXTENDS Roster

\* No subscription is forgotten.
RosterInv == TypeOK /\ IsFiniteSet(items) /\ Carried /\ Remembered

\* The stanzas of tc that accept a subscription are about an element of it.
Accepts(tc, it) ==
  \A u \in Contact : \A k \in 1 .. Len(tc[u]) :
    tc[u][k].type = "subscribed" => <<tc[u][k].local, u>> \in it

\* x ends what a roster shows of j.
Ends(x, j) == x.local = j /\ x.type \in {"unavailable", "unsubscribed"}
Calm(q, j, n) == \A k \in n .. Len(q) : ~Ends(q[k], j)

\* x makes a roster show j, at once or when the answer to a probe is answered.
Begins(x, j) == x.local = j /\ (x.type = "available" \/ (j = Gateway /\ x.type = "probe"))

\* From position n on, q leaves j shown, or no longer subscribed to.
Settles(q, j, n) ==
  \E k \in n .. Len(q) :
    \/ Begins(q[k], j) /\ Calm(q, j, k + 1)
    \/ q[k].local = j /\ q[k].type = "unsubscribed"

\* Whoever becomes subscribed by q is told by the rest of it.
Followed(q, j) ==
  \A k \in 1 .. Len(q) : q[k].local = j /\ q[k].type = "subscribed" => Settles(q, j, k + 1)

\* x is answered with the presence of j, or with a refusal.
Asks(x, u, j) ==
  /\ x.local = j /\ x.remote = u
  /\ x.type \in {"subscribe", "probe"} \/ (j = Gateway /\ x.type = "available")
Asking(u, j) == \E k \in 1 .. Len(to_gateway) : Asks(to_gateway[k], u, j)

\* The JIDs that rosters have to show, and what makes the roster of u show j.
Speaks(u, j) ==
  /\ link /\ process = "running"
  /\ j # Gateway => ~silent /\ client[<<u, j>>] = "announced"
Due(u, j) ==
  (u \in here /\ j \in sub[u] /\ (j = Gateway => j \in allowed[u])) =>
    \/ Settles(to_contact[u], j, 1)
    \/ j \in shown[u] /\ Calm(to_contact[u], j, 1)
    \/ Asking(u, j)
Told == \A u \in Contact, j \in Local : Speaks(u, j) => Followed(to_contact[u], j) /\ Due(u, j)

\* q has a presence of s at position k.
Says(q, s, k) == q[k].local = s /\ q[k].type = "available"

\* A server without a client is not shown, or the end of it is in flight.
Hushed(u, s) ==
  client[<<u, s>>] = "none" =>
    /\ s \in shown[u] => ~Calm(to_contact[u], s, 1)
    /\ \A k \in 1 .. Len(to_contact[u]) :
         Says(to_contact[u], s, k) => ~Calm(to_contact[u], s, k + 1)

\* The servers that are shown, or about to be, are in the table: the end of
\* the connection is told to them.
Known(u, s) ==
  (s \in shown[u] \/ \E k \in 1 .. Len(to_contact[u]) : Says(to_contact[u], s, k))
    => <<s, u>> \in items

\* As long as nothing ended silently, the stream is there while the process is.
Orderly ==
  ~silent =>
    /\ link <=> process # "off"
    /\ \A k \in Contact \X Server : client[k] # "closed" /\ (~link => client[k] = "none")

\* What the rosters show once nothing is in flight.
ShownInv ==
  /\ Told /\ Orderly
  /\ \A u \in Contact, s \in Server : Known(u, s) /\ (~silent => Hushed(u, s))

\* The presence of one server, told to one contact that is in the table.
TellAdds(s, u, type) ==
  [v \in Contact |-> IF v = u /\ <<s, u>> \in items THEN <<Stanza(s, u, type)>> ELSE <<>>]

\* It is the last word about that server.
TellEffect(add, s, u, type) ==
  /\ add \in [Contact -> Seq(Stanzas)]
  /\ \A v \in Contact : to_contact'[v] = to_contact[v] \o add[v]
  /\ \A v \in Contact, i \in Local :
       /\ Followed(add[v], i)
       /\ (v # u \/ i # s \/ <<s, u>> \notin items) =>
            Calm(add[v], i, 1) /\ \A k \in 1 .. Len(add[v]) : ~Says(add[v], i, k)
  /\ <<s, u>> \in items =>
       /\ type = "available" => Settles(add[u], s, 1)
       /\ type = "unavailable" => ~Calm(add[u], s, 1)
                                  /\ \A k \in 1 .. Len(add[u]) : ~Says(add[u], s, k)

\* A stanza for each of some items: shutdown() and after_handshake().
TableAdds(I, type) ==
  [v \in Contact |-> SetToSeq({m \in {Stanza(i[1], i[2], type) : i \in I} : m.remote = v})]

\* It says the same of each of them.
TableEffect(add, I, type) ==
  /\ add \in [Contact -> Seq(Stanzas)]
  /\ \A v \in Contact : Lists({Stanza(i[1], i[2], type) : i \in I})[v] = to_contact[v] \o add[v]
  /\ \A v \in Contact : \A k \in 1 .. Len(add[v]) : add[v][k].type = type
  /\ \A v \in Contact, j \in Local : <<j, v>> \in I =>
       \E k \in 1 .. Len(add[v]) : add[v][k].local = j
=============================================================================
