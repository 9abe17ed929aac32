------------------------- MODULE TLoEDelivery_proofs -------------------------
(***************************************************************************)
(* The pair of endpoints implements a remote memory.  What joins them is    *)
(* one pipeline per direction and kind of message: the messages not yet     *)
(* handled by the receiver, those in the frames it has not accepted, the    *)
(* one the sender holds and those queued behind it are, in this order and   *)
(* among messages of other kinds, exactly those still to be delivered.      *)
(***************************************************************************)
EXTENDS TLoEEndpoint_proofs

-----------------------------------------------------------------------------
(***************************************************************************)
(* Stretches of a pipeline                                                  *)
(***************************************************************************)
\* The elements of s that are in K are those of items after the first from
\* of them, up to number to; at counts them.
Run(s, K, from, to, items) ==
    \E at \in [0 .. Len(s) -> Nat] :
        /\ at[0] = from /\ at[Len(s)] = to
        /\ \A i \in 1 .. Len(s) :
              /\ s[i] \in K => /\ at[i] = at[i - 1] + 1
                               /\ at[i] \in DOMAIN items /\ s[i] = items[at[i]]
              /\ s[i] \notin K => at[i] = at[i - 1]

LEMMA RunEmpty ==
  ASSUME NEW K, NEW from \in Nat, NEW items
  PROVE  Run(<<>>, K, from, from, items)
<1> DEFINE at == [i \in 0 .. 0 |-> from]
<1>1. Len(<<>>) = 0 /\ 1 .. 0 = {}
  BY SMT
<1>2. at \in [0 .. 0 -> Nat] /\ at[0] = from
  BY SMT
<1> HIDE DEF at
<1> QED
  BY <1>1, <1>2 DEF Run

LEMMA RunAppend ==
  ASSUME NEW S, NEW s \in Seq(S), NEW m \in S, NEW K, NEW from \in Nat, NEW to \in Nat,
         NEW items, Run(s, K, from, to, items),
         NEW new \in Nat,
         m \in K => new = to + 1 /\ new \in DOMAIN items /\ m = items[new],
         m \notin K => new = to
  PROVE  Run(Append(s, m), K, from, new, items)
<1> DEFINE longer == Append(s, m)
<1>1. PICK at \in [0 .. Len(s) -> Nat] :
        /\ at[0] = from /\ at[Len(s)] = to
        /\ \A i \in 1 .. Len(s) :
              /\ s[i] \in K => /\ at[i] = at[i - 1] + 1
                               /\ at[i] \in DOMAIN items /\ s[i] = items[at[i]]
              /\ s[i] \notin K => at[i] = at[i - 1]
  BY DEF Run
<1>2. /\ Len(longer) = Len(s) + 1 /\ Len(s) \in Nat
      /\ \A i \in 1 .. Len(s) : longer[i] = s[i]
      /\ longer[Len(s) + 1] = m
  BY AppendProperties, LenProperties
<1> HIDE DEF longer
<1> DEFINE on == [i \in 0 .. Len(s) + 1 |-> IF i = Len(s) + 1 THEN new ELSE at[i]]
<1>3. on \in [0 .. Len(longer) -> Nat]
  <2>1. \A i \in 0 .. Len(s) + 1 : i = Len(s) + 1 \/ i \in 0 .. Len(s)
    BY <1>2, SMT
  <2> QED
    BY <1>2, <2>1
<1>4. /\ on[Len(s) + 1] = new /\ \A i \in 0 .. Len(s) : on[i] = at[i]
      /\ Len(s) \in 0 .. Len(s) /\ 0 \in 0 .. Len(s)
      /\ \A i \in 1 .. Len(s) : i \in 0 .. Len(s) /\ i - 1 \in 0 .. Len(s)
  BY <1>2, SMT
<1> HIDE DEF on
<1>5. on[0] = from /\ on[Len(longer)] = new
  BY <1>1, <1>2, <1>4
<1>6. ASSUME NEW i \in 1 .. Len(longer)
      PROVE  /\ longer[i] \in K => /\ on[i] = on[i - 1] + 1
                                   /\ on[i] \in DOMAIN items /\ longer[i] = items[on[i]]
             /\ longer[i] \notin K => on[i] = on[i - 1]
  <2>1. CASE i = Len(s) + 1
    <3>1. i - 1 = Len(s)
      BY <1>2, <2>1, SMT
    <3>2. longer[i] = m /\ on[i] = new /\ on[i - 1] = to
      BY <1>1, <1>2, <1>4, <2>1, <3>1
    <3> QED
      BY <3>2
  <2>2. CASE i # Len(s) + 1
    <3>1. i \in 1 .. Len(s)
      BY <1>2, <2>2, SMT
    <3>2. longer[i] = s[i] /\ on[i] = at[i] /\ on[i - 1] = at[i - 1]
      BY <1>2, <1>4, <3>1
    <3> QED
      BY <1>1, <3>1, <3>2
  <2> QED
    BY <2>1, <2>2
<1> QED
  BY <1>3, <1>5, <1>6 DEF Run, longer

LEMMA RunTail ==
  ASSUME NEW S, NEW s \in Seq(S), s # <<>>, NEW K, NEW from \in Nat, NEW to, NEW items,
         Run(s, K, from, to, items)
  PROVE  /\ Head(s) \in K => /\ from + 1 \in DOMAIN items /\ Head(s) = items[from + 1]
                             /\ Run(Tail(s), K, from + 1, to, items)
         /\ Head(s) \notin K => Run(Tail(s), K, from, to, items)
<1> DEFINE t == Tail(s)
<1>1. PICK at \in [0 .. Len(s) -> Nat] :
        /\ at[0] = from /\ at[Len(s)] = to
        /\ \A i \in 1 .. Len(s) :
              /\ s[i] \in K => /\ at[i] = at[i - 1] + 1
                               /\ at[i] \in DOMAIN items /\ s[i] = items[at[i]]
              /\ s[i] \notin K => at[i] = at[i - 1]
  BY DEF Run
<1>2. /\ Head(s) = s[1] /\ Len(t) = Len(s) - 1
      /\ \A i \in 1 .. Len(t) : t[i] = s[i + 1]
  BY HeadTailProperties
<1>3. Len(s) \in Nat /\ Len(t) \in Nat
  BY HeadTailProperties, LenProperties
<1> HIDE DEF t
<1> DEFINE on == [i \in 0 .. Len(t) |-> at[i + 1]]
<1>4. /\ \A i \in 0 .. Len(t) : i + 1 \in 0 .. Len(s)
      /\ \A i \in 1 .. Len(t) : /\ i \in 0 .. Len(t) /\ i - 1 \in 0 .. Len(t)
                                /\ i + 1 \in 1 .. Len(s) /\ i - 1 + 1 = i + 1 - 1
      /\ 0 \in 0 .. Len(t) /\ Len(t) \in 0 .. Len(t) /\ Len(t) + 1 = Len(s)
      /\ 1 \in 1 .. Len(s) /\ 1 - 1 = 0 /\ 0 + 1 = 1
  BY <1>2, <1>3, SMT
<1>5. on \in [0 .. Len(t) -> Nat] /\ \A i \in 0 .. Len(t) : on[i] = at[i + 1]
  BY <1>4
<1> HIDE DEF on
<1>6. on[0] = at[1] /\ on[Len(t)] = to
  BY <1>1, <1>4, <1>5
<1>7. ASSUME NEW i \in 1 .. Len(t)
      PROVE  /\ t[i] \in K => /\ on[i] = on[i - 1] + 1
                              /\ on[i] \in DOMAIN items /\ t[i] = items[on[i]]
             /\ t[i] \notin K => on[i] = on[i - 1]
  <2>1. t[i] = s[i + 1] /\ on[i] = at[i + 1] /\ on[i - 1] = at[i + 1 - 1]
    BY <1>2, <1>4, <1>5
  <2>2. i + 1 \in 1 .. Len(s)
    BY <1>4
  <2> QED
    BY <1>1, <2>1, <2>2
<1>8. Run(t, K, at[1], to, items)
  BY <1>5, <1>6, <1>7 DEF Run
<1> QED
  BY <1>1, <1>2, <1>4, <1>8 DEF t

\* Items are only ever added at the end.
LEMMA RunKept ==
  ASSUME NEW s, NEW K, NEW from, NEW to, NEW S, NEW items \in Seq(S), NEW m \in S,
         Run(s, K, from, to, items)
  PROVE  Run(s, K, from, to, Append(items, m))
<1> DEFINE more == Append(items, m)
<1>1. /\ Len(more) = Len(items) + 1 /\ \A i \in 1 .. Len(items) : more[i] = items[i]
      /\ DOMAIN items = 1 .. Len(items) /\ DOMAIN more = 1 .. Len(more) /\ Len(items) \in Nat
  BY AppendProperties, LenProperties
<1> HIDE DEF more
<1>2. \A i \in DOMAIN items : i \in DOMAIN more /\ more[i] = items[i]
  BY <1>1, SMT
<1>3. PICK at \in [0 .. Len(s) -> Nat] :
        /\ at[0] = from /\ at[Len(s)] = to
        /\ \A i \in 1 .. Len(s) :
              /\ s[i] \in K => /\ at[i] = at[i - 1] + 1
                               /\ at[i] \in DOMAIN items /\ s[i] = items[at[i]]
              /\ s[i] \notin K => at[i] = at[i - 1]
  BY DEF Run
<1>4. \A i \in 1 .. Len(s) :
         /\ s[i] \in K => /\ at[i] = at[i - 1] + 1
                          /\ at[i] \in DOMAIN more /\ s[i] = more[at[i]]
         /\ s[i] \notin K => at[i] = at[i - 1]
  BY <1>2, <1>3
<1> QED
  BY <1>3, <1>4 DEF Run, more

-----------------------------------------------------------------------------
(***************************************************************************)
(* The pipeline                                                             *)
(***************************************************************************)
\* From the receiver's end: in are the messages it has accepted, under those
\* under way, held the sender's request_tlmsg and queue its queue of this kind;
\* from of the items have been delivered.
Cut(a, b, c, K, in, under, held, queue, from, items) ==
    /\ Run(in, K, from, a, items)
    /\ Run(under, K, a, b, items)
    /\ held \in K => c = b + 1 /\ c \in DOMAIN items /\ held = items[c]
    /\ held \notin K => c = b
    /\ Len(items) = c + Len(queue)
    /\ \A i \in 1 .. Len(queue) : queue[i] = items[c + i]

Chain(K, in, under, held, queue, from, items) ==
    \E a, b, c \in Nat : Cut(a, b, c, K, in, under, held, queue, from, items)

\* A message is queued (read_memory, write_memory, handle_A_*).
LEMMA ChainQueue ==
  ASSUME NEW S, NEW K, NEW in, NEW under, NEW held, NEW queue \in Seq(S), NEW from,
         NEW items \in Seq(S), NEW m \in S, Chain(K, in, under, held, queue, from, items)
  PROVE  Chain(K, in, under, held, Append(queue, m), from, Append(items, m))
<1> DEFINE more == Append(items, m)
           longer == Append(queue, m)
<1>1. PICK a, b, c \in Nat : Cut(a, b, c, K, in, under, held, queue, from, items)
  BY DEF Chain
<1>2. Run(in, K, from, a, more) /\ Run(under, K, a, b, more)
  BY <1>1, RunKept DEF Cut
<1>3. /\ Len(more) = Len(items) + 1 /\ \A i \in 1 .. Len(items) : more[i] = items[i]
      /\ more[Len(items) + 1] = m
      /\ Len(longer) = Len(queue) + 1 /\ \A i \in 1 .. Len(queue) : longer[i] = queue[i]
      /\ longer[Len(queue) + 1] = m
      /\ DOMAIN items = 1 .. Len(items) /\ DOMAIN more = 1 .. Len(more)
      /\ Len(items) \in Nat /\ Len(queue) \in Nat
  BY AppendProperties, LenProperties
<1> HIDE DEF more, longer
<1>4. \A i \in DOMAIN items : i \in DOMAIN more /\ more[i] = items[i]
  BY <1>3, SMT
<1>5. Len(more) = c + Len(longer) /\ Len(items) = c + Len(queue)
  BY <1>1, <1>3, SMT DEF Cut
<1>6. ASSUME NEW i \in 1 .. Len(longer) PROVE longer[i] = more[c + i]
  <2>1. CASE i = Len(queue) + 1
    <3>1. c + i = Len(items) + 1
      BY <1>3, <1>5, <2>1, SMT
    <3> QED
      BY <1>3, <2>1, <3>1
  <2>2. CASE i # Len(queue) + 1
    <3>1. i \in 1 .. Len(queue) /\ c + i \in 1 .. Len(items)
      BY <1>3, <1>5, <2>2, SMT
    <3> QED
      BY <1>1, <1>3, <3>1 DEF Cut
  <2> QED
    BY <2>1, <2>2
<1>7. Cut(a, b, c, K, in, under, held, longer, from, more)
  BY <1>1, <1>2, <1>4, <1>5, <1>6 DEF Cut
<1> QED
  BY <1>7 DEF Chain, more, longer

\* The sender takes the oldest queued message (select_buffer) ...
LEMMA ChainSelect ==
  ASSUME NEW S, NEW K, NEW in, NEW under, NEW held, held \notin K,
         NEW queue \in Seq(S), queue # <<>>, Head(queue) \in K, NEW from,
         NEW items \in Seq(S), Chain(K, in, under, held, queue, from, items)
  PROVE  Chain(K, in, under, Head(queue), Tail(queue), from, items)
<1> DEFINE rest == Tail(queue)
           m == Head(queue)
<1>1. PICK a, b, c \in Nat : Cut(a, b, c, K, in, under, held, queue, from, items)
  BY DEF Chain
<1>2. /\ m = queue[1] /\ Len(rest) = Len(queue) - 1
      /\ \A i \in 1 .. Len(rest) : rest[i] = queue[i + 1]
      /\ DOMAIN items = 1 .. Len(items) /\ Len(items) \in Nat
      /\ Len(queue) \in Nat /\ Len(rest) \in Nat
  BY HeadTailProperties, LenProperties
<1> HIDE DEF rest, m
<1>3. /\ c = b /\ Len(items) = c + Len(queue)
      /\ \A i \in 1 .. Len(queue) : queue[i] = items[c + i]
  BY <1>1 DEF Cut
<1>4. /\ 1 \in 1 .. Len(queue) /\ c + 1 \in 1 .. Len(items) /\ c + 1 \in Nat /\ c + 1 = b + 1
      /\ Len(items) = c + 1 + Len(rest)
      /\ \A i \in 1 .. Len(rest) : i + 1 \in 1 .. Len(queue) /\ c + 1 + i = c + (i + 1)
  BY <1>2, <1>3, SMT
<1>5. m = items[c + 1]
  BY <1>2, <1>3, <1>4
<1>6. \A i \in 1 .. Len(rest) : rest[i] = items[c + 1 + i]
  BY <1>2, <1>3, <1>4
<1>7. m \in K
  BY DEF m
<1>8. Cut(a, b, c + 1, K, in, under, m, rest, from, items)
  BY <1>1, <1>2, <1>4, <1>5, <1>6, <1>7 DEF Cut
<1> QED
  BY <1>4, <1>8 DEF Chain, rest, m

\* ... which makes no difference to messages of another kind.
LEMMA ChainOther ==
  ASSUME NEW K, NEW in, NEW under, NEW held, NEW other, held \notin K, other \notin K,
         NEW queue, NEW from, NEW items, Chain(K, in, under, held, queue, from, items)
  PROVE  Chain(K, in, under, other, queue, from, items)
  BY DEF Chain, Cut

\* A frame is sent: with the message held, or without one (TX).
LEMMA ChainSend ==
  ASSUME NEW S, NEW K, NEW in, NEW under \in Seq(S), NEW held \in S, NEW queue, NEW from,
         NEW items, Chain(K, in, under, held, queue, from, items), NEW none, none \notin K
  PROVE  Chain(K, in, Append(under, held), none, queue, from, items)
<1>1. PICK a, b, c \in Nat : Cut(a, b, c, K, in, under, held, queue, from, items)
  BY DEF Chain
<1>2. Run(Append(under, held), K, a, c, items)
  BY <1>1, RunAppend DEF Cut
<1>3. Cut(a, c, c, K, in, Append(under, held), none, queue, from, items)
  BY <1>1, <1>2 DEF Cut
<1> QED
  BY <1>3 DEF Chain

LEMMA ChainSendNone ==
  ASSUME NEW S, NEW K, NEW in, NEW under \in Seq(S), NEW held, NEW queue, NEW from,
         NEW items, Chain(K, in, under, held, queue, from, items),
         NEW none \in S, none \notin K
  PROVE  Chain(K, in, Append(under, none), held, queue, from, items)
<1>1. PICK a, b, c \in Nat : Cut(a, b, c, K, in, under, held, queue, from, items)
  BY DEF Chain
<1>2. Run(Append(under, none), K, a, b, items)
  BY <1>1, RunAppend DEF Cut
<1>3. Cut(a, b, c, K, in, Append(under, none), held, queue, from, items)
  BY <1>1, <1>2 DEF Cut
<1> QED
  BY <1>3 DEF Chain

\* The expected frame is accepted, and its message, if any, kept (RX).
LEMMA ChainAccept ==
  ASSUME NEW S, NEW K, NEW in \in Seq(S), NEW under \in Seq(S), under # <<>>, NEW held,
         NEW queue, NEW from \in Nat, NEW items,
         Chain(K, in, under, held, queue, from, items)
  PROVE  /\ Chain(K, Append(in, Head(under)), Tail(under), held, queue, from, items)
         /\ Head(under) \notin K => Chain(K, in, Tail(under), held, queue, from, items)
<1> DEFINE m == Head(under)
<1>1. PICK a, b, c \in Nat : Cut(a, b, c, K, in, under, held, queue, from, items)
  BY DEF Chain
<1>2. m \in S
  BY HeadTailProperties
<1>3. /\ m \in K => /\ a + 1 \in DOMAIN items /\ m = items[a + 1]
                    /\ Run(Tail(under), K, a + 1, b, items)
      /\ m \notin K => Run(Tail(under), K, a, b, items)
  BY <1>1, RunTail DEF Cut
<1>4. Run(in, K, from, a, items)
  BY <1>1 DEF Cut
<1> HIDE DEF m
<1>5. CASE m \in K
  <2>1. a + 1 \in Nat
    OBVIOUS
  <2>2. Run(Append(in, m), K, from, a + 1, items)
    BY <1>2, <1>3, <1>4, <1>5, <2>1, RunAppend
  <2>3. Cut(a + 1, b, c, K, Append(in, m), Tail(under), held, queue, from, items)
    BY <1>1, <1>3, <1>5, <2>2 DEF Cut
  <2>4. Chain(K, Append(in, m), Tail(under), held, queue, from, items)
    BY <2>1, <2>3 DEF Chain
  <2> QED
    BY <1>5, <2>4 DEF m
<1>6. CASE m \notin K
  <2>1. Run(Append(in, m), K, from, a, items)
    BY <1>2, <1>4, <1>6, RunAppend
  <2>2. /\ Cut(a, b, c, K, Append(in, m), Tail(under), held, queue, from, items)
        /\ Cut(a, b, c, K, in, Tail(under), held, queue, from, items)
    BY <1>1, <1>3, <1>6, <2>1 DEF Cut
  <2>3. /\ Chain(K, Append(in, m), Tail(under), held, queue, from, items)
        /\ Chain(K, in, Tail(under), held, queue, from, items)
    BY <2>2 DEF Chain
  <2> QED
    BY <2>3 DEF m
<1> QED
  BY <1>5, <1>6

\* The oldest message is handled: one of this kind is the next to be delivered.
LEMMA ChainHandle ==
  ASSUME NEW S, NEW K, NEW in \in Seq(S), in # <<>>, NEW under, NEW held,
         NEW queue, NEW from \in Nat, NEW items,
         Chain(K, in, under, held, queue, from, items)
  PROVE  /\ Head(in) \in K => /\ from + 1 \in DOMAIN items /\ Head(in) = items[from + 1]
                              /\ Chain(K, Tail(in), under, held, queue, from + 1, items)
         /\ Head(in) \notin K => Chain(K, Tail(in), under, held, queue, from, items)
<1>1. PICK a, b, c \in Nat : Cut(a, b, c, K, in, under, held, queue, from, items)
  BY DEF Chain
<1>2. /\ Head(in) \in K => /\ from + 1 \in DOMAIN items /\ Head(in) = items[from + 1]
                           /\ Run(Tail(in), K, from + 1, a, items)
      /\ Head(in) \notin K => Run(Tail(in), K, from, a, items)
  BY <1>1, RunTail DEF Cut
<1>3. CASE Head(in) \in K
  <2>1. Cut(a, b, c, K, Tail(in), under, held, queue, from + 1, items)
    BY <1>1, <1>2, <1>3 DEF Cut
  <2> QED
    BY <1>2, <1>3, <2>1 DEF Chain
<1>4. CASE Head(in) \notin K
  <2>1. Cut(a, b, c, K, Tail(in), under, held, queue, from, items)
    BY <1>1, <1>2, <1>4 DEF Cut
  <2> QED
    BY <1>4, <2>1 DEF Chain
<1> QED
  BY <1>3, <1>4

-----------------------------------------------------------------------------
(***************************************************************************)
(* The messages in the frames still to be accepted                          *)
(***************************************************************************)
\* Those of the last n frames of the window.
UnderWay(buffer, n) ==
    [i \in 1 .. n |-> buffer[Len(buffer) - n + i].tlmsg]

Cargo == TLMsg \cup {NoMsg}

LEMMA UnderWayType ==
  ASSUME NEW buffer \in Seq(Element), NEW n \in Nat, n <= Len(buffer)
  PROVE  /\ UnderWay(buffer, n) \in Seq(Cargo) /\ Len(UnderWay(buffer, n)) = n
         /\ \A i \in 1 .. n : UnderWay(buffer, n)[i] = buffer[Len(buffer) - n + i].tlmsg
<1> DEFINE cargo(i) == buffer[Len(buffer) - n + i].tlmsg
<1>1. Len(buffer) \in Nat
  BY LenProperties
<1>2. ASSUME NEW i \in 1 .. n PROVE cargo(i) \in Cargo
  <2>1. Len(buffer) - n + i \in 1 .. Len(buffer)
    BY <1>1, SMT
  <2>2. buffer[Len(buffer) - n + i] \in Element
    BY <2>1, ElementOfSeq
  <2> QED
    BY <2>2 DEF Element, Cargo
<1>3. UnderWay(buffer, n) = [i \in 1 .. n |-> cargo(i)]
  BY DEF UnderWay
<1> HIDE DEF cargo
<1>4. UnderWay(buffer, n) \in Seq(Cargo)
  BY <1>2, <1>3, IsASeq
<1>5. DOMAIN UnderWay(buffer, n) = 1 .. n
  BY <1>3
<1>6. Len(UnderWay(buffer, n)) = n
  <2> DEFINE u == UnderWay(buffer, n)
  <2>1. Len(u) \in Nat /\ DOMAIN u = 1 .. Len(u)
    BY <1>4, LenProperties
  <2> HIDE DEF u
  <2>2. DOMAIN u = 1 .. n
    BY <1>5 DEF u
  <2>3. \A k \in Nat : 1 .. k = 1 .. n => k = n
    <3> SUFFICES ASSUME NEW k \in Nat, 1 .. k = 1 .. n PROVE k = n
      OBVIOUS
    <3>1. /\ k # 0 => k \in 1 .. k
          /\ n # 0 => n \in 1 .. n
      BY SMT
    <3>2. /\ k # 0 => k \in 1 .. n
          /\ n # 0 => n \in 1 .. k
      BY <3>1
    <3> QED
      BY <3>2, SMT
  <2>4. Len(u) = n
    BY <2>1, <2>2, <2>3
  <2> QED
    BY <2>4 DEF u
<1> QED
  BY <1>3, <1>4, <1>6 DEF cargo

\* A frame sent goes to their end (TX) ...
LEMMA UnderWayGrows ==
  ASSUME NEW buffer \in Seq(Element), NEW n \in Nat, n <= Len(buffer), NEW x \in Element
  PROVE  UnderWay(Append(buffer, x), n + 1) = Append(UnderWay(buffer, n), x.tlmsg)
<1> DEFINE longer == Append(buffer, x)
           u == UnderWay(buffer, n)
           v == UnderWay(longer, n + 1)
<1>1. /\ longer \in Seq(Element) /\ Len(longer) = Len(buffer) + 1 /\ Len(buffer) \in Nat
      /\ \A i \in 1 .. Len(buffer) : longer[i] = buffer[i]
      /\ longer[Len(buffer) + 1] = x
  BY AppendProperties, LenProperties
<1>2. /\ u \in Seq(Cargo) /\ Len(u) = n
      /\ \A i \in 1 .. n : u[i] = buffer[Len(buffer) - n + i].tlmsg
  BY UnderWayType
<1> HIDE DEF longer
<1>3. /\ v \in Seq(Cargo) /\ Len(v) = n + 1
      /\ \A i \in 1 .. n + 1 : v[i] = longer[Len(longer) - (n + 1) + i].tlmsg
  <2>1. n + 1 \in Nat /\ n + 1 <= Len(longer)
    BY <1>1, SMT
  <2> QED
    BY <1>1, <2>1, UnderWayType
<1>4. x.tlmsg \in Cargo
  BY DEF Element, Cargo
<1> DEFINE w == Append(u, x.tlmsg)
<1>5. /\ w \in Seq(Cargo) /\ Len(w) = n + 1
      /\ \A i \in 1 .. n : w[i] = u[i]
      /\ w[n + 1] = x.tlmsg
  BY <1>2, <1>4, AppendProperties
<1> HIDE DEF u, v, w
<1>6. ASSUME NEW i \in 1 .. n + 1 PROVE v[i] = w[i]
  <2>1. CASE i = n + 1
    <3>1. Len(longer) - (n + 1) + i = Len(buffer) + 1
      BY <1>1, <2>1, SMT
    <3> QED
      BY <1>1, <1>3, <1>5, <2>1, <3>1
  <2>2. CASE i # n + 1
    <3>1. /\ i \in 1 .. n /\ Len(longer) - (n + 1) + i = Len(buffer) - n + i
          /\ Len(buffer) - n + i \in 1 .. Len(buffer)
      BY <1>1, <2>2, SMT
    <3>2. v[i] = longer[Len(buffer) - n + i].tlmsg
      BY <1>3, <3>1
    <3>3. longer[Len(buffer) - n + i] = buffer[Len(buffer) - n + i]
      BY <1>1, <3>1
    <3> QED
      BY <1>2, <1>5, <3>1, <3>2, <3>3
  <2> QED
    BY <2>1, <2>2
<1>7. v = w
  BY <1>3, <1>5, <1>6, SeqEqual
<1> QED
  BY <1>7 DEF v, w, u, longer

\* ... one accepted leaves from their front (RX) ...
LEMMA UnderWayShrinks ==
  ASSUME NEW buffer \in Seq(Element), NEW n \in Nat, n >= 1, n <= Len(buffer)
  PROVE  /\ UnderWay(buffer, n) # <<>>
         /\ Head(UnderWay(buffer, n)) = buffer[Len(buffer) - n + 1].tlmsg
         /\ Tail(UnderWay(buffer, n)) = UnderWay(buffer, n - 1)
<1> DEFINE u == UnderWay(buffer, n)
           v == UnderWay(buffer, n - 1)
<1>1. Len(buffer) \in Nat
  BY LenProperties
<1>2. /\ u \in Seq(Cargo) /\ Len(u) = n
      /\ \A i \in 1 .. n : u[i] = buffer[Len(buffer) - n + i].tlmsg
  BY UnderWayType
<1>3. /\ v \in Seq(Cargo) /\ Len(v) = n - 1
      /\ \A i \in 1 .. n - 1 : v[i] = buffer[Len(buffer) - (n - 1) + i].tlmsg
  <2>1. n - 1 \in Nat /\ n - 1 <= Len(buffer)
    BY <1>1, SMT
  <2> QED
    BY <2>1, UnderWayType
<1> HIDE DEF u, v
<1>4. u # <<>>
  <2>1. Len(<<>>) = 0
    OBVIOUS
  <2> QED
    BY <1>2, <2>1, SMT
<1> DEFINE t == Tail(u)
<1>5. /\ Head(u) = u[1] /\ t \in Seq(Cargo) /\ Len(t) = n - 1
      /\ \A i \in 1 .. n - 1 : t[i] = u[i + 1]
  BY <1>2, <1>4, HeadTailProperties
<1> HIDE DEF t
<1>6. 1 \in 1 .. n
  BY SMT
<1>7. ASSUME NEW i \in 1 .. n - 1 PROVE t[i] = v[i]
  <2>1. i + 1 \in 1 .. n /\ Len(buffer) - n + (i + 1) = Len(buffer) - (n - 1) + i
    BY <1>1, SMT
  <2> QED
    BY <1>2, <1>3, <1>5, <2>1
<1>8. t = v
  BY <1>3, <1>5, <1>7, SeqEqual
<1> QED
  BY <1>2, <1>4, <1>5, <1>6, <1>8 DEF t, u, v

\* ... and sliding the window touches none of them.
LEMMA UnderWayKept ==
  ASSUME NEW buffer \in Seq(Element), NEW left \in Seq(Element), Len(left) <= Len(buffer),
         \A i \in 1 .. Len(left) : left[i] = buffer[Len(buffer) - Len(left) + i],
         NEW n \in Nat, n <= Len(left)
  PROVE  UnderWay(left, n) = UnderWay(buffer, n)
<1>1. Len(buffer) \in Nat /\ Len(left) \in Nat
  BY LenProperties
<1>2. ASSUME NEW i \in 1 .. n
      PROVE  left[Len(left) - n + i].tlmsg = buffer[Len(buffer) - n + i].tlmsg
  <2> DEFINE k == Len(left) - n + i
  <2>1. k \in 1 .. Len(left) /\ Len(buffer) - Len(left) + k = Len(buffer) - n + i
    BY <1>1, SMT
  <2> HIDE DEF k
  <2>2. left[k] = buffer[Len(buffer) - n + i]
    BY <2>1
  <2> QED
    BY <2>2 DEF k
<1> QED
  BY <1>2 DEF UnderWay

-----------------------------------------------------------------------------
(***************************************************************************)
(* The invariant: four pipelines, requests and responses in each direction. *)
(* A process that has exited delivers nothing any more.                     *)
(***************************************************************************)
Unseen(e) == Dist(next_rx_seq[Peer(e)], next_tx_seq[e])

Pipe(K, e, queue, from, items) ==
    Chain(K, tl_msg_buffer[Peer(e)], UnderWay(retransmit_buffer[e], Unseen(e)),
          request_tlmsg[e], queue, from, items)

Pipes(e) ==
    pc[Peer(e)] # "exited" =>
        /\ Pipe(Request, e, message_buffer[e], Len(served[e]), issued[e])
        /\ Pipe(Response, e, response_buffer[e], Len(answered[Peer(e)]), served[Peer(e)])

DeliveryInv == \A e \in Endpoint : Pipes(e)

LEMMA Kinds ==
  /\ \A m \in Request : m \notin Response /\ m # NoMsg
  /\ \A m \in Response : m \notin Request /\ m # NoMsg
  /\ NoMsg \notin Request /\ NoMsg \notin Response
<1>1. \A m \in Request : m.op \in {"Get", "PutFullData"}
  BY DEF Request
<1>2. \A m \in Response : m.op \in {"AccessAck", "AccessAckData"}
  BY DEF Response
<1>3. NoMsg.op = "none"
  BY DEF NoMsg
<1> QED
  BY <1>1, <1>2, <1>3

\* Typed parts of a pipeline.
LEMMA PipeTypes ==
  ASSUME TypeOK, WindowInv, LinkInv, NEW e \in Endpoint
  PROVE  /\ retransmit_buffer[e] \in Seq(Element) /\ Unseen(e) \in Nat
         /\ Unseen(e) <= Len(retransmit_buffer[e])
         /\ UnderWay(retransmit_buffer[e], Unseen(e)) \in Seq(Cargo)
         /\ tl_msg_buffer[e] \in Seq(Cargo) /\ request_tlmsg[e] \in Cargo
         /\ message_buffer[e] \in Seq(Request) /\ response_buffer[e] \in Seq(Response)
         /\ issued[e] \in Seq(Request) /\ served[e] \in Seq(Response)
         /\ answered[e] \in Seq(Response)
         /\ Len(served[e]) \in Nat /\ Len(answered[e]) \in Nat
<1>1. retransmit_buffer[e] \in Seq(Element)
  BY DEF TypeOK
<1>2. Unseen(e) \in Nat
  BY Peers, MissingType DEF Unseen, TypeOK
<1>3. Unseen(e) <= Len(retransmit_buffer[e])
  BY DEF LinkInv, Link, Unseen
<1>4. UnderWay(retransmit_buffer[e], Unseen(e)) \in Seq(Cargo)
  BY <1>1, <1>2, <1>3, UnderWayType
<1>5. tl_msg_buffer[e] \in Seq(Cargo)
  <2>1. tl_msg_buffer[e] \in Seq(TLMsg) /\ TLMsg \subseteq Cargo
    BY DEF TypeOK, Cargo
  <2> QED
    BY <2>1, SeqMonotonic
<1>6. request_tlmsg[e] \in Cargo
  BY DEF TypeOK, Cargo
<1>7. /\ message_buffer[e] \in Seq(Request) /\ response_buffer[e] \in Seq(Response)
      /\ issued[e] \in Seq(Request) /\ served[e] \in Seq(Response)
      /\ answered[e] \in Seq(Response)
  BY DEF TypeOK
<1>8. Len(served[e]) \in Nat /\ Len(answered[e]) \in Nat
  BY <1>7, LenProperties
<1> QED
  BY <1>1, <1>2, <1>3, <1>4, <1>5, <1>6, <1>7, <1>8

LEMMA BothPipes ==
  ASSUME NEW e \in Endpoint, Pipes(e)', Pipes(Peer(e))'
  PROVE  DeliveryInv'
<1>1. ASSUME NEW d \in Endpoint PROVE Pipes(d)'
  BY Peers
<1> QED
  BY <1>1 DEF DeliveryInv

\* A direction that nothing touches.
LEMMA PipesKept ==
  ASSUME NEW e \in Endpoint, Pipes(e), pc'[Peer(e)] # "exited" => pc[Peer(e)] # "exited",
         tl_msg_buffer'[Peer(e)] = tl_msg_buffer[Peer(e)],
         UnderWay(retransmit_buffer[e], Unseen(e))' = UnderWay(retransmit_buffer[e], Unseen(e)),
         request_tlmsg'[e] = request_tlmsg[e],
         message_buffer'[e] = message_buffer[e], response_buffer'[e] = response_buffer[e],
         served'[e] = served[e], issued'[e] = issued[e],
         answered'[Peer(e)] = answered[Peer(e)], served'[Peer(e)] = served[Peer(e)]
  PROVE  Pipes(e)'
  BY DEF Pipes, Pipe

\* Frames under way depend on these variables only.
LEMMA UnderWaySame ==
  ASSUME NEW e \in Endpoint, retransmit_buffer'[e] = retransmit_buffer[e],
         next_tx_seq'[e] = next_tx_seq[e], next_rx_seq'[Peer(e)] = next_rx_seq[Peer(e)]
  PROVE  UnderWay(retransmit_buffer[e], Unseen(e))' = UnderWay(retransmit_buffer[e], Unseen(e))
  BY DEF Unseen, UnderWay

-----------------------------------------------------------------------------
(***************************************************************************)
(* Each action keeps the pipelines                                          *)
(***************************************************************************)
LEMMA DeliverSubmit ==
  ASSUME TypeOK, WindowInv, LinkInv, DeliveryInv, NEW e \in Endpoint, Submit(e)
  PROVE  DeliveryInv'
<1> DEFINE p == Peer(e)
<1>1. p \in Endpoint /\ p # e /\ Peer(p) = e
  BY Peers
<1>2. PICK op \in REQUEST_OPS, val \in Nat :
        /\ message_buffer' = [message_buffer EXCEPT ![e] = Append(@, [op |-> op, val |-> val])]
        /\ issued' = [issued EXCEPT ![e] = Append(@, [op |-> op, val |-> val])]
  <2> DEFINE val(op) == IF op = "PutFullData" THEN Len(issued[e]) + 1 ELSE 0
  <2>1. PICK op \in REQUEST_OPS :
          /\ message_buffer' = [message_buffer EXCEPT
                                   ![e] = Append(@, [op |-> op, val |-> val(op)])]
          /\ issued' = [issued EXCEPT ![e] = Append(@, [op |-> op, val |-> val(op)])]
    BY DEF Submit
  <2>2. val(op) \in Nat
    BY LenProperties, SMT DEF TypeOK
  <2> HIDE DEF val
  <2> QED
    BY <2>1, <2>2
<1> DEFINE m == [op |-> op, val |-> val]
<1>3. m \in Request
  BY BoundAssumption DEF Request
<1>4. /\ message_buffer' = [message_buffer EXCEPT ![e] = Append(@, m)]
      /\ issued' = [issued EXCEPT ![e] = Append(@, m)]
  BY <1>2
<1>5. UNCHANGED <<pc, workVars, tl_msg_buffer, linkVars, memVars>>
  BY DEF Submit
<1> HIDE DEF m, p
<1>6. /\ message_buffer'[e] = Append(message_buffer[e], m)
      /\ issued'[e] = Append(issued[e], m)
      /\ message_buffer'[p] = message_buffer[p] /\ issued'[p] = issued[p]
  BY <1>1, <1>4 DEF TypeOK
<1>7. \A d \in Endpoint : UnderWay(retransmit_buffer[d], Unseen(d))'
                             = UnderWay(retransmit_buffer[d], Unseen(d))
  BY <1>5, UnderWaySame DEF linkVars
<1>8. Pipes(p)'
  BY <1>1, <1>5, <1>6, <1>7, PipesKept DEF DeliveryInv, workVars, memVars
<1>9. Pipes(e)'
  <2> SUFFICES ASSUME pc'[p] # "exited" PROVE Pipes(e)'
    BY DEF Pipes, p
  <2>1. /\ Pipe(Request, e, message_buffer[e], Len(served[e]), issued[e])
        /\ Pipe(Response, e, response_buffer[e], Len(answered[p]), served[p])
    BY <1>5 DEF DeliveryInv, Pipes, p
  <2>2. Pipe(Request, e, message_buffer'[e], Len(served[e]), issued'[e])
    <3>1. message_buffer[e] \in Seq(Request) /\ issued[e] \in Seq(Request)
      BY PipeTypes
    <3> QED
      BY <1>3, <1>6, <2>1, <3>1, ChainQueue DEF Pipe
  <2> QED
    BY <1>5, <1>7, <2>1, <2>2 DEF Pipes, Pipe, workVars, memVars, p
<1> QED
  BY <1>8, <1>9, BothPipes DEF p

LEMMA DeliverSelect ==
  ASSUME TypeOK, WindowInv, LinkInv, DeliveryInv, NEW e \in Endpoint, Select(e)
  PROVE  DeliveryInv'
<1> DEFINE p == Peer(e)
<1>1. p \in Endpoint /\ p # e /\ Peer(p) = e
  BY Peers
<1>2. /\ UNCHANGED <<tl_msg_buffer, linkVars, memVars, issued>>
      /\ pc[e] = "select" /\ pc' = [pc EXCEPT ![e] = "tx"]
  BY DEF Select, Select_Pending, Select_Response, Select_Request, SelectBuffer, GoTo
<1>3. \A d \in Endpoint : UnderWay(retransmit_buffer[d], Unseen(d))'
                             = UnderWay(retransmit_buffer[d], Unseen(d))
  BY <1>2, UnderWaySame DEF linkVars
<1> HIDE DEF p
<1>4. pc'[e] # "exited" /\ pc[e] # "exited" /\ pc'[p] = pc[p]
  BY <1>1, <1>2 DEF TypeOK
<1>5. /\ message_buffer[e] \in Seq(Request) /\ response_buffer[e] \in Seq(Response)
      /\ issued[e] \in Seq(Request) /\ served[p] \in Seq(Response)
  BY <1>1, PipeTypes
<1>6. /\ request_tlmsg'[p] = request_tlmsg[p]
      /\ message_buffer'[p] = message_buffer[p] /\ response_buffer'[p] = response_buffer[p]
  BY <1>1 DEF Select, Select_Pending, Select_Response, Select_Request, workVars, TypeOK
<1>7. Pipes(p)'
  BY <1>1, <1>2, <1>3, <1>4, <1>6, PipesKept DEF DeliveryInv, memVars
<1>8. Pipes(e)'
  <2> SUFFICES ASSUME pc'[p] # "exited" PROVE Pipes(e)'
    BY DEF Pipes, p
  <2> DEFINE in == tl_msg_buffer[p]
             under == UnderWay(retransmit_buffer[e], Unseen(e))
             KeptBy(held, requests, responses) ==
                /\ Chain(Request, in, under, held, requests, Len(served[e]), issued[e])
                /\ Chain(Response, in, under, held, responses, Len(answered[p]), served[p])
  <2>1. KeptBy(request_tlmsg[e], message_buffer[e], response_buffer[e])
    BY <1>4 DEF DeliveryInv, Pipes, Pipe, p
  <2> HIDE DEF in, under
  <2>2. KeptBy(request_tlmsg'[e], message_buffer'[e], response_buffer'[e])
    <3>1. CASE Select_Pending(e)
      BY <2>1, <3>1 DEF Select_Pending, workVars
    <3>2. CASE Select_Response(e)
      <4> DEFINE m == Head(response_buffer[e])
      <4>1. /\ request_tlmsg[e] = NoMsg /\ response_buffer[e] # <<>>
            /\ request_tlmsg'[e] = m /\ response_buffer'[e] = Tail(response_buffer[e])
            /\ message_buffer'[e] = message_buffer[e]
        BY <3>2 DEF Select_Response, TypeOK
      <4>2. m \in Response
        BY <1>5, <4>1, HeadTailProperties
      <4>3. request_tlmsg[e] \notin Request /\ request_tlmsg[e] \notin Response /\ m \notin Request
        BY <4>1, <4>2, Kinds
      <4>4. Chain(Request, in, under, m, message_buffer[e], Len(served[e]), issued[e])
        BY <2>1, <4>3, ChainOther
      <4>5. Chain(Response, in, under, m, Tail(response_buffer[e]), Len(answered[p]), served[p])
        BY <1>5, <2>1, <4>1, <4>2, <4>3, ChainSelect
      <4> QED
        BY <4>1, <4>4, <4>5
    <3>3. CASE Select_Request(e)
      <4> DEFINE m == Head(message_buffer[e])
      <4>1. request_tlmsg[e] = NoMsg /\ response_buffer' = response_buffer
        BY <3>3 DEF Select_Request
      <4>2. CASE UNCHANGED <<request_tlmsg, message_buffer>>
        BY <2>1, <4>1, <4>2
      <4>3. CASE /\ message_buffer[e] # <<>>
                 /\ request_tlmsg' = [request_tlmsg EXCEPT ![e] = Head(message_buffer[e])]
                 /\ message_buffer' = [message_buffer EXCEPT ![e] = Tail(@)]
        <5>1. request_tlmsg'[e] = m /\ message_buffer'[e] = Tail(message_buffer[e])
          BY <4>3 DEF TypeOK
        <5>2. m \in Request
          BY <1>5, <4>3, HeadTailProperties
        <5>3. request_tlmsg[e] \notin Request /\ request_tlmsg[e] \notin Response /\ m \notin Response
          BY <4>1, <5>2, Kinds
        <5>4. Chain(Response, in, under, m, response_buffer[e], Len(answered[p]), served[p])
          BY <2>1, <5>3, ChainOther
        <5>5. Chain(Request, in, under, m, Tail(message_buffer[e]), Len(served[e]), issued[e])
          BY <1>5, <2>1, <4>3, <5>2, <5>3, ChainSelect
        <5> QED
          BY <4>1, <5>1, <5>4, <5>5
      <4> QED
        BY <3>3, <4>2, <4>3 DEF Select_Request
    <3> QED
      BY <3>1, <3>2, <3>3 DEF Select
  <2> QED
    BY <1>2, <1>3, <2>2 DEF Pipes, Pipe, memVars, in, under, p
<1> QED
  BY <1>7, <1>8, BothPipes DEF p

\* A message that select_buffer has chosen leaves request_tlmsg only in a frame
\* that is sent.  It does, unless the retransmit element cannot be allocated
\* for a frame made while the message waited for credit.
HeldUntilSent ==
    \A e \in Endpoint :
        request_tlmsg[e] # NoMsg /\ request_tlmsg'[e] = NoMsg
            => next_tx_seq'[e] # next_tx_seq[e]

LEMMA DeliverTransmit ==
  ASSUME TypeOK, WindowInv, LinkInv, DeliveryInv, HeldUntilSent, NEW e \in Endpoint,
         NEW elapsed, Transmit(e, elapsed)
  PROVE  DeliveryInv'
<1> DEFINE p == Peer(e)
           d == Unseen(e)
           B == retransmit_buffer[e]
<1>1. p \in Endpoint /\ p # e /\ Peer(p) = e
  BY Peers
<1>2. \E buffer, frames : TX(e, elapsed, buffer, frames)
  BY DEF Transmit, TX_Nothing, TX_Send, TX_AllocFailed
<1>3. /\ UNCHANGED <<next_rx_seq, response_buffer, tl_msg_buffer, memVars, userVars>>
      /\ pc[e] = "tx" /\ pc' = [pc EXCEPT ![e] = "rx"]
      /\ retransmit_buffer'[p] = retransmit_buffer[p]
  BY <1>1, <1>2 DEF TX, GoTo, TypeOK
<1>4. next_tx_seq'[p] = next_tx_seq[p] /\ request_tlmsg'[p] = request_tlmsg[p]
  BY <1>1 DEF Transmit, TX_Nothing, TX_Send, TX_AllocFailed, TypeOK
<1> HIDE DEF p
<1>5. pc'[e] # "exited" /\ pc[e] # "exited" /\ pc'[p] = pc[p]
  BY <1>1, <1>3 DEF TypeOK
<1>6. Pipes(p)'
  <2>1. UnderWay(retransmit_buffer[p], Unseen(p))' = UnderWay(retransmit_buffer[p], Unseen(p))
    BY <1>1, <1>3, <1>4, UnderWaySame
  <2> QED
    BY <1>1, <1>3, <1>4, <1>5, <2>1, PipesKept DEF DeliveryInv, memVars, userVars
<1>7. CASE UNCHANGED <<retransmit_buffer, next_tx_seq>> /\ request_tlmsg'[e] = request_tlmsg[e]
  <2>1. UnderWay(retransmit_buffer[e], Unseen(e))' = UnderWay(retransmit_buffer[e], Unseen(e))
    BY <1>3, <1>7, UnderWaySame
  <2>2. Pipes(e)'
    BY <1>1, <1>3, <1>5, <1>7, <2>1, PipesKept DEF DeliveryInv, memVars, userVars, p
  <2> QED
    BY <1>6, <2>2, BothPipes DEF p
<1>8. CASE TX_Nothing(e, elapsed)
  BY <1>7, <1>8 DEF TX_Nothing, TX, TypeOK
<1>9. CASE TX_AllocFailed(e, elapsed)
  <2>1. UNCHANGED <<retransmit_buffer, next_tx_seq>> /\ request_tlmsg'[e] = Carried(e)
    BY <1>9 DEF TX_AllocFailed, TX, TypeOK
  <2>2. Carried(e) = NoMsg \/ Carried(e) = request_tlmsg[e]
    BY DEF Carried
  <2>3. request_tlmsg'[e] = request_tlmsg[e]
    BY <2>1, <2>2 DEF HeldUntilSent
  <2> QED
    BY <1>7, <2>1, <2>3
<1>10. CASE TX_Send(e, elapsed)
  <2> DEFINE x == ElementOf(FrameToSend(e))
             in == tl_msg_buffer[p]
             under == UnderWay(B, d)
             held == request_tlmsg[e]
  <2>1. /\ retransmit_buffer' = [retransmit_buffer EXCEPT ![e] = Append(B, x)]
        /\ next_tx_seq' = [next_tx_seq EXCEPT ![e] = tloe_seqnum_next(@)]
        /\ request_tlmsg' = [request_tlmsg EXCEPT ![e] = IF Carried(e) = NoMsg THEN @ ELSE NoMsg]
    BY <1>10 DEF TX_Send, TX
  <2>2. x \in Element /\ x.tlmsg = Carried(e)
    BY FrameToSendType DEF ElementOf
  <2>3. /\ B \in Seq(Element) /\ d \in Nat /\ d <= Len(B)
        /\ under \in Seq(Cargo) /\ held \in Cargo
    BY PipeTypes
  <2>4. Dist(next_rx_seq[p], tloe_seqnum_next(next_tx_seq[e])) = d + 1
    <3>1. next_rx_seq[p] \in SeqNum /\ next_tx_seq[e] \in SeqNum /\ Len(B) <= WINDOW_SIZE
          /\ Len(B) \in Nat
      BY <1>1, LinkTypes
    <3>2. d < SEQ_MOD - 1
      <4> HIDE DEF d, B
      <4> QED
        BY <2>3, <3>1, Sizes, SMT
    <3> QED
      BY <3>1, <3>2, DistStep DEF Unseen, p
  <2> HIDE DEF x
  <2>5. /\ retransmit_buffer'[e] = Append(B, x)
        /\ request_tlmsg'[e] = IF Carried(e) = NoMsg THEN held ELSE NoMsg
        /\ Unseen(e)' = d + 1
    BY <1>3, <2>1, <2>4 DEF TypeOK, Unseen, p
  <2> HIDE DEF d, B
  <2>6. UnderWay(Append(B, x), d + 1) = Append(under, Carried(e))
    BY <2>2, <2>3, UnderWayGrows
  <2>7. UnderWay(retransmit_buffer[e], Unseen(e))' = UnderWay(Append(B, x), d + 1)
    BY <2>5 DEF UnderWay
  <2>8. Pipes(e)'
    <3> SUFFICES ASSUME pc'[p] # "exited" PROVE Pipes(e)'
      BY DEF Pipes, p
    <3> HIDE DEF in, under, held
    <3>1. /\ Chain(Request, in, under, held, message_buffer[e], Len(served[e]), issued[e])
          /\ Chain(Response, in, under, held, response_buffer[e], Len(answered[p]), served[p])
      BY <1>5 DEF DeliveryInv, Pipes, Pipe, in, under, held, d, B, p
    <3>2. NoMsg \notin Request /\ NoMsg \notin Response /\ NoMsg \in Cargo
      BY Kinds DEF Cargo
    <3> DEFINE more == Append(under, Carried(e))
               next == request_tlmsg'[e]
    <3>3. /\ Chain(Request, in, more, next, message_buffer[e], Len(served[e]), issued[e])
          /\ Chain(Response, in, more, next, response_buffer[e], Len(answered[p]), served[p])
      <4>1. CASE Carried(e) = NoMsg
        BY <2>3, <2>5, <3>1, <3>2, <4>1, ChainSendNone
      <4>2. CASE Carried(e) # NoMsg
        <5>1. Carried(e) = held /\ next = NoMsg
          BY <2>5, <4>2 DEF Carried, held
        <5> QED
          BY <2>3, <3>1, <3>2, <5>1, ChainSend
      <4> QED
        BY <4>1, <4>2
    <3>4. UnderWay(retransmit_buffer[e], Unseen(e))' = more
      BY <2>6, <2>7
    <3> QED
      BY <1>3, <3>3, <3>4 DEF Pipes, Pipe, memVars, userVars, in, p
  <2> QED
    BY <1>6, <2>8, BothPipes DEF p
<1> QED
  BY <1>8, <1>9, <1>10 DEF Transmit

\* The window of e slides, past no frame its peer waits for.
LEMMA DeliverSlides ==
  ASSUME TypeOK, WindowInv, LinkInv, DeliveryInv, NEW e \in Endpoint, RX(e),
         pc'[Peer(e)] = pc[Peer(e)], tl_msg_buffer'[Peer(e)] = tl_msg_buffer[Peer(e)],
         next_rx_seq'[Peer(e)] = next_rx_seq[Peer(e)]
  PROVE  Pipes(e)'
<1> DEFINE p == Peer(e)
           B == retransmit_buffer[e]
           left == retransmit_buffer'[e]
           n == Arrived(e).seq_num_ack
           I == {i \in DOMAIN B : tloe_seqnum_cmp(B[i].seq_num, n) > 0}
<1>1. p \in Endpoint
  BY Peers
<1>2. B \in Seq(Element) /\ Unseen(e) \in Nat
  BY PipeTypes
<1>3. Unseen(e) <= Len(left) /\ next_tx_seq' = next_tx_seq
  BY LinkRX DEF Link, Unseen
<1>4. left = SuffixFrom(B, I) /\ I \subseteq DOMAIN B
  <2>1. retransmit_buffer' = [retransmit_buffer EXCEPT ![e] = slide_window(B, n)]
    BY DEF RX
  <2> QED
    BY <2>1 DEF slide_window, TypeOK
<1> HIDE DEF I, B, left
<1>5. /\ left \in Seq(Element) /\ Len(left) <= Len(B)
      /\ \A i \in 1 .. Len(left) : left[i] = B[Len(B) - Len(left) + i]
  BY <1>2, <1>4, SuffixFromType
<1>6. UnderWay(left, Unseen(e)) = UnderWay(B, Unseen(e))
  BY <1>2, <1>3, <1>5, UnderWayKept
<1>7. Unseen(e)' = Unseen(e)
  BY <1>3 DEF Unseen
<1>8. UnderWay(retransmit_buffer[e], Unseen(e))' = UnderWay(retransmit_buffer[e], Unseen(e))
  BY <1>6, <1>7 DEF UnderWay, left, B
<1>9. UNCHANGED <<workVars, memVars, userVars>>
  BY DEF RX
<1> QED
  BY <1>8, <1>9, PipesKept DEF DeliveryInv, workVars, memVars, userVars

\* The expected frame carries the oldest message under way.
LEMMA DeliverAccept ==
  ASSUME TypeOK, WindowInv, LinkInv, DeliveryInv, NEW e \in Endpoint, Accept(e),
         pc[e] # "exited",
         \/ pc'[e] = "exited"
         \/ tl_msg_buffer'[e] = Append(tl_msg_buffer[e], Arrived(e).tlmsg)
         \/ tl_msg_buffer'[e] = tl_msg_buffer[e] /\ Arrived(e).tlmsg = NoMsg
  PROVE  Pipes(Peer(e))'
<1> DEFINE p == Peer(e)
           R == next_rx_seq[e]
           N == next_tx_seq[p]
           B == retransmit_buffer[p]
           d == Dist(R, N)
           f == Arrived(e)
           under == UnderWay(B, d)
           in == tl_msg_buffer[e]
<1>1. p \in Endpoint /\ p # e /\ Peer(p) = e /\ d = Unseen(p)
  BY Peers DEF Unseen
<1>2. /\ B \in Seq(Element) /\ d \in Nat /\ d <= Len(B)
      /\ under \in Seq(Cargo) /\ in \in Seq(Cargo)
      /\ Len(served[p]) \in Nat /\ Len(answered[e]) \in Nat
  BY <1>1, PipeTypes
<1>3. /\ RX(e) /\ Numbered(f) /\ f.seq_num = R
      /\ next_rx_seq' = [next_rx_seq EXCEPT ![e] = tloe_seqnum_next(R)]
  BY AcceptsExpected
<1>4. /\ retransmit_buffer'[p] = B /\ next_tx_seq' = next_tx_seq /\ fabric[e] # <<>>
  BY <1>3, LinkRX
<1>5. fabric[e] \in Seq(Frame) /\ R \in SeqNum /\ N \in SeqNum
  BY <1>1, LinkTypes
<1>6. 1 \in DOMAIN fabric[e] /\ f = fabric[e][1]
  <2>1. fabric[e] = <<>> \/ Len(fabric[e]) # 0
    BY <1>5, EmptySeq
  <2>2. Len(fabric[e]) \in Nat /\ DOMAIN fabric[e] = 1 .. Len(fabric[e])
    BY <1>5, LenProperties
  <2>3. 1 \in DOMAIN fabric[e]
    BY <1>4, <2>1, <2>2, SMT
  <2> QED
    BY <1>4, <1>5, <2>3, HeadTailProperties DEF Arrived
<1>7. NumbersInOrder(fabric[e], N, d, WINDOW_SIZE) /\ Copies(fabric[e], N, d, B)
  <2>1. Link(N, R, B, fabric[e], fabric[p], ack_buffer[e])
    BY <1>1 DEF LinkInv
  <2> QED
    BY <2>1 DEF Link
<1> HIDE DEF f, p, under, in
<1>8. d >= 1
  <2>1. d \in 1 .. d + WINDOW_SIZE
    BY <1>3, <1>6, <1>7 DEF NumbersInOrder
  <2> QED
    BY <2>1, SMT
<1>9. f.tlmsg = B[Len(B) - d + 1].tlmsg
  <2>1. d <= d
    BY <1>2, SMT
  <2>2. ElementOf(f) = B[Len(B) - d + 1]
    BY <1>3, <1>6, <1>7, <2>1 DEF Copies
  <2> QED
    BY <2>2 DEF ElementOf
<1>10. Dist(tloe_seqnum_next(R), N) = d - 1
  BY <1>5, <1>8, DistStep, SMT
<1>11. Unseen(p)' = d - 1
  BY <1>1, <1>3, <1>4, <1>10 DEF Unseen, TypeOK
<1> HIDE DEF d, B, N, R
<1>12. /\ under # <<>> /\ Head(under) = f.tlmsg /\ Tail(under) = UnderWay(B, d - 1)
  BY <1>2, <1>8, <1>9, UnderWayShrinks DEF under
<1>13. UnderWay(retransmit_buffer[p], Unseen(p))' = Tail(under)
  BY <1>4, <1>11, <1>12 DEF UnderWay
<1> SUFFICES ASSUME pc'[e] # "exited" PROVE Pipes(p)'
  BY <1>1 DEF Pipes, p
<1> DEFINE held == request_tlmsg[p]
<1>14. /\ Chain(Request, in, under, held, message_buffer[p], Len(served[p]), issued[p])
       /\ Chain(Response, in, under, held, response_buffer[p], Len(answered[e]), served[e])
  BY <1>1 DEF DeliveryInv, Pipes, Pipe, in, under, B, d
<1>15. NoMsg \notin Request /\ NoMsg \notin Response
  BY Kinds
<1> DEFINE more == tl_msg_buffer'[e]
<1>16. /\ Chain(Request, more, Tail(under), held, message_buffer[p], Len(served[p]), issued[p])
       /\ Chain(Response, more, Tail(under), held, response_buffer[p], Len(answered[e]), served[e])
  <2> HIDE DEF held, more
  <2>1. CASE more = Append(in, Head(under))
    BY <1>2, <1>12, <1>14, <2>1, ChainAccept
  <2>2. CASE more = in /\ Head(under) = NoMsg
    BY <1>2, <1>12, <1>14, <1>15, <2>2, ChainAccept
  <2> QED
    BY <1>12, <2>1, <2>2 DEF more, in, f
<1>17. UNCHANGED <<workVars, memVars, userVars>>
  BY <1>3 DEF RX
<1> QED
  BY <1>1, <1>13, <1>16, <1>17 DEF Pipes, Pipe, workVars, memVars, userVars

\* Any other frame leaves the messages of the direction it travels in alone.
LEMMA DeliverNotAccepted ==
  ASSUME TypeOK, WindowInv, LinkInv, DeliveryInv, NEW e \in Endpoint, RX(e),
         pc[e] # "exited", UNCHANGED <<tl_msg_buffer, next_rx_seq>>
  PROVE  Pipes(Peer(e))'
<1> DEFINE p == Peer(e)
<1>1. p \in Endpoint /\ Peer(p) = e
  BY Peers
<1>2. retransmit_buffer'[p] = retransmit_buffer[p] /\ next_tx_seq' = next_tx_seq
  BY LinkRX
<1> HIDE DEF p
<1>3. UnderWay(retransmit_buffer[p], Unseen(p))' = UnderWay(retransmit_buffer[p], Unseen(p))
  BY <1>1, <1>2, UnderWaySame
<1>4. UNCHANGED <<workVars, memVars, userVars>>
  BY DEF RX
<1>5. Pipes(p)'
  BY <1>1, <1>3, <1>4, PipesKept DEF DeliveryInv, workVars, memVars, userVars
<1> QED
  BY <1>5 DEF p

LEMMA DeliverReceive ==
  ASSUME TypeOK, WindowInv, LinkInv, DeliveryInv, NEW e \in Endpoint, Receive(e)
  PROVE  DeliveryInv'
<1> DEFINE p == Peer(e)
<1>1. p \in Endpoint /\ p # e /\ Peer(p) = e
  BY Peers
<1>2. CASE RX_Empty(e)
  <2>1. /\ UNCHANGED <<workVars, tl_msg_buffer, linkVars, memVars, userVars>>
        /\ pc[e] = "rx" /\ pc' = [pc EXCEPT ![e] = "tl"]
    BY <1>2 DEF RX_Empty, GoTo
  <2>2. pc[e] # "exited" /\ pc'[p] = pc[p]
    BY <1>1, <2>1 DEF TypeOK
  <2>3. \A d \in Endpoint : UnderWay(retransmit_buffer[d], Unseen(d))'
                               = UnderWay(retransmit_buffer[d], Unseen(d))
    BY <2>1, UnderWaySame DEF linkVars
  <2> HIDE DEF p
  <2>4. Pipes(e)' /\ Pipes(p)'
    BY <1>1, <2>1, <2>2, <2>3, PipesKept DEF DeliveryInv, workVars, memVars, userVars, p
  <2> QED
    BY <2>4, BothPipes DEF p
<1>3. ASSUME RX(e), \E next : pc' = [pc EXCEPT ![e] = next],
             tl_msg_buffer'[p] = tl_msg_buffer[p], next_rx_seq'[p] = next_rx_seq[p],
             Pipes(p)'
      PROVE  DeliveryInv'
  <2>1. pc'[p] = pc[p]
    BY <1>1, <1>3 DEF TypeOK
  <2>2. Pipes(e)'
    BY <1>3, <2>1, DeliverSlides
  <2> QED
    BY <1>3, <2>2, BothPipes
<1>4. ASSUME RX(e) PROVE pc[e] # "exited"
  BY <1>4 DEF RX
<1>5. CASE RX_AckOnly(e) \/ RX_Duplicate(e) \/ RX_OutOfSequence(e)
  <2>1. RX(e) /\ UNCHANGED <<tl_msg_buffer, next_rx_seq>>
    BY <1>5 DEF RX_AckOnly, RX_Duplicate, RX_OutOfSequence, RX_Class, Report
  <2>2. \E next : pc' = [pc EXCEPT ![e] = next]
    BY <1>5 DEF RX_AckOnly, RX_Duplicate, RX_OutOfSequence, Report, GoTo
  <2>3. Pipes(p)'
    BY <1>4, <2>1, DeliverNotAccepted
  <2> QED
    BY <1>3, <2>1, <2>2, <2>3
<1>6. CASE RX_Normal(e)
  <2>1. /\ Accept(e)
        /\ \/ /\ tl_msg_buffer' = [tl_msg_buffer EXCEPT ![e] = Append(@, Arrived(e).tlmsg)]
              /\ pc' = [pc EXCEPT ![e] = "tl"]
           \/ UNCHANGED tl_msg_buffer /\ pc' = [pc EXCEPT ![e] = "exited"]
    BY <1>6 DEF RX_Normal, GoTo
  <2>2. /\ RX(e)
        /\ next_rx_seq' = [next_rx_seq EXCEPT ![e] = tloe_seqnum_next(next_rx_seq[e])]
    BY <2>1, AcceptsExpected
  <2>3. next_rx_seq'[p] = next_rx_seq[p] /\ tl_msg_buffer'[p] = tl_msg_buffer[p]
    BY <1>1, <2>1, <2>2 DEF TypeOK
  <2>4. \/ pc'[e] = "exited"
        \/ tl_msg_buffer'[e] = Append(tl_msg_buffer[e], Arrived(e).tlmsg)
    BY <2>1 DEF TypeOK
  <2>5. Pipes(p)'
    BY <1>4, <2>1, <2>2, <2>4, DeliverAccept
  <2> QED
    BY <1>3, <2>1, <2>2, <2>3, <2>5
<1>7. CASE RX_Zero(e)
  <2>1. /\ Accept(e) /\ Arrived(e).tlmsg = NoMsg /\ UNCHANGED tl_msg_buffer
        /\ pc' = [pc EXCEPT ![e] = "tl"]
    BY <1>7 DEF RX_Zero, GoTo
  <2>2. /\ RX(e)
        /\ next_rx_seq' = [next_rx_seq EXCEPT ![e] = tloe_seqnum_next(next_rx_seq[e])]
    BY <2>1, AcceptsExpected
  <2>3. next_rx_seq'[p] = next_rx_seq[p]
    BY <1>1, <2>2 DEF TypeOK
  <2>4. Pipes(p)'
    BY <1>4, <2>1, <2>2, DeliverAccept
  <2> QED
    BY <1>3, <2>1, <2>2, <2>3, <2>4
<1> QED
  BY <1>2, <1>5, <1>6, <1>7 DEF Receive

\* The oldest message, and what the pipelines say of it.
LEMMA OldestMessage ==
  ASSUME TypeOK, WindowInv, LinkInv, DeliveryInv, NEW e \in Endpoint, tl_handler(e)
  PROVE  LET p == Peer(e)
             m == Oldest(e)
         IN  /\ tl_msg_buffer'[e] = Tail(tl_msg_buffer[e])
             /\ tl_msg_buffer'[p] = tl_msg_buffer[p]
             /\ pc'[e] # "exited" /\ pc'[p] = pc[p]
             /\ UNCHANGED <<request_tlmsg, message_buffer, issued>>
             /\ \A d \in Endpoint : UnderWay(retransmit_buffer[d], Unseen(d))'
                                       = UnderWay(retransmit_buffer[d], Unseen(d))
             /\ m \in Request =>
                   /\ Len(served[p]) + 1 \in DOMAIN issued[p]
                   /\ m = issued[p][Len(served[p]) + 1]
                   /\ Chain(Request, Tail(tl_msg_buffer[e]),
                            UnderWay(retransmit_buffer[p], Unseen(p)), request_tlmsg[p],
                            message_buffer[p], Len(served[p]) + 1, issued[p])
             /\ m \in Response =>
                   /\ Len(answered[e]) + 1 \in DOMAIN served[e]
                   /\ m = served[e][Len(answered[e]) + 1]
                   /\ Chain(Response, Tail(tl_msg_buffer[e]),
                            UnderWay(retransmit_buffer[p], Unseen(p)), request_tlmsg[p],
                            response_buffer[p], Len(answered[e]) + 1, served[e])
             /\ m \notin Request =>
                   Chain(Request, Tail(tl_msg_buffer[e]),
                         UnderWay(retransmit_buffer[p], Unseen(p)), request_tlmsg[p],
                         message_buffer[p], Len(served[p]), issued[p])
             /\ m \notin Response =>
                   Chain(Response, Tail(tl_msg_buffer[e]),
                         UnderWay(retransmit_buffer[p], Unseen(p)), request_tlmsg[p],
                         response_buffer[p], Len(answered[e]), served[e])
<1> DEFINE p == Peer(e)
           in == tl_msg_buffer[e]
           under == UnderWay(retransmit_buffer[p], Unseen(p))
<1>1. p \in Endpoint /\ p # e /\ Peer(p) = e
  BY Peers
<1>2. /\ UNCHANGED <<request_tlmsg, linkVars, message_buffer, issued>>
      /\ tl_msg_buffer' = [tl_msg_buffer EXCEPT ![e] = Tail(@)]
      /\ in # <<>> /\ pc[e] = "tl" /\ pc' = [pc EXCEPT ![e] = "select"]
  BY DEF tl_handler, userVars, GoTo
<1>3. /\ tl_msg_buffer'[e] = Tail(tl_msg_buffer[e])
      /\ tl_msg_buffer'[p] = tl_msg_buffer[p]
      /\ pc'[e] # "exited" /\ pc'[p] = pc[p]
  BY <1>1, <1>2 DEF TypeOK
<1>4. \A d \in Endpoint : UnderWay(retransmit_buffer[d], Unseen(d))'
                             = UnderWay(retransmit_buffer[d], Unseen(d))
  BY <1>2, UnderWaySame DEF linkVars
<1>5. in \in Seq(Cargo) /\ Len(served[p]) \in Nat /\ Len(answered[e]) \in Nat
  BY <1>1, PipeTypes
<1>6. /\ Chain(Request, in, under, request_tlmsg[p], message_buffer[p], Len(served[p]),
               issued[p])
      /\ Chain(Response, in, under, request_tlmsg[p], response_buffer[p], Len(answered[e]),
               served[e])
  BY <1>1, <1>2 DEF DeliveryInv, Pipes, Pipe
<1>7. Oldest(e) = Head(in)
  BY DEF Oldest
<1> HIDE DEF p, in, under
<1>8. /\ Head(in) \in Request =>
            /\ Len(served[p]) + 1 \in DOMAIN issued[p]
            /\ Head(in) = issued[p][Len(served[p]) + 1]
            /\ Chain(Request, Tail(in), under, request_tlmsg[p], message_buffer[p],
                     Len(served[p]) + 1, issued[p])
      /\ Head(in) \notin Request =>
            Chain(Request, Tail(in), under, request_tlmsg[p], message_buffer[p],
                  Len(served[p]), issued[p])
  BY <1>2, <1>5, <1>6, ChainHandle
<1>9. /\ Head(in) \in Response =>
            /\ Len(answered[e]) + 1 \in DOMAIN served[e]
            /\ Head(in) = served[e][Len(answered[e]) + 1]
            /\ Chain(Response, Tail(in), under, request_tlmsg[p], response_buffer[p],
                     Len(answered[e]) + 1, served[e])
      /\ Head(in) \notin Response =>
            Chain(Response, Tail(in), under, request_tlmsg[p], response_buffer[p],
                  Len(answered[e]), served[e])
  BY <1>2, <1>5, <1>6, ChainHandle
<1> QED
  BY <1>2, <1>3, <1>4, <1>7, <1>8, <1>9 DEF p, in, under

\* A request is performed: its response is queued, and is the next result.
LEMMA DeliverRespond ==
  ASSUME TypeOK, WindowInv, LinkInv, DeliveryInv, NEW e \in Endpoint, tl_handler(e),
         Oldest(e) \in Request, NEW resp \in Response, Respond(e, resp)
  PROVE  DeliveryInv'
<1> DEFINE p == Peer(e)
           under(d) == UnderWay(retransmit_buffer[d], Unseen(d))
           rest == Tail(tl_msg_buffer[e])
<1>1. p \in Endpoint /\ p # e /\ Peer(p) = e
  BY Peers
<1>2. /\ tl_msg_buffer'[e] = rest /\ tl_msg_buffer'[p] = tl_msg_buffer[p]
      /\ pc'[p] = pc[p] /\ UNCHANGED <<request_tlmsg, message_buffer, issued>>
      /\ \A d \in Endpoint : under(d)' = under(d)
      /\ Chain(Request, rest, under(p), request_tlmsg[p], message_buffer[p],
               Len(served[p]) + 1, issued[p])
      /\ Chain(Response, rest, under(p), request_tlmsg[p], response_buffer[p],
               Len(answered[e]), served[e])
  BY OldestMessage, Kinds
<1>3. /\ response_buffer' = [response_buffer EXCEPT ![e] = Append(@, resp)]
      /\ served' = [served EXCEPT ![p] = Append(@, resp)]
      /\ UNCHANGED answered
  BY DEF Respond
<1> HIDE DEF p, under, rest
<1>4. /\ response_buffer'[e] = Append(response_buffer[e], resp)
      /\ response_buffer'[p] = response_buffer[p]
      /\ served'[p] = Append(served[p], resp) /\ served'[e] = served[e]
  BY <1>1, <1>3 DEF TypeOK
<1>5. response_buffer[e] \in Seq(Response) /\ served[p] \in Seq(Response)
  BY <1>1, PipeTypes
<1>6. Len(served'[p]) = Len(served[p]) + 1
  BY <1>4, <1>5, AppendProperties
<1>7. Pipes(p)'
  <2>1. /\ Chain(Request, rest, under(p), request_tlmsg[p], message_buffer[p],
                 Len(served'[p]), issued[p])
        /\ Chain(Response, rest, under(p), request_tlmsg[p], response_buffer'[p],
                 Len(answered[e]), served'[e])
    BY <1>2, <1>4, <1>6
  <2>2. UnderWay(retransmit_buffer[p], Unseen(p))' = under(p)
    BY <1>1, <1>2 DEF under
  <2> QED
    BY <1>1, <1>2, <1>3, <2>1, <2>2 DEF Pipes, Pipe
<1>8. Pipes(e)'
  <2> SUFFICES ASSUME pc'[p] # "exited" PROVE Pipes(e)'
    BY DEF Pipes, p
  <2> DEFINE in == tl_msg_buffer[p]
             held == request_tlmsg[e]
  <2>1. /\ Chain(Request, in, under(e), held, message_buffer[e], Len(served[e]), issued[e])
        /\ Chain(Response, in, under(e), held, response_buffer[e], Len(answered[p]), served[p])
    BY <1>2 DEF DeliveryInv, Pipes, Pipe, under, p
  <2> HIDE DEF in, held
  <2>2. Chain(Response, in, under(e), held, response_buffer'[e], Len(answered[p]), served'[p])
    BY <1>4, <1>5, <2>1, ChainQueue
  <2>3. UnderWay(retransmit_buffer[e], Unseen(e))' = under(e)
    BY <1>2 DEF under
  <2> QED
    BY <1>2, <1>3, <1>4, <2>1, <2>2, <2>3 DEF Pipes, Pipe, in, held, p
<1> QED
  BY <1>7, <1>8, BothPipes DEF p

\* What the handlers handle.
LEMMA HandledKind ==
  ASSUME TypeOK, NEW e \in Endpoint, tl_handler(e)
  PROVE  /\ Oldest(e).op \in {"Get", "PutFullData"} => Oldest(e) \in Request
         /\ Oldest(e).op \in {"AccessAck", "AccessAckData"} => Oldest(e) \in Response
<1>1. Oldest(e) \in TLMsg
  BY TypeTLHandler
<1> QED
  BY <1>1 DEF TLMsg, Request, Response

LEMMA DeliverHandle ==
  ASSUME TypeOK, WindowInv, LinkInv, DeliveryInv, NEW e \in Endpoint, Handle(e)
  PROVE  DeliveryInv'
<1> DEFINE p == Peer(e)
<1>1. p \in Endpoint /\ p # e /\ Peer(p) = e
  BY Peers
<1>2. CASE TL_Skip(e)
  <2>1. /\ UNCHANGED <<workVars, tl_msg_buffer, linkVars, memVars, userVars>>
        /\ pc[e] = "tl" /\ pc' = [pc EXCEPT ![e] = "select"]
    BY <1>2 DEF TL_Skip, GoTo
  <2>2. pc[e] # "exited" /\ pc'[p] = pc[p]
    BY <1>1, <2>1 DEF TypeOK
  <2>3. \A d \in Endpoint : UnderWay(retransmit_buffer[d], Unseen(d))'
                               = UnderWay(retransmit_buffer[d], Unseen(d))
    BY <2>1, UnderWaySame DEF linkVars
  <2> HIDE DEF p
  <2>4. Pipes(e)' /\ Pipes(p)'
    BY <1>1, <2>1, <2>2, <2>3, PipesKept DEF DeliveryInv, workVars, memVars, userVars, p
  <2> QED
    BY <2>4, BothPipes DEF p
<1>3. CASE handle_A_PUTFULLDATA_opcode(e)
  <2>1. /\ tl_handler(e) /\ Oldest(e).op = "PutFullData"
        /\ Respond(e, [op |-> "AccessAck", val |-> 0])
    BY <1>3 DEF handle_A_PUTFULLDATA_opcode
  <2>2. [op |-> "AccessAck", val |-> 0] \in Response
    BY SMT DEF Response
  <2> QED
    BY <2>1, <2>2, HandledKind, DeliverRespond
<1>4. CASE handle_A_GET_opcode(e)
  <2>1. /\ tl_handler(e) /\ Oldest(e).op = "Get"
        /\ Respond(e, [op |-> "AccessAckData", val |-> mem_storage[e]])
    BY <1>4 DEF handle_A_GET_opcode
  <2>2. [op |-> "AccessAckData", val |-> mem_storage[e]] \in Response
    BY DEF Response, TypeOK
  <2> QED
    BY <2>1, <2>2, HandledKind, DeliverRespond
<1>5. CASE handle_D_opcode(e)
  <2> DEFINE m == Oldest(e)
             under(d) == UnderWay(retransmit_buffer[d], Unseen(d))
             rest == Tail(tl_msg_buffer[e])
  <2>1. /\ tl_handler(e) /\ UNCHANGED <<response_buffer, served>>
        /\ answered' = [answered EXCEPT ![e] = Append(@, m)]
        /\ m.op \in {"AccessAck", "AccessAckData"}
    BY <1>5 DEF handle_D_opcode
  <2>2. m \in Response /\ m \notin Request
    BY <2>1, HandledKind, Kinds
  <2>3. /\ tl_msg_buffer'[e] = rest /\ tl_msg_buffer'[p] = tl_msg_buffer[p]
        /\ pc'[p] = pc[p] /\ UNCHANGED <<request_tlmsg, message_buffer, issued>>
        /\ \A d \in Endpoint : under(d)' = under(d)
        /\ Chain(Request, rest, under(p), request_tlmsg[p], message_buffer[p],
                 Len(served[p]), issued[p])
        /\ Chain(Response, rest, under(p), request_tlmsg[p], response_buffer[p],
                 Len(answered[e]) + 1, served[e])
    BY <2>1, <2>2, OldestMessage
  <2> HIDE DEF p, m, under, rest
  <2>4. answered'[e] = Append(answered[e], m) /\ answered'[p] = answered[p]
    BY <1>1, <2>1 DEF TypeOK
  <2>5. Len(answered'[e]) = Len(answered[e]) + 1
    <3>1. answered[e] \in Seq(Response)
      BY PipeTypes
    <3> QED
      BY <2>2, <2>4, <3>1, AppendProperties
  <2>6. Pipes(p)'
    <3>1. UnderWay(retransmit_buffer[p], Unseen(p))' = under(p)
      BY <1>1, <2>3 DEF under
    <3>2. /\ Chain(Request, rest, under(p), request_tlmsg[p], message_buffer[p],
                   Len(served[p]), issued[p])
          /\ Chain(Response, rest, under(p), request_tlmsg[p], response_buffer[p],
                   Len(answered'[e]), served[e])
      BY <2>3, <2>5
    <3> QED
      BY <1>1, <2>1, <2>3, <3>1, <3>2 DEF Pipes, Pipe
  <2>7. Pipes(e)'
    <3>1. UnderWay(retransmit_buffer[e], Unseen(e))' = UnderWay(retransmit_buffer[e], Unseen(e))
      BY <2>3 DEF under
    <3> QED
      BY <2>1, <2>3, <2>4, <3>1, PipesKept DEF DeliveryInv, p
  <2> QED
    BY <2>6, <2>7, BothPipes DEF p
<1> QED
  BY <1>2, <1>3, <1>4, <1>5 DEF Handle

LEMMA DeliverLose ==
  ASSUME TypeOK, DeliveryInv, NEW e \in Endpoint, Lose(e)
  PROVE  DeliveryInv'
<1>1. UNCHANGED <<pc, workVars, tl_msg_buffer, retransmit_buffer, next_tx_seq, next_rx_seq,
                  memVars, userVars>>
  BY DEF Lose
<1>2. \A d \in Endpoint : UnderWay(retransmit_buffer[d], Unseen(d))'
                             = UnderWay(retransmit_buffer[d], Unseen(d))
  BY <1>1, UnderWaySame
<1>3. ASSUME NEW d \in Endpoint PROVE Pipes(d)'
  BY <1>1, <1>2, PipesKept DEF DeliveryInv, workVars, memVars, userVars
<1> QED
  BY <1>3 DEF DeliveryInv

LEMMA DeliverInit == Init => DeliveryInv
<1> SUFFICES ASSUME Init, NEW e \in Endpoint PROVE Pipes(e)
  BY DEF DeliveryInv
<1> DEFINE p == Peer(e)
<1>1. p \in Endpoint
  BY Peers
<1>2. /\ retransmit_buffer[e] = <<>> /\ tl_msg_buffer[p] = <<>> /\ request_tlmsg[e] = NoMsg
      /\ message_buffer[e] = <<>> /\ response_buffer[e] = <<>>
      /\ issued[e] = <<>> /\ served[e] = <<>> /\ served[p] = <<>> /\ answered[p] = <<>>
  BY <1>1 DEF Init
<1>3. Unseen(e) = 0
  <2>1. /\ next_tx_seq[e] = IF e = Master THEN tloe_seqnum_next(FIRST_SEQ) ELSE FIRST_SEQ
        /\ next_rx_seq[p] = IF p = Slave THEN tloe_seqnum_next(FIRST_SEQ) ELSE FIRST_SEQ
    BY <1>1 DEF Init
  <2>2. next_rx_seq[p] = next_tx_seq[e] /\ next_tx_seq[e] \in SeqNum
    BY <1>1, <2>1, SizeAssumption, NextPrev, EndpointAssumption DEF Peer, Endpoint
  <2> QED
    BY <2>2, DistSum DEF Unseen
<1>4. Len(<<>>) = 0 /\ 1 .. 0 = {} /\ 0 = 0 + 0 /\ 0 \in Nat
  BY SMT
<1>5. UnderWay(retransmit_buffer[e], Unseen(e)) = <<>>
  <2>1. \A f : DOMAIN f = {} /\ f = [x \in {} |-> f[x]] => f = <<>>
    BY Z3
  <2> QED
    BY <1>3, <1>4, <2>1 DEF UnderWay
<1>6. ASSUME NEW K, NoMsg \notin K PROVE Chain(K, <<>>, <<>>, NoMsg, <<>>, 0, <<>>)
  <2>1. Run(<<>>, K, 0, 0, <<>>)
    BY <1>4, RunEmpty
  <2>2. Cut(0, 0, 0, K, <<>>, <<>>, NoMsg, <<>>, 0, <<>>)
    BY <1>4, <1>6, <2>1 DEF Cut
  <2> QED
    BY <1>4, <2>2 DEF Chain
<1> QED
  BY <1>2, <1>4, <1>5, <1>6, Kinds DEF Pipes, Pipe, p

LEMMA DeliverStep ==
  ASSUME TypeOK, WindowInv, LinkInv, DeliveryInv, [Next]_vars, [HeldUntilSent]_vars
  PROVE  DeliveryInv'
<1>1. ASSUME UNCHANGED vars PROVE DeliveryInv'
  <2>1. UNCHANGED <<pc, workVars, tl_msg_buffer, retransmit_buffer, next_tx_seq, next_rx_seq,
                    memVars, userVars>>
    BY <1>1 DEF vars, linkVars
  <2>2. ASSUME NEW e \in Endpoint PROVE Pipes(e)'
    <3>1. UnderWay(retransmit_buffer[e], Unseen(e))' = UnderWay(retransmit_buffer[e], Unseen(e))
      BY <2>1, UnderWaySame
    <3> QED
      BY <2>1, <3>1, PipesKept DEF DeliveryInv, workVars, memVars, userVars
  <2> QED
    BY <2>2 DEF DeliveryInv
<1>2. ASSUME NEW e \in Endpoint, Worker(e), HeldUntilSent PROVE DeliveryInv'
  BY <1>2, DeliverSelect, DeliverTransmit, DeliverReceive, DeliverHandle DEF Worker
<1>3. ASSUME NEW e \in Endpoint, Submit(e) PROVE DeliveryInv'
  BY <1>3, DeliverSubmit
<1>4. ASSUME NEW e \in Endpoint, Lose(e) PROVE DeliveryInv'
  BY <1>4, DeliverLose
<1> QED
  BY <1>1, <1>2, <1>3, <1>4 DEF Next

-----------------------------------------------------------------------------
(***************************************************************************)
(* The refinement: queueing a request issues it, handling it performs it,   *)
(* handling its response answers it, and everything else is invisible.      *)
(***************************************************************************)
LEMMA SameEndpoints ==
  /\ RM!Endpoint = Endpoint
  /\ \A e \in Endpoint : RM!Peer(e) = Peer(e)
  BY DEF RM!Endpoint, RM!Peer, Endpoint, Peer

LEMMA SubmitIssues ==
  ASSUME TypeOK, NEW e \in Endpoint, Submit(e)
  PROVE  RM!Issue(e)
<1>1. PICK op \in REQUEST_OPS :
        issued' = [issued EXCEPT
                      ![e] = Append(@, [op |-> op, val |-> IF op = "PutFullData"
                                                           THEN Len(issued[e]) + 1 ELSE 0])]
  BY DEF Submit
<1>2. op \in {"Get", "PutFullData"}
  BY BoundAssumption
<1>3. Len(issued[e]) \in Nat
  BY LenProperties DEF TypeOK
<1>4. (IF op = "PutFullData" THEN Len(issued[e]) + 1 ELSE 0) \in 0 .. Len(issued[e]) + 1
  BY <1>3, SMT
<1>5. UNCHANGED <<mem_storage, served, answered>>
  BY DEF Submit, memVars
<1> QED
  BY <1>1, <1>2, <1>4, <1>5 DEF RM!Issue

LEMMA HandleServes ==
  ASSUME TypeOK, WindowInv, LinkInv, DeliveryInv, NEW e \in Endpoint,
         handle_A_PUTFULLDATA_opcode(e) \/ handle_A_GET_opcode(e)
  PROVE  RM!Serve(Peer(e))
<1> DEFINE p == Peer(e)
           m == Oldest(e)
<1>1. p \in Endpoint /\ Peer(p) = e
  BY Peers
<1>2. tl_handler(e) /\ m.op \in {"Get", "PutFullData"}
  BY DEF handle_A_PUTFULLDATA_opcode, handle_A_GET_opcode
<1>3. m \in Request
  BY <1>2, HandledKind
<1>4. /\ Len(served[p]) + 1 \in DOMAIN issued[p] /\ m = issued[p][Len(served[p]) + 1]
      /\ UNCHANGED issued
  BY <1>2, <1>3, OldestMessage
<1>5. Len(served[p]) < Len(issued[p])
  <2>1. /\ Len(served[p]) \in Nat /\ Len(issued[p]) \in Nat
        /\ DOMAIN issued[p] = 1 .. Len(issued[p])
    BY <1>1, LenProperties DEF TypeOK
  <2> QED
    BY <1>4, <2>1, SMT
<1>6. RM!Peer(p) = e
  BY <1>1, SameEndpoints
<1> HIDE DEF p, m
<1>7. CASE handle_A_PUTFULLDATA_opcode(e)
  BY <1>4, <1>5, <1>6, <1>7 DEF RM!Serve, handle_A_PUTFULLDATA_opcode, Respond, p, m
<1>8. CASE handle_A_GET_opcode(e)
  BY <1>4, <1>5, <1>6, <1>8 DEF RM!Serve, handle_A_GET_opcode, Respond, p, m
<1> QED
  BY <1>7, <1>8 DEF p

LEMMA HandleAnswers ==
  ASSUME TypeOK, WindowInv, LinkInv, DeliveryInv, NEW e \in Endpoint, handle_D_opcode(e)
  PROVE  RM!Answer(e)
<1> DEFINE m == Oldest(e)
<1>1. /\ tl_handler(e) /\ m.op \in {"AccessAck", "AccessAckData"}
      /\ answered' = [answered EXCEPT ![e] = Append(@, m)]
      /\ UNCHANGED <<mem_storage, served>>
  BY DEF handle_D_opcode
<1>2. m \in Response
  BY <1>1, HandledKind
<1>3. /\ Len(answered[e]) + 1 \in DOMAIN served[e] /\ m = served[e][Len(answered[e]) + 1]
      /\ UNCHANGED issued
  BY <1>1, <1>2, OldestMessage
<1>4. Len(answered[e]) < Len(served[e])
  <2>1. /\ Len(answered[e]) \in Nat /\ Len(served[e]) \in Nat
        /\ DOMAIN served[e] = 1 .. Len(served[e])
    BY LenProperties DEF TypeOK
  <2> QED
    BY <1>3, <2>1, SMT
<1> QED
  BY <1>1, <1>3, <1>4 DEF RM!Answer

LEMMA StepRefines ==
  ASSUME TypeOK, WindowInv, LinkInv, DeliveryInv, [Next]_vars
  PROVE  [RM!Next]_RM!vars
<1>1. ASSUME UNCHANGED memVars, UNCHANGED issued PROVE UNCHANGED RM!vars
  BY <1>1 DEF memVars, RM!vars
<1>2. ASSUME NEW e \in Endpoint, Submit(e) PROVE RM!Next
  BY <1>2, SubmitIssues, SameEndpoints DEF RM!Next
<1>3. ASSUME NEW e \in Endpoint, Handle(e) PROVE [RM!Next]_RM!vars
  <2>1. CASE TL_Skip(e)
    BY <1>1, <2>1 DEF TL_Skip, userVars
  <2>2. CASE handle_A_PUTFULLDATA_opcode(e) \/ handle_A_GET_opcode(e)
    BY <2>2, HandleServes, Peers, SameEndpoints DEF RM!Next
  <2>3. CASE handle_D_opcode(e)
    BY <2>3, HandleAnswers, SameEndpoints DEF RM!Next
  <2> QED
    BY <1>3, <2>1, <2>2, <2>3 DEF Handle
<1>4. ASSUME NEW e \in Endpoint, NEW elapsed, Transmit(e, elapsed) PROVE UNCHANGED RM!vars
  BY <1>1, <1>4 DEF Transmit, TX_Nothing, TX_Send, TX_AllocFailed, TX, userVars
<1>5. ASSUME NEW e \in Endpoint, Receive(e) PROVE UNCHANGED RM!vars
  <2>1. RX_Empty(e) \/ RX(e)
    BY <1>5 DEF Receive, RX_AckOnly, RX_Normal, RX_Zero, RX_Duplicate, RX_OutOfSequence,
                RX_Class, Accept
  <2> QED
    BY <1>1, <2>1 DEF RX_Empty, RX, userVars
<1>6. ASSUME NEW e \in Endpoint, Select(e) PROVE UNCHANGED RM!vars
  BY <1>1, <1>6 DEF Select, Select_Pending, Select_Response, Select_Request, SelectBuffer
<1>7. ASSUME NEW e \in Endpoint, Lose(e) PROVE UNCHANGED RM!vars
  BY <1>1, <1>7 DEF Lose, userVars
<1>8. CASE UNCHANGED vars
  BY <1>1, <1>8 DEF vars, userVars
<1>9. ASSUME NEW e \in Endpoint, Worker(e) PROVE [RM!Next]_RM!vars
  BY <1>3, <1>4, <1>5, <1>6, <1>9 DEF Worker
<1> QED
  BY <1>2, <1>7, <1>8, <1>9 DEF Next

\* Exactly-once delivery, in order, with the right data, whatever is lost,
\* repeated or retransmitted and whichever process exits, as long as no
\* allocation fails under a message that waits for credit.
THEOREM DeliveryRefines ==
    Spec /\ []AckBufferFresh /\ [][HeldUntilSent]_vars => RemoteMemorySafe
<1>1. Init => RM!Init
  BY SameEndpoints DEF Init, RM!Init
<1>2. Spec /\ []AckBufferFresh /\ [][HeldUntilSent]_vars => []DeliveryInv
  BY DeliverInit, DeliverStep, TypeCorrect, WindowCorrect, LinkCorrect, PTL DEF Spec
<1> QED
  BY <1>1, <1>2, StepRefines, TypeCorrect, WindowCorrect, LinkCorrect, PTL
     DEF Spec, RemoteMemorySafe, RM!SafeSpec

\* TX gives back what a frame carried, so only a failed allocation loses a
\* message held back for credit.
LEMMA HeldWithoutFailure ==
  ASSUME MAX_ALLOC_FAILED = 0, TypeOK, [Next]_vars
  PROVE  [HeldUntilSent]_vars
<1> SUFFICES ASSUME NEW e \in Endpoint, NEW d \in Endpoint,
                    Worker(e) \/ Submit(e) \/ Lose(e),
                    request_tlmsg[d] # NoMsg, request_tlmsg'[d] = NoMsg
             PROVE  next_tx_seq'[d] # next_tx_seq[d]
  BY DEF Next, HeldUntilSent
<1>1. \A elapsed : ~TX_AllocFailed(e, elapsed)
  <2>1. ~(alloc_failed < MAX_ALLOC_FAILED)
    BY SMT DEF TypeOK
  <2> QED
    BY <2>1 DEF TX_AllocFailed
<1>2. UNCHANGED request_tlmsg => FALSE
  OBVIOUS
<1>3. ASSUME Select(e) PROVE FALSE
  <2>1. CASE e = d
    BY <1>2, <1>3, <2>1 DEF Select, Select_Pending, Select_Response, Select_Request, workVars
  <2>2. CASE e # d
    BY <1>3, <2>2 DEF Select, Select_Pending, Select_Response, Select_Request, workVars, TypeOK
  <2> QED
    BY <2>1, <2>2
<1>4. ASSUME NEW elapsed, Transmit(e, elapsed) PROVE next_tx_seq'[d] # next_tx_seq[d]
  <2>1. TX_Send(e, elapsed)
    BY <1>1, <1>4 DEF Transmit, TX_Nothing
  <2>2. e = d
    BY <2>1 DEF TX_Send, TypeOK
  <2>3. next_tx_seq'[d] = tloe_seqnum_next(next_tx_seq[d]) /\ next_tx_seq[d] \in SeqNum
    BY <2>1, <2>2 DEF TX_Send, TypeOK
  <2> QED
    BY <2>3, SeqModAssumption, SMT DEF tloe_seqnum_next, SeqNum, MAX_SEQ_NUM
<1>5. ASSUME Receive(e) PROVE FALSE
  <2>1. RX_Empty(e) \/ RX(e)
    BY <1>5 DEF Receive, RX_AckOnly, RX_Normal, RX_Zero, RX_Duplicate, RX_OutOfSequence,
                RX_Class, Accept
  <2> QED
    BY <1>2, <2>1 DEF RX_Empty, RX, workVars
<1>6. ASSUME Handle(e) PROVE FALSE
  BY <1>2, <1>6 DEF Handle, TL_Skip, handle_A_PUTFULLDATA_opcode, handle_A_GET_opcode,
                    handle_D_opcode, tl_handler, workVars
<1>7. ASSUME Submit(e) \/ Lose(e) PROVE FALSE
  BY <1>2, <1>7 DEF Submit, Lose, workVars
<1> QED
  BY <1>3, <1>4, <1>5, <1>6, <1>7 DEF Worker

\* The pair of endpoints is a remote memory, for every ring, window, queue
\* size, credit, number of requests and of losses: what two users of it see is
\* exactly-once execution in order, with the right data (tloe_endpoint.c,
\* tloe_transmitter.c, tloe_receiver.c, retransmission.c, tilelink_handler.c).
THEOREM RemoteMemoryCorrect ==
  ASSUME MAX_ALLOC_FAILED = 0
  PROVE  Spec /\ []AckBufferFresh => RemoteMemorySafe
<1>1. Spec => [][HeldUntilSent]_vars
  BY HeldWithoutFailure, TypeCorrect, PTL DEF Spec
<1> QED
  BY <1>1, DeliveryRefines, PTL
=============================================================================
