-------------------------- MODULE AccountingProofs --------------------------
(***************************************************************************)
(* Theorems about Accounting, for any connections, chunks, workers and     *)
(* length of the journal: what incremental accounting keeps is what the    *)
(* journal it has read amounts to, through every race, retry, correction   *)
(* and failed activation.                                                  *)
(*                                                                         *)
(* MergeRange and Total are recursive along the journal.  What they do for *)
(* every length follows, without induction, from a least counterexample.   *)
(*                                                                         *)
(* The last part is about classes: where a relay's connection and an       *)
(* application's end together, bytes alone decide, and the closure of a    *)
(* chunk leaves out nobody they have to be compared with.                  *)
(***************************************************************************)
EXTENDS Accounting, SequenceTheorems, WellFoundedInduction, TLAPS

-----------------------------------------------------------------------------
(* Recursion along the journal.                                            *)

LEMMA Least ==
  ASSUME NEW S \in SUBSET Nat, S # {}
  PROVE  \E m \in S : \A k \in S : m <= k
<1>1. IsWellFoundedOn(OpToRel(<, Nat), Nat)
  BY NatLessThanWellFounded
<1>2. PICK m \in S : \A k \in S : ~(<<k, m>> \in OpToRel(<, Nat))
  BY <1>1, WFMin
<1>3. \A k \in S : ~(k < m)
  BY <1>2 DEF OpToRel
<1> QED BY <1>3

\* MergeRange over any journal l, so that it can be compared with a longer one.
After(l, conns, from, to) ==
  LET state[n \in from..to] == IF n = from THEN conns ELSE Merge(state[n - 1], l[n])
  IN  state[to]

IsAfter(f, l, conns, from, to) ==
  f = [n \in from..to |-> IF n = from THEN conns ELSE Merge(f[n - 1], l[n])]

LEMMA AfterExists ==
  ASSUME NEW l, NEW conns, NEW from \in Nat, NEW to \in Nat, from <= to
  PROVE  \E f : IsAfter(f, l, conns, from, to)
<1> DEFINE Bad == {n \in Nat : from <= n /\ ~\E f : IsAfter(f, l, conns, from, n)}
<1>1. SUFFICES ASSUME Bad # {} PROVE FALSE
  OBVIOUS
<1>2. PICK m \in Bad : \A k \in Bad : m <= k
  BY <1>1, Least
<1>3. m # from
  <2>1. IsAfter([n \in from..from |-> conns], l, conns, from, from)
    BY DEF IsAfter
  <2> QED BY <1>2, <2>1
<1>4. PICK g : IsAfter(g, l, conns, from, m - 1)
  BY <1>2, <1>3
<1> DEFINE h == [n \in from..m |-> IF n = m THEN Merge(g[m - 1], l[m]) ELSE g[n]]
<1>5. /\ \A n \in from..m : h[n] = IF n = m THEN Merge(g[m - 1], l[m]) ELSE g[n]
      /\ \A n \in from..(m - 1) : g[n] = IF n = from THEN conns ELSE Merge(g[n - 1], l[n])
  BY <1>4, Zenon DEF IsAfter
<1>6. \A n \in from..m : h[n] = IF n = from THEN conns ELSE Merge(h[n - 1], l[n])
  <2> TAKE n \in from..m
  <2>1. CASE n = m
    <3>1. m - 1 \in from..m /\ m - 1 # m /\ n # from
      BY <1>2, <1>3, <2>1
    <3>2. h[m - 1] = g[m - 1]
      BY <1>5, <3>1
    <3>3. h[n] = Merge(g[m - 1], l[m])
      BY <1>5, <2>1
    <3> HIDE DEF h
    <3> QED BY <2>1, <3>1, <3>2, <3>3
  <2>2. CASE n # m /\ n # from
    <3>1. n \in from..(m - 1) /\ n - 1 \in from..m /\ n - 1 # m
      BY <1>2, <2>2
    <3>2. h[n] = g[n] /\ h[n - 1] = g[n - 1] /\ g[n] = Merge(g[n - 1], l[n])
      BY <1>5, <2>2, <3>1
    <3> HIDE DEF h
    <3> QED BY <2>2, <3>2
  <2>3. CASE n = from
    <3>1. n \in from..(m - 1) /\ n # m
      BY <1>2, <1>3, <2>3
    <3> QED BY <1>5, <2>3, <3>1
  <2> QED BY <2>1, <2>2, <2>3
<1>7. IsAfter(h, l, conns, from, m)
  <2>1. h = [n \in from..m |-> h[n]]
    OBVIOUS
  <2> HIDE DEF h
  <2> QED BY <1>6, <2>1, Zenon DEF IsAfter
<1> QED BY <1>2, <1>7

LEMMA AfterUnique ==
  ASSUME NEW l, NEW conns, NEW from \in Nat, NEW f, NEW g, NEW a \in Nat, NEW b \in Nat,
         from <= a, a <= b, IsAfter(f, l, conns, from, a), IsAfter(g, l, conns, from, b)
  PROVE  f[a] = g[a]
<1> DEFINE Bad == {n \in Nat : n \in from..a /\ f[n] # g[n]}
<1>1. SUFFICES ASSUME Bad # {} PROVE FALSE
  OBVIOUS
<1>2. PICK m \in Bad : \A k \in Bad : m <= k
  BY <1>1, Least
<1>3. /\ \A n \in from..a : f[n] = IF n = from THEN conns ELSE Merge(f[n - 1], l[n])
      /\ \A n \in from..b : g[n] = IF n = from THEN conns ELSE Merge(g[n - 1], l[n])
  BY Zenon DEF IsAfter
<1>4. m \in from..a /\ m \in from..b /\ m # from
  BY <1>2, <1>3
<1>5. m - 1 \in from..a /\ ~(m <= m - 1) /\ m - 1 \in Nat
  BY <1>4
<1>6. f[m - 1] = g[m - 1]
  BY <1>2, <1>5
<1> QED BY <1>2, <1>3, <1>4, <1>6

\* MergeRange of no event, and of one event more.
LEMMA AfterSteps ==
  ASSUME NEW l, NEW conns, NEW from \in Nat, NEW to \in Nat, from <= to
  PROVE  /\ After(l, conns, from, from) = conns
         /\ After(l, conns, from, to + 1) = Merge(After(l, conns, from, to), l[to + 1])
<1>1. ASSUME NEW n \in Nat, from <= n
      PROVE  \E f : IsAfter(f, l, conns, from, n) /\ After(l, conns, from, n) = f[n]
  <2>1. \E f : IsAfter(f, l, conns, from, n)
    BY <1>1, AfterExists
  <2> QED BY <2>1, Zenon DEF After, IsAfter
<1>2. PICK f : IsAfter(f, l, conns, from, from) /\ After(l, conns, from, from) = f[from]
  BY <1>1
<1>3. PICK g : IsAfter(g, l, conns, from, to) /\ After(l, conns, from, to) = g[to]
  BY <1>1
<1>4. to + 1 \in Nat /\ from <= to + 1 /\ to <= to + 1 /\ to + 1 # from /\ (to + 1) - 1 = to
      /\ from \in from..from /\ to + 1 \in from..(to + 1)
  OBVIOUS
<1>5. PICK h : IsAfter(h, l, conns, from, to + 1) /\ After(l, conns, from, to + 1) = h[to + 1]
  BY <1>1, <1>4
<1>6. f[from] = conns
  BY <1>2, <1>4, Zenon DEF IsAfter
<1>7. h[to + 1] = Merge(h[to], l[to + 1])
  BY <1>4, <1>5, Zenon DEF IsAfter
<1>8. g[to] = h[to]
  BY <1>3, <1>4, <1>5, AfterUnique
<1> QED BY <1>2, <1>3, <1>5, <1>6, <1>7, <1>8

-----------------------------------------------------------------------------
(* Sums.                                                                   *)

\* Total, of the first n of any journal.
SumTo(amount, n) ==
  LET sum[m \in 0..n] ==
        IF m = 0 THEN 0
        ELSE IF m \in DOMAIN amount THEN sum[m - 1] + amount[m] ELSE sum[m - 1]
  IN  sum[n]

IsSum(f, amount, n) ==
  f = [m \in 0..n |-> IF m = 0 THEN 0
                      ELSE IF m \in DOMAIN amount THEN f[m - 1] + amount[m] ELSE f[m - 1]]

LEMMA SumExists ==
  ASSUME NEW amount, NEW to \in Nat
  PROVE  \E f : IsSum(f, amount, to)
<1> DEFINE Bad == {n \in Nat : ~\E f : IsSum(f, amount, n)}
           next(g, m) == IF m \in DOMAIN amount THEN g[m - 1] + amount[m] ELSE g[m - 1]
<1>1. SUFFICES ASSUME Bad # {} PROVE FALSE
  OBVIOUS
<1>2. PICK m \in Bad : \A k \in Bad : m <= k
  BY <1>1, Least
<1>3. m # 0
  <2>1. IsSum([n \in 0..0 |-> 0], amount, 0)
    BY DEF IsSum
  <2> QED BY <1>2, <2>1
<1>4. PICK g : IsSum(g, amount, m - 1)
  BY <1>2, <1>3
<1> DEFINE h == [n \in 0..m |-> IF n = m THEN next(g, m) ELSE g[n]]
<1>5. /\ \A n \in 0..m : h[n] = IF n = m THEN next(g, m) ELSE g[n]
      /\ \A n \in 0..(m - 1) : g[n] = IF n = 0 THEN 0 ELSE next(g, n)
  BY <1>4, Zenon DEF IsSum
<1>6. \A n \in 0..m : h[n] = IF n = 0 THEN 0 ELSE next(h, n)
  <2> TAKE n \in 0..m
  <2>1. CASE n = m
    <3>1. m - 1 \in 0..m /\ m - 1 # m /\ n # 0
      BY <1>2, <1>3, <2>1
    <3>2. h[m - 1] = g[m - 1] /\ h[n] = next(g, m)
      BY <1>5, <2>1, <3>1
    <3> HIDE DEF h
    <3> QED BY <2>1, <3>1, <3>2
  <2>2. CASE n # m /\ n # 0
    <3>1. n \in 0..(m - 1) /\ n - 1 \in 0..m /\ n - 1 # m
      BY <1>2, <2>2
    <3>2. h[n] = g[n] /\ h[n - 1] = g[n - 1] /\ g[n] = next(g, n)
      BY <1>5, <2>2, <3>1
    <3> HIDE DEF h
    <3> QED BY <2>2, <3>2
  <2>3. CASE n = 0
    <3>1. n \in 0..(m - 1) /\ n # m
      BY <1>2, <1>3, <2>3
    <3> QED BY <1>5, <2>3, <3>1
  <2> QED BY <2>1, <2>2, <2>3
<1>7. IsSum(h, amount, m)
  <2>1. h = [n \in 0..m |-> h[n]]
    OBVIOUS
  <2> HIDE DEF h
  <2> QED BY <1>6, <2>1, Zenon DEF IsSum
<1> QED BY <1>2, <1>7

LEMMA SumUnique ==
  ASSUME NEW amount, NEW f, NEW g, NEW a \in Nat, NEW b \in Nat, a <= b,
         IsSum(f, amount, a), IsSum(g, amount, b)
  PROVE  f[a] = g[a]
<1> DEFINE Bad == {n \in Nat : n \in 0..a /\ f[n] # g[n]}
           next(x, m) == IF m \in DOMAIN amount THEN x[m - 1] + amount[m] ELSE x[m - 1]
<1>1. SUFFICES ASSUME Bad # {} PROVE FALSE
  OBVIOUS
<1>2. PICK m \in Bad : \A k \in Bad : m <= k
  BY <1>1, Least
<1>3. /\ \A n \in 0..a : f[n] = IF n = 0 THEN 0 ELSE next(f, n)
      /\ \A n \in 0..b : g[n] = IF n = 0 THEN 0 ELSE next(g, n)
  BY Zenon DEF IsSum
<1>4. m \in 0..a /\ m \in 0..b /\ m # 0
  BY <1>2, <1>3
<1>5. m - 1 \in 0..a /\ ~(m <= m - 1) /\ m - 1 \in Nat
  BY <1>4
<1>6. f[m - 1] = g[m - 1]
  BY <1>2, <1>5
<1> QED BY <1>2, <1>3, <1>4, <1>6

LEMMA SumSteps ==
  ASSUME NEW amount, NEW n \in Nat
  PROVE  /\ SumTo(amount, 0) = 0
         /\ SumTo(amount, n + 1) = IF n + 1 \in DOMAIN amount
                                     THEN SumTo(amount, n) + amount[n + 1]
                                     ELSE SumTo(amount, n)
<1>1. \A m \in Nat : \E f : IsSum(f, amount, m) /\ SumTo(amount, m) = f[m]
  <2> TAKE m \in Nat
  <2>1. \E f : IsSum(f, amount, m)
    BY SumExists
  <2> QED BY <2>1, Zenon DEF SumTo, IsSum
<1>2. PICK f : IsSum(f, amount, 0) /\ SumTo(amount, 0) = f[0]
  BY <1>1
<1>3. PICK g : IsSum(g, amount, n) /\ SumTo(amount, n) = g[n]
  BY <1>1
<1>4. n + 1 \in Nat /\ n <= n + 1 /\ n + 1 # 0 /\ (n + 1) - 1 = n /\ 0 \in 0..0
      /\ n + 1 \in 0..(n + 1)
  OBVIOUS
<1>5. PICK h : IsSum(h, amount, n + 1) /\ SumTo(amount, n + 1) = h[n + 1]
  BY <1>1, <1>4
<1>6. f[0] = 0
  BY <1>2, <1>4, Zenon DEF IsSum
<1>7. h[n + 1] = IF n + 1 \in DOMAIN amount THEN h[n] + amount[n + 1] ELSE h[n]
  BY <1>4, <1>5, Zenon DEF IsSum
<1>8. g[n] = h[n]
  <2>1. IsSum(g, amount, n) /\ IsSum(h, amount, n + 1)
    BY <1>3, <1>5
  <2>2. n \in Nat /\ n + 1 \in Nat /\ n <= n + 1
    OBVIOUS
  <2> QED BY ONLY <2>1, <2>2, SumUnique
<1> QED BY <1>2, <1>3, <1>5, <1>6, <1>7, <1>8

\* A function of integers, and its value wherever it has one.
Integral(amount) == \A i \in DOMAIN amount : amount[i] \in Int
At(amount, i) == IF i \in DOMAIN amount THEN amount[i] ELSE 0

LEMMA SumTyped ==
  ASSUME NEW amount, Integral(amount), NEW to \in Nat
  PROVE  SumTo(amount, to) \in Int
<1> DEFINE Bad == {n \in Nat : SumTo(amount, n) \notin Int}
<1>1. SUFFICES ASSUME Bad # {} PROVE FALSE
  OBVIOUS
<1>2. PICK m \in Bad : \A k \in Bad : m <= k
  BY <1>1, Least
<1>3. m # 0
  BY <1>2, SumSteps
<1>4. m - 1 \in Nat /\ (m - 1) + 1 = m /\ ~(m <= m - 1)
  BY <1>2, <1>3
<1>5. SumTo(amount, m - 1) \in Int
  BY <1>2, <1>4
<1>6. SumTo(amount, m) = IF m \in DOMAIN amount THEN SumTo(amount, m - 1) + amount[m]
                                                ELSE SumTo(amount, m - 1)
  BY <1>4, SumSteps
<1> QED BY <1>2, <1>5, <1>6 DEF Integral

\* The sum of sums.
LEMMA SumAdds ==
  ASSUME NEW a, NEW b, NEW c, Integral(a), Integral(b), Integral(c), NEW to \in Nat,
         \A i \in 1..to : At(c, i) = At(a, i) + At(b, i)
  PROVE  SumTo(c, to) = SumTo(a, to) + SumTo(b, to)
<1> DEFINE Bad == {n \in Nat : n <= to /\ SumTo(c, n) # SumTo(a, n) + SumTo(b, n)}
<1>1. SUFFICES ASSUME Bad # {} PROVE FALSE
  OBVIOUS
<1>2. PICK m \in Bad : \A k \in Bad : m <= k
  BY <1>1, Least
<1>3. m # 0
  BY <1>2, SumSteps
<1>4. m - 1 \in Nat /\ (m - 1) + 1 = m /\ ~(m <= m - 1) /\ m \in 1..to
  BY <1>2, <1>3
<1>5. SumTo(c, m - 1) = SumTo(a, m - 1) + SumTo(b, m - 1)
  BY <1>2, <1>4
<1>6. /\ SumTo(a, m) = SumTo(a, m - 1) + At(a, m)
      /\ SumTo(b, m) = SumTo(b, m - 1) + At(b, m)
      /\ SumTo(c, m) = SumTo(c, m - 1) + At(c, m)
  <2>1. SumTo(a, m - 1) \in Int /\ SumTo(b, m - 1) \in Int /\ SumTo(c, m - 1) \in Int
    BY <1>4, SumTyped
  <2> QED BY <1>4, <2>1, SumSteps DEF At
<1>7. /\ SumTo(a, m - 1) \in Int /\ SumTo(b, m - 1) \in Int
      /\ At(a, m) \in Int /\ At(b, m) \in Int
  BY <1>4, SumTyped DEF At, Integral
<1> QED BY <1>2, <1>4, <1>5, <1>6, <1>7

\* Nothing but the amounts counts, and they only where there are any.
LEMMA SumSame ==
  ASSUME NEW a, NEW b, Integral(a), Integral(b), NEW to \in Nat, NEW far \in Nat, to <= far,
         \A i \in 1..to : At(a, i) = At(b, i), \A i \in DOMAIN b : i <= to
  PROVE  SumTo(a, to) = SumTo(b, far)
<1> DEFINE Bad == {n \in Nat : n <= far /\ SumTo(b, n) # SumTo(a, IF n <= to THEN n ELSE to)}
<1>1. SUFFICES ASSUME Bad # {} PROVE FALSE
  BY <1>1
<1>2. PICK m \in Bad : \A k \in Bad : m <= k
  BY <1>1, Least
<1>3. m # 0
  BY <1>2, SumSteps
<1>4. m - 1 \in Nat /\ (m - 1) + 1 = m /\ ~(m <= m - 1) /\ m - 1 <= far
  BY <1>2, <1>3
<1>5. SumTo(b, m - 1) = SumTo(a, IF m - 1 <= to THEN m - 1 ELSE to)
  BY <1>2, <1>4
<1>6. /\ SumTo(a, m - 1) \in Int /\ SumTo(b, m - 1) \in Int
      /\ SumTo(a, m) = IF m \in DOMAIN a THEN SumTo(a, m - 1) + a[m] ELSE SumTo(a, m - 1)
      /\ SumTo(b, m) = IF m \in DOMAIN b THEN SumTo(b, m - 1) + b[m] ELSE SumTo(b, m - 1)
  BY <1>4, SumSteps, SumTyped
<1>7. CASE m <= to
  BY <1>2, <1>4, <1>5, <1>6, <1>7 DEF At, Integral
<1>8. CASE m > to
  <2>1. m \notin DOMAIN b /\ (IF m - 1 <= to THEN m - 1 ELSE to) = to
    BY <1>2, <1>4, <1>8
  <2> QED BY <1>2, <1>5, <1>6, <1>8, <2>1
<1> QED BY <1>2, <1>7, <1>8

-----------------------------------------------------------------------------
(* Connection state.                                                       *)

ConnEvent == [session : Nat, epoch : Epochs, frame : Nat, type : ConnTypes, conn : Conn,
              bytes : Nat, from : Nat]
OtherEvent == [session : Nat, epoch : Epochs, frame : Nat, type : {"Residual", "Other"},
               bytes : Nat, from : Nat]
Event == ConnEvent \cup OtherEvent

Key == Nat \X Epochs \X Conn
Row == [first : Nat, last : Nat, gone : Nat, bytes : Nat, class : Classes]
IsState(conns) == DOMAIN conns \subseteq Key /\ conns \in [DOMAIN conns -> Row]

LEMMA EventNames ==
  ASSUME NEW e \in Event, NamesConn(e)
  PROVE  e \in ConnEvent /\ KeyOf(e) \in Key
<1>1. e \in ConnEvent
  BY DEF NamesConn, Event, ConnEvent, OtherEvent, ConnTypes
<1> QED BY <1>1 DEF ConnEvent, KeyOf, Key

LEMMA MergeIs ==
  ASSUME NEW conns, NEW e, NamesConn(e)
  PROVE  Merge(conns, e) =
           [k \in {KeyOf(e)} \cup DOMAIN conns |->
              IF k = KeyOf(e)
                THEN Advanced(IF KeyOf(e) \in DOMAIN conns THEN conns[KeyOf(e)] ELSE NewRow(e), e)
                ELSE conns[k]]
<1> DEFINE row(k) == Advanced(IF k \in DOMAIN conns THEN conns[k] ELSE NewRow(e), e)
           one == [k \in {KeyOf(e)} |-> row(k)]
<1>1. Merge(conns, e) = With(one, conns)
  BY Zenon DEF Merge
<1>2. DOMAIN one = {KeyOf(e)} /\ one[KeyOf(e)] = row(KeyOf(e))
  OBVIOUS
<1> HIDE DEF row, one
<1>3. With(one, conns) = [k \in {KeyOf(e)} \cup DOMAIN conns |->
                           IF k = KeyOf(e) THEN row(KeyOf(e)) ELSE conns[k]]
  BY <1>2 DEF With
<1> QED BY <1>1, <1>3 DEF row

LEMMA RowAdvances ==
  ASSUME NEW row \in Row, NEW e \in ConnEvent
  PROVE  /\ Advanced(row, e) \in Row /\ Advanced(row, e).class = row.class
         /\ Advanced([row EXCEPT !.class = "unique"], e) = [Advanced(row, e) EXCEPT !.class = "unique"]
<1>1. GoneAfter(e, row.gone) \in Nat /\ e.frame \in Nat /\ e.bytes \in Nat
  BY DEF GoneAfter, Row, ConnEvent, NoFrame
<1>2. [row EXCEPT !.class = "unique"] \in Row
  BY DEF Row, Classes
<1>3. /\ Advanced(row, e) \in Row /\ Advanced(row, e).class = row.class
  <2>1. PICK gone \in Nat : gone = GoneAfter(e, row.gone)
    BY <1>1
  <2>2. Advanced(row, e) = [row EXCEPT !.last = e.frame, !.bytes = row.bytes + e.bytes, !.gone = gone]
    BY <2>1, Zenon DEF Advanced
  <2>3. row.bytes + e.bytes \in Nat
    BY <1>1 DEF Row
  <2> QED BY <1>1, <2>2, <2>3 DEF Row
<1>4. Advanced([row EXCEPT !.class = "unique"], e) = [Advanced(row, e) EXCEPT !.class = "unique"]
  BY <1>1, <1>2 DEF Advanced, Row
<1> QED BY <1>3, <1>4

LEMMA MergeKeeps ==
  ASSUME NEW conns, IsState(conns), NEW e \in Event
  PROVE  /\ IsState(Merge(conns, e))
         /\ DOMAIN Merge(conns, e) = DOMAIN conns \cup {k \in {KeyOf(e)} : NamesConn(e)}
         /\ \A k \in DOMAIN conns : Merge(conns, e)[k].class = conns[k].class
         /\ Plain(Merge(conns, e)) = Merge(Plain(conns), e)
<1>1. CASE ~NamesConn(e)
  BY <1>1 DEF Merge, IsState
<1>2. CASE NamesConn(e)
  <2> DEFINE old == IF KeyOf(e) \in DOMAIN conns THEN conns[KeyOf(e)] ELSE NewRow(e)
             new == Merge(conns, e)
             plain(r) == [r EXCEPT !.class = "unique"]
  <2>1. e \in ConnEvent /\ KeyOf(e) \in Key
    BY <1>2, EventNames
  <2>2. NewRow(e) \in Row /\ plain(NewRow(e)) = NewRow(e)
    BY <2>1 DEF NewRow, Row, ConnEvent, NoFrame, Classes
  <2>3. old \in Row
    BY <2>2 DEF IsState
  <2>4. /\ new = [k \in {KeyOf(e)} \cup DOMAIN conns |->
                    IF k = KeyOf(e) THEN Advanced(old, e) ELSE conns[k]]
    BY <1>2, MergeIs
  <2>5. /\ Advanced(old, e) \in Row /\ Advanced(old, e).class = old.class
        /\ Advanced(plain(old), e) = plain(Advanced(old, e))
    BY <2>1, <2>3, RowAdvances
  <2>6. IsState(new) /\ DOMAIN new = DOMAIN conns \cup {KeyOf(e)}
    <3> HIDE DEF old, new
    <3> QED BY <2>1, <2>4, <2>5 DEF IsState
  <2>7. \A k \in DOMAIN conns : new[k].class = conns[k].class
    BY <2>4, <2>5
  <2>8. Plain(new) = Merge(Plain(conns), e)
    <3>1. Plain(new) = [k \in {KeyOf(e)} \cup DOMAIN conns |->
                          IF k = KeyOf(e) THEN plain(Advanced(old, e)) ELSE plain(conns[k])]
      <4> HIDE DEF old, new
      <4> QED BY <2>4 DEF Plain
    <3>2. DOMAIN Plain(conns) = DOMAIN conns
          /\ \A k \in DOMAIN conns : Plain(conns)[k] = plain(conns[k])
      BY DEF Plain
    <3>3. (IF KeyOf(e) \in DOMAIN Plain(conns) THEN Plain(conns)[KeyOf(e)] ELSE NewRow(e)) = plain(old)
      BY <2>2, <3>2
    <3>4. Merge(Plain(conns), e) =
            [k \in {KeyOf(e)} \cup DOMAIN conns |->
               IF k = KeyOf(e) THEN Advanced(plain(old), e) ELSE Plain(conns)[k]]
      <4> DEFINE base == Plain(conns)
      <4>1. Merge(base, e) =
              [k \in {KeyOf(e)} \cup DOMAIN base |->
                 IF k = KeyOf(e)
                   THEN Advanced(IF KeyOf(e) \in DOMAIN base THEN base[KeyOf(e)] ELSE NewRow(e), e)
                   ELSE base[k]]
        BY <1>2, MergeIs
      <4> HIDE DEF old, plain
      <4> QED BY <3>2, <3>3, <4>1
    <3> HIDE DEF old, new, plain
    <3> QED BY <2>5, <3>1, <3>2, <3>4
  <2> HIDE DEF new
  <2> QED BY <1>2, <2>6, <2>7, <2>8 DEF new
<1> QED BY <1>1, <1>2

KeysIn(l, from, to) == {KeyOf(l[i]) : i \in {j \in from+1..to : NamesConn(l[j])}}

\* A range of a journal of events, and what MergeRange makes of it.
IsRange(l, conns, from, to) ==
  l \in Seq(Event) /\ IsState(conns) /\ from \in Nat /\ to \in Nat /\ from <= to /\ to <= Len(l)

SameClasses(old, new) == \A k \in DOMAIN old : new[k].class = old[k].class

Kept(l, conns, from, to) ==
  /\ IsState(After(l, conns, from, to))
  /\ DOMAIN After(l, conns, from, to) = DOMAIN conns \cup KeysIn(l, from, to)
  /\ SameClasses(conns, After(l, conns, from, to))
  /\ Plain(After(l, conns, from, to)) = After(l, Plain(conns), from, to)

LEMMA AfterKeeps ==
  ASSUME NEW l, NEW conns, NEW from, NEW to, IsRange(l, conns, from, to)
  PROVE  Kept(l, conns, from, to)
<1>0. /\ l \in Seq(Event) /\ IsState(conns) /\ from \in Nat /\ to \in Nat /\ from <= to
      /\ to <= Len(l)
  BY DEF IsRange
<1> DEFINE Keeps(n) == Kept(l, conns, from, n)
           Bad == {n \in Nat : from <= n /\ n <= to /\ ~Keeps(n)}
<1> USE <1>0
<1> SUFFICES Keeps(to)
  OBVIOUS
<1> HIDE DEF Keeps
<1>1. SUFFICES ASSUME Bad # {} PROVE FALSE
  OBVIOUS
<1>2. PICK m \in Bad : \A k \in Bad : m <= k
  BY <1>1, Least
<1>3. Keeps(from)
  <2>1. After(l, conns, from, from) = conns /\ After(l, Plain(conns), from, from) = Plain(conns)
    BY AfterSteps
  <2>2. KeysIn(l, from, from) = {}
    BY DEF KeysIn
  <2> QED BY <2>1, <2>2 DEF Keeps, Kept, SameClasses
<1>4. m - 1 \in Nat /\ from <= m - 1 /\ m - 1 <= to /\ (m - 1) + 1 = m /\ ~(m <= m - 1)
      /\ m \in 1..Len(l)
  BY <1>2, <1>3
<1>5. Keeps(m - 1) /\ l[m] \in Event
  BY <1>2, <1>4
<1>6. /\ After(l, conns, from, m) = Merge(After(l, conns, from, m - 1), l[m])
      /\ After(l, Plain(conns), from, m) = Merge(After(l, Plain(conns), from, m - 1), l[m])
  <2>1. ASSUME NEW c, NEW p \in Nat, from \in Nat, from <= p
        PROVE  After(l, c, from, p + 1) = Merge(After(l, c, from, p), l[p + 1])
    BY ONLY <2>1, AfterSteps, ZenonT(40)
  <2>2. PICK p \in Nat : p = m - 1
    BY <1>4
  <2> QED BY <1>4, <2>1, <2>2
<1>7. KeysIn(l, from, m) = KeysIn(l, from, m - 1) \cup {k \in {KeyOf(l[m])} : NamesConn(l[m])}
  <2>1. {j \in from+1..m : NamesConn(l[j])} =
          {j \in from+1..(m - 1) : NamesConn(l[j])} \cup {j \in {m} : NamesConn(l[j])}
    BY <1>4
  <2> QED BY <2>1, Zenon DEF KeysIn
<1>8. Keeps(m)
  <2> DEFINE c == After(l, conns, from, m - 1)
  <2>0. IsState(c)
    BY <1>5 DEF Keeps, Kept, SameClasses
  <2>1. /\ IsState(Merge(c, l[m]))
        /\ DOMAIN Merge(c, l[m]) = DOMAIN c \cup {k \in {KeyOf(l[m])} : NamesConn(l[m])}
        /\ \A k \in DOMAIN c : Merge(c, l[m])[k].class = c[k].class
        /\ Plain(Merge(c, l[m])) = Merge(Plain(c), l[m])
    BY <1>5, <2>0, MergeKeeps
  <2>2. DOMAIN Merge(c, l[m]) = DOMAIN conns \cup KeysIn(l, from, m)
    BY <1>5, <1>7, <2>1 DEF Keeps, Kept, SameClasses
  <2> QED BY <1>5, <1>6, <2>1, <2>2 DEF Keeps, Kept, SameClasses
<1> QED BY <1>2, <1>8

\* In two parts it comes to the same.
LEMMA AfterJoins ==
  ASSUME NEW l, NEW conns, NEW a \in Nat, NEW b \in Nat, NEW c \in Nat, a <= b, b <= c
  PROVE  After(l, After(l, conns, a, b), b, c) = After(l, conns, a, c)
<1> DEFINE start == After(l, conns, a, b)
           Bad == {n \in Nat : b <= n /\ After(l, start, b, n) # After(l, conns, a, n)}
<1>1. SUFFICES ASSUME Bad # {} PROVE FALSE
  OBVIOUS
<1>2. PICK m \in Bad : \A k \in Bad : m <= k
  BY <1>1, Least
<1>3. m # b
  BY <1>2, AfterSteps
<1>4. PICK p \in Nat : m = p + 1 /\ b <= p /\ a <= p /\ ~(m <= p)
  <2>1. m - 1 \in Nat /\ m = (m - 1) + 1 /\ b <= m - 1 /\ a <= m - 1 /\ ~(m <= m - 1)
    BY <1>2, <1>3
  <2> QED BY <2>1
<1>5. After(l, start, b, p) = After(l, conns, a, p)
  BY <1>2, <1>4
<1> HIDE DEF start, Bad
<1>6. After(l, start, b, p + 1) = Merge(After(l, start, b, p), l[p + 1])
  <2>1. b \in Nat /\ p \in Nat /\ b <= p
    BY <1>4
  <2> QED BY ONLY <2>1, AfterSteps, ZenonT(40)
<1>7. After(l, conns, a, p + 1) = Merge(After(l, conns, a, p), l[p + 1])
  <2>1. a \in Nat /\ p \in Nat /\ a <= p
    BY <1>4
  <2> QED BY ONLY <2>1, AfterSteps, ZenonT(40)
<1> QED BY <1>2, <1>4, <1>5, <1>6, <1>7 DEF Bad

\* Events beyond the range do not matter.
LEMMA AfterAgrees ==
  ASSUME NEW l, NEW longer, NEW conns, NEW from \in Nat, NEW to \in Nat, from <= to,
         \A i \in from+1..to : longer[i] = l[i]
  PROVE  After(longer, conns, from, to) = After(l, conns, from, to)
<1> DEFINE Bad == {n \in Nat : /\ from <= n /\ n <= to
                               /\ After(longer, conns, from, n) # After(l, conns, from, n)}
<1>1. SUFFICES ASSUME Bad # {} PROVE FALSE
  OBVIOUS
<1>2. PICK m \in Bad : \A k \in Bad : m <= k
  BY <1>1, Least
<1>3. m # from
  BY <1>2, AfterSteps
<1>4. PICK p \in Nat : m = p + 1 /\ from <= p /\ p <= to /\ ~(m <= p) /\ m \in from+1..to
  <2>1. m - 1 \in Nat /\ m = (m - 1) + 1 /\ from <= m - 1 /\ m - 1 <= to /\ ~(m <= m - 1)
        /\ m \in from+1..to
    BY <1>2, <1>3
  <2> QED BY <2>1
<1>5. After(longer, conns, from, p) = After(l, conns, from, p)
  BY <1>2, <1>4
<1> HIDE DEF Bad
<1>6. After(longer, conns, from, p + 1) = Merge(After(longer, conns, from, p), longer[p + 1])
  <2>1. from \in Nat /\ p \in Nat /\ from <= p
    BY <1>4
  <2> QED BY ONLY <2>1, AfterSteps, ZenonT(40)
<1>7. After(l, conns, from, p + 1) = Merge(After(l, conns, from, p), l[p + 1])
  <2>1. from \in Nat /\ p \in Nat /\ from <= p
    BY <1>4
  <2> QED BY ONLY <2>1, AfterSteps, ZenonT(40)
<1> QED BY <1>2, <1>4, <1>5, <1>6, <1>7 DEF Bad

-----------------------------------------------------------------------------
(* The invariant.                                                          *)

SameFrame(i, j) == log[i].session = log[j].session /\ log[i].frame = log[j].frame

\* Sessions and frames follow each other, and the residual is the last word of a
\* frame about connections.
JournalInv ==
  /\ log \in Seq(Event) /\ running \in Seq(BOOLEAN)
  /\ \A s \in DOMAIN running : running[s] => s = Current
  /\ \A i \in DOMAIN log : log[i].session \in 1..Current
  /\ \A i, j \in DOMAIN log : i < j =>
       /\ log[i].session <= log[j].session
       /\ log[i].session = log[j].session => log[i].frame <= log[j].frame
       /\ SameFrame(i, j) /\ log[i].type = "Residual" => ~NamesConn(log[j])

\* The journal up to n does not end inside a frame that may still be written to.
Whole(n) ==
  n > 0 /\ running[log[n].session] =>
    /\ \E j \in DOMAIN log : /\ log[j].session = log[n].session
                             /\ \/ log[j].frame > log[n].frame
                                \/ log[j].frame = log[n].frame /\ log[j].type = "Residual"
    /\ \A i \in DOMAIN log : i > n /\ SameFrame(i, n) => ~NamesConn(log[i])

States == UNION {[K -> Row] : K \in SUBSET Key}
Plans == UNION {[K -> Classes] : K \in SUBSET Key}
RowSets == UNION {[S -> [acc : Nat, class : Classes]] : S \in SUBSET (Nat \ {0})}

Generation ==
  [id : Nat, status : {"none", "seeding", "materializing", "active", "failed", "superseded"},
   boundary : Nat, seedLast : Nat, matLast : Nat, published : Nat, raw : Int, acc : Int,
   conns : States, rows : RowSets, exact : [Buckets -> Int], estimated : [Buckets -> Int],
   counted : SUBSET ((Nat \X Int) \X Key)]

Job == [stage : {"measure", "verify", "ready"}, gen : Nat,
        mode : {"seeding", "materializing", "active"}, from : Nat, boundary : Nat, to : Nat,
        plan : Plans]

TypeInv ==
  /\ gen \in Generation
  /\ job \in [Worker -> {NoJob} \cup Job]
  /\ faults \in Nat

\* A chunk lies in the journal, and when it is ready it ends with a frame.
ChunkOf(j) ==
  /\ j.from < j.to /\ j.to <= j.boundary /\ j.boundary <= Len(log)
  /\ j.stage = "verify" => \A i \in InFrameOf(j.to) : i <= j.to \/ i > j.boundary
  /\ j.stage = "ready" => Whole(j.to)
  /\ j.stage = "ready" /\ j.mode = "active" => DirtyKeys(j.from, j.to) \subseteq DOMAIN j.plan

Serving == gen.status \in {"active", "superseded"}

\* A seed is worked at by one, from where it has come to.
Fits(w, j) ==
  /\ ChunkOf(j)
  /\ j.mode = "active" => Serving
  /\ j.mode # "active" =>
       /\ Alone(w) /\ gen.status = j.mode /\ j.boundary = gen.boundary
       /\ j.from = IF gen.status = "seeding" THEN gen.seedLast ELSE gen.matLast

JobInv == \A w \in Worker : job[w] # NoJob => Fits(w, job[w])

RowsTo == IF Serving THEN gen.published
          ELSE IF gen.status \in {"materializing", "failed"} THEN gen.matLast ELSE 0

PlaceInv ==
  /\ gen.boundary <= Len(log) /\ gen.published <= Len(log)
  /\ gen.seedLast <= gen.boundary /\ gen.matLast <= gen.boundary
  /\ Whole(gen.seedLast) /\ Whole(gen.matLast) /\ Whole(gen.published)

StateInv == Plain(gen.conns) = After(log, << >>, 0, Covered)

RowsInv ==
  /\ DOMAIN gen.rows = Traffic(0, RowsTo)
  /\ \A i \in DOMAIN gen.rows :
       gen.rows[i].acc = Accounted(log[i].bytes, gen.conns[KeyOf(log[i])].class)

TotalsInv == Serving => gen.raw = AddedBytes(gen.rows) /\ gen.acc = AddedAccounted(gen.rows)

AccountingInv ==
  /\ JournalInv /\ TypeInv /\ JobInv /\ PlaceInv /\ StateInv /\ RowsInv /\ TotalsInv
  /\ HoursFollowRows

-----------------------------------------------------------------------------
(* The journal as the collector writes it.                                 *)

Grows == (CollectorWrites \/ SessionBegins \/ SessionEnds)

LEMMA Written ==
  ASSUME JournalInv, CollectorWrites
  PROVE  /\ \E e \in Event : MayFollow(e) /\ log' = Append(log, e)
         /\ running' = running
<1>1. JournalInv /\ Current \in Nat
  BY DEF JournalInv, Current
<1>2. PICK n : n = Latest(log, Current, "frame")
  OBVIOUS
<1>3. PICK frame \in 0..MaxFrames, epoch \in Epochs :
        \/ \E type \in Types \cap ConnTypes, c \in Conn : \E p \in Payloads(type, frame) :
             Appends([session |-> Current, epoch |-> epoch, frame |-> frame,
                      type |-> type, conn |-> c, bytes |-> p.bytes, from |-> p.from])
        \/ \E type \in Types \ ConnTypes :
             Appends([session |-> Current, epoch |-> epoch, frame |-> frame,
                      type |-> type, bytes |-> 0, from |-> NoFrame])
  BY DEF CollectorWrites
<1>4. /\ 0..MaxFrames \subseteq Nat /\ Types \ ConnTypes \subseteq {"Residual", "Other"}
      /\ Bytes \subseteq Nat /\ Spans \subseteq Nat
  BY BoundsAssumption
<1>5. ASSUME NEW type, NEW p \in Payloads(type, frame)
      PROVE  p.bytes \in Nat /\ p.from \in Nat
  <2>1. CASE type \in {"New", "Seen"}
    <3>1. p.bytes \in Bytes /\ (p.from = NoFrame \/ \E ago \in Spans : ago < frame /\ p.from = frame - ago)
      BY <2>1 DEF Payloads
    <3>2. frame \in Nat /\ p.bytes \in Nat /\ Spans \subseteq Nat
      BY <1>4, <3>1
    <3> QED BY <3>1, <3>2 DEF NoFrame
  <2>2. CASE type \notin {"New", "Seen"}
    BY <2>2 DEF Payloads, NoFrame
  <2> QED BY <2>1, <2>2
<1>6. CASE \E type \in Types \cap ConnTypes, c \in Conn : \E p \in Payloads(type, frame) :
             Appends([session |-> Current, epoch |-> epoch, frame |-> frame,
                      type |-> type, conn |-> c, bytes |-> p.bytes, from |-> p.from])
  <2>1. PICK type \in Types \cap ConnTypes, c \in Conn : \E p \in Payloads(type, frame) :
             Appends([session |-> Current, epoch |-> epoch, frame |-> frame,
                      type |-> type, conn |-> c, bytes |-> p.bytes, from |-> p.from])
    BY <1>6
  <2>2. PICK p \in Payloads(type, frame) :
             Appends([session |-> Current, epoch |-> epoch, frame |-> frame,
                      type |-> type, conn |-> c, bytes |-> p.bytes, from |-> p.from])
    BY <2>1
  <2> DEFINE e == [session |-> Current, epoch |-> epoch, frame |-> frame,
                   type |-> type, conn |-> c, bytes |-> p.bytes, from |-> p.from]
  <2>3. e \in Event
    BY <1>1, <1>4, <1>5 DEF Event, ConnEvent
  <2> QED BY <2>2, <2>3 DEF Appends
<1>7. CASE \E type \in Types \ ConnTypes :
             Appends([session |-> Current, epoch |-> epoch, frame |-> frame,
                      type |-> type, bytes |-> 0, from |-> NoFrame])
  <2>1. PICK type \in Types \ ConnTypes :
             Appends([session |-> Current, epoch |-> epoch, frame |-> frame,
                      type |-> type, bytes |-> 0, from |-> NoFrame])
    BY <1>7
  <2> DEFINE e == [session |-> Current, epoch |-> epoch, frame |-> frame,
                   type |-> type, bytes |-> 0, from |-> NoFrame]
  <2>2. e \in Event
    BY <1>1, <1>4 DEF Event, OtherEvent, NoFrame
  <2> QED BY <2>1, <2>2 DEF Appends
<1> QED BY <1>3, <1>6, <1>7

\* The number of the last frame of the current session.
LEMMA LatestFrame ==
  ASSUME JournalInv, NEW i \in DOMAIN log, log[i].session = Current
  PROVE  /\ Latest(log, Current, "frame") = log[Len(log)].frame
         /\ log[Len(log)].session = Current
<1>1. /\ Len(log) \in DOMAIN log /\ DOMAIN log = 1..Len(log) /\ Len(log) \in Nat
      /\ log[Len(log)].session = Current
  BY DEF JournalInv
<1>2. Len(log) \in Events(log, Current) /\ \A j \in Events(log, Current) : j <= Len(log)
  BY <1>1 DEF Events
<1> DEFINE mine == Events(log, Current)
           last == CHOOSE k \in mine : \A j \in mine : j <= k
<1>3. last \in mine /\ \A j \in mine : j <= last
  BY <1>2, Zenon
<1>4. mine \subseteq 1..Len(log)
  BY <1>1 DEF Events
<1>5. last = Len(log)
  BY <1>1, <1>2, <1>3, <1>4
<1>6. mine # {}
  BY <1>2
<1> QED BY <1>1, <1>5, <1>6, Zenon DEF Latest

LEMMA JournalGrows ==
  ASSUME JournalInv, Grows
  PROVE  JournalInv'
<1>1. /\ log \in Seq(Event) /\ running \in Seq(BOOLEAN) /\ DOMAIN log = 1..Len(log)
      /\ DOMAIN running = 1..Len(running) /\ Current = Len(running) /\ Len(log) \in Nat
      /\ Len(running) \in Nat
  BY DEF JournalInv, Current
<1>2. CASE CollectorWrites
  <2>1. PICK e \in Event : MayFollow(e) /\ log' = Append(log, e)
    BY <1>2, Written
  <2>2. running' = running /\ Current' = Current
    BY <1>2, Written DEF Current
  <2>3. /\ log' \in Seq(Event) /\ Len(log') = Len(log) + 1 /\ log'[Len(log) + 1] = e
        /\ \A i \in 1..Len(log) : log'[i] = log[i]
    BY <1>1, <2>1
  <2>4. e.session = Current /\ Current > 0
    BY <2>1 DEF MayFollow
  <2>5. ASSUME NEW i \in DOMAIN log
        PROVE  /\ log[i].session <= e.session
               /\ log[i].session = e.session =>
                    /\ log[i].frame <= e.frame
                    /\ log[i].frame = e.frame /\ log[i].type = "Residual" => ~NamesConn(e)
    <3>1. log[i].session <= e.session
      BY <2>4 DEF JournalInv
    <3>2. CASE log[i].session = e.session
      <4> DEFINE n == Latest(log, Current, "frame")
      <4>1. n = log[Len(log)].frame /\ log[Len(log)].session = Current
        BY <2>4, <3>2, LatestFrame
      <4>2. log[i].frame <= n /\ n \in Nat /\ log[i].frame \in Nat /\ e.frame \in Nat
        <5>1. i = Len(log) \/ i < Len(log)
          BY <1>1
        <5>2. log[i] \in Event /\ log[Len(log)] \in Event
          BY <1>1
        <5>3. \A x \in Event : x.frame \in Nat
          BY DEF Event, ConnEvent, OtherEvent
        <5>4. log[i].frame <= log[Len(log)].frame
          BY <1>1, <2>4, <3>2, <4>1, <5>1, <5>2, <5>3 DEF JournalInv
        <5> QED BY <4>1, <5>2, <5>3, <5>4
      <4>3. e.frame = n \/ e.frame = n + 1
        BY <2>1, <2>4 DEF MayFollow, InFrameOrder
      <4>4. ASSUME log[i].frame = e.frame, log[i].type = "Residual" PROVE ~NamesConn(e)
        <5>1. e.frame = n /\ e.frame # n + 1
          BY <4>2, <4>3, <4>4
        <5>2. Finished(log, e.session, n)
          BY <3>2, <4>4, <5>1 DEF Finished, InFrame, Events
        <5>3. e.type = "Other"
          BY <2>1, <2>4, <5>1, <5>2 DEF MayFollow, InFrameOrder
        <5> QED BY <5>3 DEF NamesConn, ConnTypes
      <4> HIDE DEF n
      <4> QED BY <3>1, <4>2, <4>3, <4>4
    <3> QED BY <3>1, <3>2
  <2>6. DOMAIN log' = DOMAIN log \cup {Len(log) + 1}
    BY <1>1, <2>3
  <2>7. \A i \in DOMAIN log' : log'[i].session \in 1..Current'
    BY <1>1, <2>2, <2>3, <2>4, <2>6 DEF JournalInv
  <2>8. ASSUME NEW i \in DOMAIN log', NEW j \in DOMAIN log', i < j
        PROVE  /\ log'[i].session <= log'[j].session
               /\ log'[i].session = log'[j].session => log'[i].frame <= log'[j].frame
               /\ SameFrame(i, j)' /\ log'[i].type = "Residual" => ~NamesConn(log'[j])
    <3>1. i \in DOMAIN log /\ log'[i] = log[i]
      BY <1>1, <2>3, <2>6, <2>8
    <3>2. CASE j = Len(log) + 1
      BY <2>3, <2>5, <3>1, <3>2 DEF SameFrame
    <3>3. CASE j \in DOMAIN log
      <4>1. log'[j] = log[j]
        BY <1>1, <2>3, <3>3
      <4> QED BY <2>8, <3>1, <3>3, <4>1 DEF JournalInv, SameFrame
    <3> QED BY <2>6, <3>2, <3>3
  <2> QED BY <2>2, <2>3, <2>7, <2>8 DEF JournalInv
<1>3. CASE SessionBegins
  <2>1. running' = Append([s \in DOMAIN running |-> FALSE], TRUE) /\ log' = log
    BY <1>3 DEF SessionBegins, Begins
  <2>2. /\ [s \in DOMAIN running |-> FALSE] \in Seq(BOOLEAN)
        /\ Len([s \in DOMAIN running |-> FALSE]) = Len(running)
    BY <1>1
  <2>3. /\ running' \in Seq(BOOLEAN) /\ Len(running') = Len(running) + 1
        /\ \A s \in 1..Len(running) : running'[s] = FALSE
    BY <1>1, <2>1, <2>2
  <2> QED BY <1>1, <2>1, <2>3 DEF JournalInv, SameFrame, Current
<1>4. CASE SessionEnds
  <2>1. running' = [running EXCEPT ![Current] = FALSE] /\ log' = log
    BY <1>4 DEF SessionEnds, Ends
  <2>2. /\ running' \in Seq(BOOLEAN) /\ Len(running') = Len(running)
        /\ \A s \in DOMAIN running : running'[s] => running[s]
    <3>1. Current \in 1..Len(running)
      BY <1>1, <1>4 DEF SessionEnds, Ends
    <3> QED BY <1>1, <2>1, <3>1, ExceptSeq
  <2> QED BY <1>1, <2>1, <2>2 DEF JournalInv, SameFrame, Current
<1> QED BY <1>2, <1>3, <1>4 DEF Grows

\* What the collector adds: nothing to what there is.
LEMMA JournalStays ==
  ASSUME JournalInv, Grows
  PROVE  /\ log' \in Seq(Event) /\ Len(log) <= Len(log') /\ Len(log') \in Nat /\ Len(log) \in Nat
         /\ \A i \in 1..Len(log) : log'[i] = log[i]
         /\ \A s \in DOMAIN running : running'[s] => running[s]
         /\ gen' = gen /\ job' = job /\ faults' = faults
<1>1. /\ log \in Seq(Event) /\ running \in Seq(BOOLEAN) /\ DOMAIN log = 1..Len(log)
      /\ DOMAIN running = 1..Len(running) /\ Len(log) \in Nat /\ Len(running) \in Nat
  BY DEF JournalInv
<1>2. CASE CollectorWrites
  <2>1. PICK e \in Event : log' = Append(log, e)
    BY <1>2, Written
  <2>2. running' = running
    BY <1>2, Written
  <2>3. /\ log' \in Seq(Event) /\ Len(log') = Len(log) + 1
        /\ \A i \in 1..Len(log) : log'[i] = log[i]
    BY <1>1, <2>1
  <2> QED BY <1>1, <1>2, <2>2, <2>3 DEF CollectorWrites
<1>3. CASE SessionBegins
  <2>1. running' = Append([s \in DOMAIN running |-> FALSE], TRUE) /\ log' = log
    BY <1>3 DEF SessionBegins, Begins
  <2>2. /\ [s \in DOMAIN running |-> FALSE] \in Seq(BOOLEAN)
        /\ Len([s \in DOMAIN running |-> FALSE]) = Len(running)
    BY <1>1
  <2>3. \A s \in DOMAIN running : running'[s] = FALSE
    BY <1>1, <2>1, <2>2
  <2> QED BY <1>1, <1>3, <2>1, <2>3 DEF SessionBegins
<1>4. CASE SessionEnds
  <2>1. running' = [running EXCEPT ![Current] = FALSE] /\ log' = log
    BY <1>4 DEF SessionEnds, Ends
  <2> QED BY <1>1, <1>4, <2>1 DEF SessionEnds
<1> QED BY <1>2, <1>3, <1>4 DEF Grows

-----------------------------------------------------------------------------
(* Frames.                                                                 *)

LEMMA LeastOf ==
  ASSUME NEW S \in SUBSET Nat, S # {}
  PROVE  Min(S) \in S /\ \A x \in S : Min(S) <= x
<1>1. \E m \in S : \A x \in S : m <= x
  BY Least
<1> QED BY <1>1, Zenon DEF Min

LEMMA GreatestOf ==
  ASSUME NEW n \in Nat, NEW S \in SUBSET (1..n), S # {}
  PROVE  Max(S) \in S /\ \A x \in S : x <= Max(S)
<1> DEFINE T == {n - x : x \in S}
<1>1. T \in SUBSET Nat /\ T # {}
  <2>1. PICK x \in S : TRUE
    OBVIOUS
  <2>2. n - x \in T
    BY <2>1
  <2>3. \A y \in S : n - y \in Nat
    OBVIOUS
  <2> QED BY <2>2, <2>3
<1>2. PICK m \in T : \A y \in T : m <= y
  BY <1>1, Least
<1>3. PICK g \in S : m = n - g
  OBVIOUS
<1>4. \A x \in S : g >= x
  BY <1>2, <1>3
<1>5. Max(S) \in S /\ \A x \in S : Max(S) >= x
  BY <1>4, Zenon DEF Max
<1> QED BY <1>5

LEMMA EventTyped ==
  ASSUME JournalInv, NEW i \in DOMAIN log
  PROVE  /\ i \in 1..Len(log) /\ Len(log) \in Nat /\ log[i] \in Event
         /\ log[i].frame \in Nat /\ log[i].session \in Nat /\ log[i].bytes \in Nat
         /\ log[i].session \in DOMAIN running
<1>1. i \in 1..Len(log) /\ Len(log) \in Nat /\ log[i] \in Event
  BY DEF JournalInv
<1>2. log[i].session \in 1..Len(running) /\ DOMAIN running = 1..Len(running)
  BY DEF JournalInv, Current
<1> QED BY <1>1, <1>2 DEF Event, ConnEvent, OtherEvent

LEMMA WholeStays ==
  ASSUME JournalInv, Grows, NEW n \in Nat, n <= Len(log), Whole(n)
  PROVE  Whole(n)'
<1>1. /\ JournalInv' /\ Len(log) <= Len(log') /\ Len(log) \in Nat /\ Len(log') \in Nat
      /\ DOMAIN log = 1..Len(log) /\ DOMAIN log' = 1..Len(log')
      /\ \A i \in 1..Len(log) : log'[i] = log[i]
      /\ \A s \in DOMAIN running : running'[s] => running[s]
  BY JournalGrows, JournalStays DEF JournalInv
<1>2. SUFFICES ASSUME n > 0, running'[log'[n].session]
               PROVE  /\ \E j \in DOMAIN log' :
                           /\ log'[j].session = log'[n].session
                           /\ \/ log'[j].frame > log'[n].frame
                              \/ log'[j].frame = log'[n].frame /\ log'[j].type = "Residual"
                      /\ \A i \in DOMAIN log' : i > n /\ SameFrame(i, n)' => ~NamesConn(log'[i])
  BY DEF Whole
<1>3. n \in DOMAIN log /\ log'[n] = log[n] /\ running[log[n].session]
  BY <1>1, <1>2, EventTyped
<1>4. PICK j \in DOMAIN log : /\ log[j].session = log[n].session
                             /\ \/ log[j].frame > log[n].frame
                                \/ log[j].frame = log[n].frame /\ log[j].type = "Residual"
  BY <1>2, <1>3 DEF Whole
<1>5. j \in DOMAIN log' /\ log'[j] = log[j]
  BY <1>1
<1>6. ASSUME NEW i \in DOMAIN log', i > n, SameFrame(i, n)' PROVE ~NamesConn(log'[i])
  <2>1. CASE i \in DOMAIN log
    BY <1>1, <1>2, <1>3, <1>6, <2>1 DEF Whole, SameFrame
  <2>2. CASE i > Len(log)
    <3>1. j < i /\ log'[j].session = log'[i].session /\ log'[i].frame = log'[n].frame
      BY <1>1, <1>3, <1>4, <1>5, <1>6, <2>2 DEF SameFrame
    <3>2. log'[j].frame <= log'[i].frame
      BY <1>1, <1>5, <3>1 DEF JournalInv
    <3>3. log[n].frame \in Nat /\ log[j].frame \in Nat
      BY <1>3, EventTyped
    <3>4. log'[j].frame = log'[i].frame /\ log'[j].type = "Residual"
      BY <1>3, <1>4, <1>5, <3>1, <3>2, <3>3
    <3> QED BY <1>1, <1>5, <3>1, <3>4 DEF JournalInv, SameFrame
  <2> QED BY <1>1, <2>1, <2>2
<1> QED BY <1>3, <1>4, <1>5, <1>6

\* A frame found complete is whole up to the last of it that had been measured.
LEMMA FrameEnds ==
  ASSUME JournalInv, NEW to \in DOMAIN log, NEW boundary \in Nat, boundary <= Len(log),
         \A i \in InFrameOf(to) : i <= to \/ i > boundary, FrameIsComplete(to, boundary)
  PROVE  Whole(to)
<1>1. DOMAIN log = 1..Len(log) /\ Len(log) \in Nat
  BY DEF JournalInv
<1>2. SUFFICES ASSUME running[log[to].session]
               PROVE  /\ \E j \in DOMAIN log :
                           /\ log[j].session = log[to].session
                           /\ \/ log[j].frame > log[to].frame
                              \/ log[j].frame = log[to].frame /\ log[j].type = "Residual"
                      /\ \A i \in DOMAIN log : i > to /\ SameFrame(i, to) => ~NamesConn(log[i])
  BY DEF Whole
<1>3. PICK j \in 1..boundary :
        /\ log[j].session = log[to].session
        /\ \/ log[j].frame > log[to].frame
           \/ log[j].frame = log[to].frame /\ log[j].type = "Residual"
  BY <1>2 DEF FrameIsComplete, InFrameOf
<1>4. ASSUME NEW i \in DOMAIN log, i > to, SameFrame(i, to) PROVE ~NamesConn(log[i])
  <2>1. i \in InFrameOf(to)
    BY <1>4 DEF SameFrame, InFrameOf
  <2>2. j < i /\ j \in DOMAIN log
    BY <1>1, <1>3, <1>4, <2>1
  <2>3. log[j].frame <= log[i].frame
    BY <1>3, <1>4, <2>2 DEF JournalInv, SameFrame
  <2>4. log[to].frame \in Nat /\ log[j].frame \in Nat /\ log[i].frame \in Nat
    BY <2>2, EventTyped
  <2>5. SameFrame(j, i) /\ log[j].type = "Residual"
    BY <1>3, <1>4, <2>3, <2>4 DEF SameFrame
  <2> QED BY <2>2, <2>5 DEF JournalInv
<1> QED BY <1>1, <1>3, <1>4

\* What comes before a frame is whole.
LEMMA FrameBegins ==
  ASSUME JournalInv, NEW i \in DOMAIN log
  PROVE  Min(InFrameOf(i)) \in 1..i /\ Whole(Min(InFrameOf(i)) - 1)
<1>1. DOMAIN log = 1..Len(log) /\ Len(log) \in Nat
  BY DEF JournalInv
<1>2. InFrameOf(i) \in SUBSET Nat /\ i \in InFrameOf(i) /\ InFrameOf(i) \subseteq DOMAIN log
  BY <1>1 DEF InFrameOf
<1>3. PICK m \in InFrameOf(i) : m = Min(InFrameOf(i)) /\ \A x \in InFrameOf(i) : m <= x
  BY <1>2, LeastOf
<1>4. m \in 1..i /\ SameFrame(m, i)
  <2>1. m \in 1..i
    BY <1>1, <1>2, <1>3
  <2>2. SameFrame(m, i)
    BY <1>3, Zenon DEF InFrameOf, SameFrame
  <2> QED BY <2>1, <2>2
<1>5. Whole(m - 1)
  <2>1. SUFFICES ASSUME m - 1 > 0, running[log[m - 1].session]
                 PROVE  /\ \E j \in DOMAIN log :
                             /\ log[j].session = log[m - 1].session
                             /\ \/ log[j].frame > log[m - 1].frame
                                \/ log[j].frame = log[m - 1].frame /\ log[j].type = "Residual"
                        /\ \A j \in DOMAIN log :
                             j > m - 1 /\ SameFrame(j, m - 1) => ~NamesConn(log[j])
    BY DEF Whole
  <2>2. PICK p \in DOMAIN log : p = m - 1 /\ p < m /\ m \in DOMAIN log
    BY <1>1, <1>2, <1>4, <2>1
  <2>3. p \notin InFrameOf(i)
    BY <1>3, <2>2, <1>1
  <2>4. ~SameFrame(p, m)
    BY <1>4, <2>2, <2>3 DEF SameFrame, InFrameOf
  <2>5. log[p].session = log[m].session
    <3>1. log[p].session = Current
      BY <2>1, <2>2, EventTyped DEF JournalInv
    <3>2. log[p].session <= log[m].session /\ log[m].session \in 1..Current
      BY <2>2 DEF JournalInv
    <3>3. Current \in Nat
      BY DEF JournalInv, Current
    <3> QED BY <3>1, <3>2, <3>3
  <2>6. log[p].frame < log[m].frame
    <3>1. log[p].frame <= log[m].frame
      BY <2>2, <2>5 DEF JournalInv
    <3>2. log[p].frame \in Nat /\ log[m].frame \in Nat
      BY <2>2, EventTyped
    <3> QED BY <2>4, <2>5, <3>1, <3>2 DEF SameFrame
  <2>7. ASSUME NEW j \in DOMAIN log, j > p, SameFrame(j, p) PROVE FALSE
    <3>1. j = m \/ m < j
      BY <1>1, <2>2, <2>7
    <3>2. log[m].frame <= log[j].frame
      <4>1. CASE j = m
        BY <4>1, <2>2, EventTyped
      <4>2. CASE m < j
        BY <2>2, <2>5, <2>7, <4>2 DEF JournalInv, SameFrame
      <4> QED BY <3>1, <4>1, <4>2
    <3>3. log[p].frame \in Nat /\ log[m].frame \in Nat
      BY <2>2, EventTyped
    <3> QED BY <2>6, <2>7, <3>2, <3>3 DEF SameFrame
  <2> QED BY <2>2, <2>5, <2>6, <2>7
<1> QED BY <1>3, <1>4, <1>5

-----------------------------------------------------------------------------
(* Types.                                                                  *)

LEMMA StatesAre ==
  /\ \A conns : conns \in States <=> IsState(conns)
  /\ \A plan : plan \in Plans <=> DOMAIN plan \subseteq Key /\ plan \in [DOMAIN plan -> Classes]
  /\ \A rows : rows \in RowSets <=> /\ DOMAIN rows \subseteq Nat \ {0}
                                    /\ rows \in [DOMAIN rows -> [acc : Nat, class : Classes]]
  /\ IsState(<< >>) /\ << >> \in Plans /\ << >> \in RowSets
<1>1. \A conns : conns \in States <=> IsState(conns)
  BY DEF States, IsState
<1>2. \A plan : plan \in Plans <=> DOMAIN plan \subseteq Key /\ plan \in [DOMAIN plan -> Classes]
  BY DEF Plans
<1>3. \A rows : rows \in RowSets <=> /\ DOMAIN rows \subseteq Nat \ {0}
                                    /\ rows \in [DOMAIN rows -> [acc : Nat, class : Classes]]
  BY DEF RowSets
<1>4. DOMAIN << >> = {} /\ \A S : << >> \in [{} -> S]
  OBVIOUS
<1> QED BY <1>1, <1>2, <1>3, <1>4 DEF IsState

\* The state of the journal from its beginning, and what is in it.
LEMMA FromStart ==
  ASSUME JournalInv, NEW n \in Nat, n <= Len(log)
  PROVE  /\ IsState(After(log, << >>, 0, n))
         /\ \A i \in 1..n : NamesConn(log[i]) => KeyOf(log[i]) \in DOMAIN After(log, << >>, 0, n)
<1>1. PICK none : none = << >> /\ IsState(none)
  BY StatesAre
<1>2. PICK start \in Nat : start = 0
  OBVIOUS
<1>3. log \in Seq(Event) /\ start <= n /\ n <= Len(log)
  BY <1>2 DEF JournalInv
<1>4. Kept(log, none, start, n)
  <2>1. IsRange(log, none, start, n)
    BY <1>1, <1>3 DEF IsRange
  <2> QED BY <2>1, AfterKeeps
<1>5. KeysIn(log, 0, n) \subseteq DOMAIN After(log, none, start, n)
  BY <1>2, <1>4 DEF Kept
<1>6. IsState(After(log, none, start, n))
  BY <1>4 DEF Kept
<1>7. \A i \in 1..n : NamesConn(log[i]) => KeyOf(log[i]) \in KeysIn(log, 0, n)
  BY DEF KeysIn
<1> QED BY <1>1, <1>2, <1>5, <1>6, <1>7

LEMMA MergeIsAfter ==
  \A conns : \A from, to \in Nat : MergeRange(conns, from, to) = After(log, conns, from, to)
BY Zenon DEF MergeRange, After

LEMMA TotalIs == \A amount : Total(amount) = SumTo(amount, Len(log))
BY Zenon DEF Total, SumTo

\* The rows of a generation, and the connections they are of.
LEMMA RowsTyped ==
  ASSUME JournalInv, TypeInv, PlaceInv, RowsInv, StateInv
  PROVE  /\ gen.conns \in States /\ IsState(gen.conns) /\ Covered \in Nat /\ Covered <= Len(log)
         /\ RowsTo \in Nat /\ RowsTo <= Covered
         /\ DOMAIN gen.conns = DOMAIN After(log, << >>, 0, Covered)
         /\ \A i \in 1..Covered : NamesConn(log[i]) => KeyOf(log[i]) \in DOMAIN gen.conns
         /\ \A i \in DOMAIN gen.rows : /\ i \in DOMAIN log /\ i \in 1..RowsTo /\ NamesConn(log[i])
                                       /\ KeyOf(log[i]) \in DOMAIN gen.conns
                                       /\ gen.rows[i].acc \in Nat
<1>1. /\ gen.conns \in States /\ gen.rows \in RowSets
      /\ gen.boundary \in Nat /\ gen.seedLast \in Nat /\ gen.matLast \in Nat /\ gen.published \in Nat
      /\ gen.status \in {"none", "seeding", "materializing", "active", "failed", "superseded"}
  BY DEF TypeInv, Generation
<1>2. IsState(gen.conns)
  BY <1>1, StatesAre
<1>3. /\ Covered \in Nat /\ Covered <= Len(log) /\ RowsTo \in Nat /\ RowsTo <= Covered
  <2>1. Len(log) \in Nat
    BY DEF JournalInv
  <2> QED BY <1>1, <2>1 DEF Covered, RowsTo, PlaceInv, Serving
<1>4. DOMAIN gen.conns = DOMAIN After(log, << >>, 0, Covered)
  <2>1. DOMAIN Plain(gen.conns) = DOMAIN gen.conns
    BY DEF Plain
  <2> QED BY <2>1 DEF StateInv
<1>5. \A i \in 1..Covered : NamesConn(log[i]) => KeyOf(log[i]) \in DOMAIN gen.conns
  BY <1>3, <1>4, FromStart
<1>6. ASSUME NEW i \in DOMAIN gen.rows
      PROVE  i \in 1..RowsTo /\ NamesConn(log[i]) /\ gen.rows[i].acc \in Nat
  <2>1. i \in Traffic(0, RowsTo)
    BY DEF RowsInv
  <2>2. gen.rows[i] \in [acc : Nat, class : Classes]
    BY <1>1, StatesAre
  <2> QED BY <2>1, <2>2 DEF Traffic, NamesConn, ConnTypes
<1>7. DOMAIN log = 1..Len(log) /\ Len(log) \in Nat
  BY DEF JournalInv
<1> QED BY <1>1, <1>2, <1>3, <1>4, <1>5, <1>6, <1>7

-----------------------------------------------------------------------------
(* The hours.                                                              *)

\* The amounts of exact rows that fall into a bucket.
ExactIn(l, amount, b) ==
  [i \in {j \in DOMAIN amount :
            IsExact(l[j]) /\ b \in {<<l[j].session, h>> : h \in HoursOf(l[j])}} |-> amount[i]]

LEMMA ExactHours ==
  \A hours, amount :
    AddHours(hours, amount, TRUE) =
      [b \in Buckets |-> hours[b] + SumTo(ExactIn(log, amount, b), Len(log))]
<1> TAKE hours, amount
<1> DEFINE in(b) == {i \in DOMAIN amount : IsExact(log[i]) = TRUE /\ b \in BucketsOf(i)}
<1>1. AddHours(hours, amount, TRUE) =
        [b \in Buckets |-> hours[b] + Total([i \in in(b) |-> InHour(log[i], b[2], amount[i])])]
  BY Zenon DEF AddHours
<1>2. ASSUME NEW b \in Buckets
      PROVE  [i \in in(b) |-> InHour(log[i], b[2], amount[i])] = ExactIn(log, amount, b)
  <2>1. in(b) = {j \in DOMAIN amount :
                  IsExact(log[j]) /\ b \in {<<log[j].session, h>> : h \in HoursOf(log[j])}}
    BY Zenon DEF IsExact, BucketsOf
  <2>2. \A i \in in(b) : InHour(log[i], b[2], amount[i]) = amount[i]
    BY Zenon DEF InHour
  <2> HIDE DEF in
  <2> QED BY <2>1, <2>2, Zenon DEF ExactIn
<1> HIDE DEF in
<1> QED BY <1>1, <1>2, TotalIs

-----------------------------------------------------------------------------
(* The collector writes, and accounting stands still.                      *)

TotalMeans == \A amount : Total(amount) = SumTo(amount, Len(log))
HoursMean ==
  \A hours, amount :
    AddHours(hours, amount, TRUE) =
      [b \in Buckets |-> hours[b] + SumTo(ExactIn(log, amount, b), Len(log))]

LEMMA MeaningNow == TotalMeans /\ HoursMean
BY TotalIs, ExactHours DEF TotalMeans, HoursMean

LEMMA MeaningNext == TotalMeans' /\ HoursMean'
BY MeaningNow, PTL

\* A chunk stays what it is while the journal grows.
LEMMA ChunkStays ==
  ASSUME JournalInv, Grows, NEW j \in Job, ChunkOf(j)
  PROVE  ChunkOf(j)'
<1>1. /\ Len(log) <= Len(log') /\ Len(log) \in Nat /\ Len(log') \in Nat
      /\ DOMAIN log = 1..Len(log) /\ DOMAIN log' = 1..Len(log')
      /\ \A i \in 1..Len(log) : log'[i] = log[i]
  BY JournalStays DEF JournalInv
<1>2. /\ j.from \in Nat /\ j.to \in Nat /\ j.boundary \in Nat /\ j.from < j.to
      /\ j.to <= j.boundary /\ j.boundary <= Len(log)
  BY DEF ChunkOf, Job
<1>3. ASSUME j.stage = "verify", NEW i \in InFrameOf(j.to)' PROVE i <= j.to \/ i > j.boundary
  <2>1. CASE i \in DOMAIN log
    <3>1. i \in InFrameOf(j.to)
      BY <1>1, <1>2, <1>3, <2>1 DEF InFrameOf
    <3> QED BY <1>3, <3>1 DEF ChunkOf
  <2>2. CASE i \notin DOMAIN log
    BY <1>1, <1>2, <1>3, <2>2 DEF InFrameOf
  <2> QED BY <2>1, <2>2
<1>4. j.stage = "ready" => Whole(j.to)'
  BY <1>1, <1>2, WholeStays DEF ChunkOf
<1>5. DirtyKeys(j.from, j.to)' = DirtyKeys(j.from, j.to)
  <2>1. \A i \in j.from+1..j.to : log'[i] = log[i]
    BY <1>1, <1>2
  <2> QED BY <2>1 DEF DirtyKeys
<1> QED BY <1>1, <1>2, <1>3, <1>4, <1>5 DEF ChunkOf

LEMMA GrowthKeepsJobs ==
  ASSUME AccountingInv, Grows
  PROVE  TypeInv' /\ JobInv' /\ PlaceInv'
<1>1. /\ gen' = gen /\ job' = job /\ faults' = faults /\ Len(log) <= Len(log')
      /\ Len(log) \in Nat /\ Len(log') \in Nat
  BY JournalStays DEF AccountingInv
<1>2. TypeInv'
  BY <1>1 DEF AccountingInv, TypeInv
<1>3. JobInv'
  <2> SUFFICES ASSUME NEW w \in Worker, job[w] # NoJob
               PROVE  /\ ChunkOf(job[w])'
                      /\ job[w].mode = "active" => Serving'
                      /\ job[w].mode # "active" =>
                           /\ Alone(w)' /\ gen.status = job[w].mode
                           /\ job[w].boundary = gen.boundary
                           /\ job[w].from = IF gen.status = "seeding" THEN gen.seedLast
                                                                      ELSE gen.matLast
    BY <1>1 DEF JobInv, Fits
  <2>1. job[w] \in Job /\ ChunkOf(job[w])
    BY DEF AccountingInv, TypeInv, JobInv, Fits
  <2>2. PICK j \in Job : j = job[w] /\ ChunkOf(j)
    BY <2>1
  <2>3. ChunkOf(j)'
    BY <2>2, ChunkStays DEF AccountingInv
  <2>4. job'[w] = j
    BY <1>1, <2>2
  <2>5. ChunkOf(job[w])'
    BY <2>3, <2>4 DEF ChunkOf
  <2>6. Serving' = Serving /\ Alone(w)' = Alone(w)
    BY <1>1 DEF Serving, Alone
  <2> QED BY <2>5, <2>6 DEF AccountingInv, JobInv, Fits
<1>4. PlaceInv'
  <2>1. \A n \in Nat : n <= Len(log) /\ Whole(n) => Whole(n)'
    BY WholeStays DEF AccountingInv
  <2>2. /\ gen.boundary \in Nat /\ gen.seedLast \in Nat /\ gen.matLast \in Nat
        /\ gen.published \in Nat
    BY DEF AccountingInv, TypeInv, Generation
  <2>3. /\ Whole(gen.seedLast)' /\ Whole(gen.matLast)' /\ Whole(gen.published)'
    <3>1. PICK a, b, c \in Nat : a = gen.seedLast /\ b = gen.matLast /\ c = gen.published
      BY <2>2
    <3>2. Whole(a)' /\ Whole(b)' /\ Whole(c)'
      BY <1>1, <2>1, <2>2, <3>1 DEF AccountingInv, PlaceInv
    <3> QED BY <1>1, <3>1, <3>2 DEF Whole
  <2> QED BY <1>1, <2>2, <2>3 DEF AccountingInv, PlaceInv
<1> QED BY <1>2, <1>3, <1>4

LEMMA GrowthKeepsRows ==
  ASSUME AccountingInv, Grows
  PROVE  StateInv' /\ RowsInv' /\ TotalsInv' /\ HoursFollowRows'
<1>1. /\ gen' = gen /\ Len(log) <= Len(log')
      /\ Len(log) \in Nat /\ Len(log') \in Nat /\ \A i \in 1..Len(log) : log'[i] = log[i]
  BY JournalStays DEF AccountingInv
<1>2. /\ Covered \in Nat /\ Covered <= Len(log) /\ RowsTo \in Nat /\ RowsTo <= Len(log)
      /\ Covered' = Covered /\ RowsTo' = RowsTo /\ Serving' = Serving
      /\ \A i \in DOMAIN gen.rows : i \in 1..Len(log) /\ gen.rows[i].acc \in Nat
  <2>1. /\ Covered \in Nat /\ Covered <= Len(log) /\ RowsTo \in Nat /\ RowsTo <= Covered
        /\ \A i \in DOMAIN gen.rows : i \in 1..RowsTo /\ gen.rows[i].acc \in Nat
    BY RowsTyped DEF AccountingInv
  <2>2. Covered' = Covered /\ RowsTo' = RowsTo /\ Serving' = Serving
    BY <1>1 DEF Covered, RowsTo, Serving
  <2> QED BY <1>1, <2>1, <2>2
<1>3. \A i \in DOMAIN gen.rows : log'[i] = log[i]
  BY <1>1, <1>2
<1>4. StateInv'
  <2>1. PICK l, longer : l = log /\ longer = log'
    OBVIOUS
  <2>2. PICK n \in Nat : n = Covered
    BY <1>2
  <2>3. \A i \in 0+1..n : longer[i] = l[i]
    BY <1>1, <1>2, <2>1, <2>2
  <2>4. After(longer, << >>, 0, n) = After(l, << >>, 0, n)
    BY <2>3, AfterAgrees
  <2> QED BY <1>1, <1>2, <2>1, <2>2, <2>4 DEF AccountingInv, StateInv
<1>5. RowsInv'
  <2>1. Traffic(0, RowsTo)' = Traffic(0, RowsTo)
    BY <1>1, <1>2 DEF Traffic
  <2> QED BY <1>1, <1>3, <2>1 DEF AccountingInv, RowsInv
<1>6. ASSUME NEW amount, Integral(amount), \A i \in DOMAIN amount : i \in 1..Len(log)
      PROVE  SumTo(amount, Len(log')) = SumTo(amount, Len(log))
  <2>1. PICK near \in Nat, far \in Nat : near = Len(log) /\ far = Len(log') /\ near <= far
    BY <1>1
  <2>2. \A i \in DOMAIN amount : i <= near
    BY <1>6, <2>1
  <2>3. SumTo(amount, near) = SumTo(amount, far)
    BY <1>6, <2>1, <2>2, SumSame
  <2> QED BY <2>1, <2>3
<1>7. TotalsInv'
  <2>1. \A i \in DOMAIN gen.rows : log[i].bytes \in Int
    BY <1>2, EventTyped DEF AccountingInv, JournalInv
  <2> DEFINE raw == [i \in DOMAIN gen.rows |-> log[i].bytes]
             acc == [i \in DOMAIN gen.rows |-> gen.rows[i].acc]
  <2>2. Integral(raw) /\ Integral(acc) /\ DOMAIN raw = DOMAIN gen.rows /\ DOMAIN acc = DOMAIN gen.rows
    BY <1>2, <2>1 DEF Integral
  <2>3. raw' = raw /\ acc' = acc
    BY <1>1, <1>3
  <2>4. /\ AddedBytes(gen.rows) = SumTo(raw, Len(log))
        /\ AddedAccounted(gen.rows) = SumTo(acc, Len(log))
    BY MeaningNow, Zenon DEF TotalMeans, AddedBytes, AddedAccounted
  <2>5. /\ AddedBytes(gen.rows)' = SumTo(raw', Len(log'))
        /\ AddedAccounted(gen.rows)' = SumTo(acc', Len(log'))
    BY MeaningNext, Zenon DEF TotalMeans, AddedBytes, AddedAccounted
  <2> HIDE DEF raw, acc
  <2>6. PICK r, a : r = raw /\ a = acc
    OBVIOUS
  <2>7. SumTo(r, Len(log')) = SumTo(r, Len(log)) /\ SumTo(a, Len(log')) = SumTo(a, Len(log))
    BY <1>2, <1>6, <2>2, <2>6
  <2>8. /\ AddedBytes(gen.rows)' = AddedBytes(gen.rows)
        /\ AddedAccounted(gen.rows)' = AddedAccounted(gen.rows)
    BY <2>3, <2>4, <2>5, <2>6, <2>7
  <2> QED BY <1>1, <1>2, <2>8 DEF AccountingInv, TotalsInv
<1>8. HoursFollowRows'
  <2> DEFINE acc == [i \in DOMAIN gen.rows |-> gen.rows[i].acc]
  <2>1. /\ HoursOfRows(TRUE) = [b \in Buckets |-> NoHours[b] + SumTo(ExactIn(log, acc, b), Len(log))]
        /\ HoursOfRows(TRUE)' = [b \in Buckets |-> NoHours[b] + SumTo(ExactIn(log', acc', b), Len(log'))]
    BY MeaningNow, MeaningNext, ZenonT(40) DEF HoursMean, HoursOfRows
  <2>2. acc' = acc /\ DOMAIN acc = DOMAIN gen.rows /\ Integral(acc)
    BY <1>1, <1>2 DEF Integral
  <2> HIDE DEF acc
  <2>3. ASSUME NEW b \in Buckets
        PROVE  SumTo(ExactIn(log', acc', b), Len(log')) = SumTo(ExactIn(log, acc, b), Len(log))
    <3>1. PICK e : e = ExactIn(log, acc, b)
      OBVIOUS
    <3>2. ExactIn(log', acc', b) = e
      BY <1>3, <2>2, <3>1 DEF ExactIn
    <3>3. Integral(e) /\ \A i \in DOMAIN e : i \in 1..Len(log)
      BY <1>2, <2>2, <3>1 DEF ExactIn, Integral
    <3> QED BY <1>6, <3>1, <3>2, <3>3
  <2>4. HoursOfRows(TRUE)' = HoursOfRows(TRUE)
    BY <2>1, <2>3, Zenon
  <2>5. CountedIn(gen.rows)' = CountedIn(gen.rows)
    BY <1>1, <1>3 DEF CountedIn, BucketsOf
  <2> QED BY <1>1, <2>4, <2>5 DEF AccountingInv, HoursFollowRows
<1> QED BY <1>4, <1>5, <1>7, <1>8

-----------------------------------------------------------------------------
(* A worker cuts and prepares a chunk.                                     *)

\* With the journal as it was, everything said of it alone still holds.
Still == UNCHANGED growthVars

LEMMA StillSame ==
  ASSUME Still, JournalInv
  PROVE  /\ log' = log /\ running' = running /\ JournalInv'
         /\ \A n : Whole(n) <=> Whole(n)'
         /\ \A from, to : /\ DirtyKeys(from, to)' = DirtyKeys(from, to)
                          /\ Traffic(from, to)' = Traffic(from, to)
         /\ \A j : ChunkOf(j)' <=> ChunkOf(j)
         /\ \A rows : /\ AddedBytes(rows)' = AddedBytes(rows)
                      /\ AddedAccounted(rows)' = AddedAccounted(rows)
                      /\ CountedIn(rows)' = CountedIn(rows)
         /\ \A hours, amount : AddHours(hours, amount, TRUE)' = AddHours(hours, amount, TRUE)
<1>1. log' = log /\ running' = running
  BY DEF Still, growthVars
<1>2. JournalInv'
  BY <1>1 DEF JournalInv, SameFrame, Current
<1>3. \A n : Whole(n) <=> Whole(n)'
  BY <1>1 DEF Whole, SameFrame
<1>4. \A from, to : /\ DirtyKeys(from, to)' = DirtyKeys(from, to)
                    /\ Traffic(from, to)' = Traffic(from, to)
  BY <1>1, Zenon DEF DirtyKeys, Traffic
<1>5. \A j : ChunkOf(j)' <=> ChunkOf(j)
  <2> TAKE j
  <2>1. InFrameOf(j.to)' = InFrameOf(j.to)
    BY <1>1, Zenon DEF InFrameOf
  <2>2. Whole(j.to) <=> Whole(j.to)'
    BY <1>3
  <2>3. DirtyKeys(j.from, j.to)' = DirtyKeys(j.from, j.to)
    BY <1>4
  <2> QED BY <1>1, <2>1, <2>2, <2>3, Zenon DEF ChunkOf
<1>6. ASSUME NEW rows
      PROVE  /\ AddedBytes(rows)' = AddedBytes(rows)
             /\ AddedAccounted(rows)' = AddedAccounted(rows)
             /\ CountedIn(rows)' = CountedIn(rows)
  <2> DEFINE raw(l) == [i \in DOMAIN rows |-> l[i].bytes]
             acc == [i \in DOMAIN rows |-> rows[i].acc]
  <2>1. /\ AddedBytes(rows) = SumTo(raw(log), Len(log))
        /\ AddedAccounted(rows) = SumTo(acc, Len(log))
    BY MeaningNow, Zenon DEF AddedBytes, AddedAccounted, TotalMeans
  <2>2. /\ AddedBytes(rows)' = SumTo(raw(log'), Len(log'))
        /\ AddedAccounted(rows)' = SumTo(acc, Len(log'))
    BY MeaningNext, Zenon DEF AddedBytes, AddedAccounted, TotalMeans
  <2>3. CountedIn(rows)' = CountedIn(rows)
    BY <1>1 DEF CountedIn, BucketsOf
  <2> HIDE DEF raw, acc
  <2> QED BY <1>1, <2>1, <2>2, <2>3
<1>7. ASSUME NEW hours, NEW amount
      PROVE  AddHours(hours, amount, TRUE)' = AddHours(hours, amount, TRUE)
  <2> DEFINE new(l) == [b \in Buckets |-> hours[b] + SumTo(ExactIn(l, amount, b), Len(l))]
  <2>1. AddHours(hours, amount, TRUE) = new(log)
    BY MeaningNow, Zenon DEF HoursMean
  <2>2. AddHours(hours, amount, TRUE)' = new(log')
    BY MeaningNext, Zenon DEF HoursMean
  <2> HIDE DEF new
  <2> QED BY <1>1, <2>1, <2>2
<1> QED BY <1>1, <1>2, <1>3, <1>4, <1>5, <1>6, <1>7

LEMMA JobStep ==
  ASSUME AccountingInv, Still, gen' = gen, faults' \in Nat, NEW w \in Worker, NEW j,
         job' = [job EXCEPT ![w] = j],
         j = NoJob \/ (j \in Job /\ Fits(w, j)),
         j = NoJob \/ job[w] # NoJob \/ gen.status = "active" \/ Alone(w)
  PROVE  AccountingInv'
<1> USE StillSame DEF AccountingInv
<1>1. JournalInv'
  OBVIOUS
<1>2. TypeInv' /\ \A v \in Worker : job'[v] = IF v = w THEN j ELSE job[v]
  BY DEF TypeInv
<1>3. Serving' = Serving /\ Covered' = Covered /\ RowsTo' = RowsTo
  BY DEF Serving, Covered, RowsTo
<1>4. JobInv'
  <2> SUFFICES ASSUME NEW v \in Worker, job'[v] # NoJob PROVE Fits(v, job[v])'
    BY DEF JobInv
  <2>1. PICK k : k = job'[v]
    OBVIOUS
  <2>2. Fits(v, k)
    BY <1>2, <2>1 DEF JobInv
  <2>3. k \in Job
    BY <1>2, <2>1 DEF TypeInv
  <2>4. k.mode # "active" => Alone(v)'
    <3>1. SUFFICES ASSUME k.mode # "active" PROVE Alone(v)'
      OBVIOUS
    <3>2. Alone(v) /\ gen.status # "active"
      BY <2>2, <2>3, <3>1 DEF Fits, Job
    <3>3. CASE v = w
      BY <1>2, <3>2, <3>3 DEF Alone
    <3>4. CASE v # w
      <4>1. job[w] = NoJob /\ job[v] # NoJob
        BY <1>2, <3>2, <3>4 DEF Alone
      <4>2. ~Alone(w)
        BY <3>4, <4>1 DEF Alone
      <4>3. j = NoJob
        BY <3>2, <4>1, <4>2
      <4> QED BY <1>2, <3>2, <4>3 DEF Alone
    <3> QED BY <3>3, <3>4
  <2>5. ChunkOf(k)'
    BY <2>2 DEF Fits
  <2>6. Fits(v, k)'
    BY <1>3, <2>2, <2>4, <2>5 DEF Fits
  <2> QED BY <2>1, <2>6 DEF Fits, ChunkOf
<1>5. PlaceInv'
  BY DEF PlaceInv
<1>6. StateInv'
  BY <1>3 DEF StateInv
<1>7. RowsInv'
  BY <1>3 DEF RowsInv
<1>8. TotalsInv'
  BY <1>3 DEF TotalsInv
<1>9. HoursFollowRows'
  <2>1. HoursOfRows(TRUE)' = HoursOfRows(TRUE)
    BY DEF HoursOfRows
  <2> QED BY <2>1 DEF HoursFollowRows
<1> QED BY <1>1, <1>2, <1>4, <1>5, <1>6, <1>7, <1>8, <1>9

LEMMA ClassesAre == \A conns, k, to : ClassIn(conns, k, to) \in Classes
BY DEF ClassIn, Classes

\* The merged state of a range, for the state a generation has.
LEMMA MergedIs ==
  ASSUME JournalInv, IsState(gen.conns), NEW from \in Nat, NEW to \in Nat, from <= to, to <= Len(log)
  PROVE  /\ MergeRange(gen.conns, from, to) = After(log, gen.conns, from, to)
         /\ Kept(log, gen.conns, from, to)
         /\ KeysIn(log, from, to) = DirtyKeys(from, to)
         /\ DirtyKeys(from, to) \subseteq Key
<1>1. IsRange(log, gen.conns, from, to)
  BY DEF IsRange, JournalInv
<1>2. Kept(log, gen.conns, from, to)
  <2>1. PICK l, conns : l = log /\ conns = gen.conns
    OBVIOUS
  <2> QED BY <1>1, <2>1, AfterKeeps
<1>3. MergeRange(gen.conns, from, to) = After(log, gen.conns, from, to)
  BY MergeIsAfter
<1>4. KeysIn(log, from, to) = DirtyKeys(from, to)
  BY Zenon DEF KeysIn, DirtyKeys
<1>5. DirtyKeys(from, to) \subseteq Key
  BY <1>2, <1>4 DEF Kept, IsState
<1> QED BY <1>2, <1>3, <1>4, <1>5

\* A plan gives every connection the chunk names a class.
LEMMA Prepared ==
  ASSUME JournalInv, IsState(gen.conns), NEW from \in Nat, NEW to \in Nat, from <= to, to <= Len(log)
  PROVE  Prepare(from, to) \in Plans /\ DirtyKeys(from, to) \subseteq DOMAIN Prepare(from, to)
<1> DEFINE dirty == DirtyKeys(from, to)
           merged == MergeRange(gen.conns, from, to)
           cutoff == Min({merged[k].first : k \in dirty})
           close == Closure(gen.conns, dirty, cutoff)
           scope == Restrict(merged, close)
<1>1. Prepare(from, to) = IF dirty = {} THEN << >> ELSE [k \in DOMAIN scope |-> ClassIn(scope, k, to)]
  BY Zenon DEF Prepare
<1>2. dirty \subseteq Key /\ DOMAIN gen.conns \subseteq Key
  BY MergedIs DEF IsState
<1>3. dirty \subseteq close /\ close \subseteq Key
  BY <1>2 DEF Closure
<1>4. DOMAIN scope = close
  BY DEF Restrict
<1>5. CASE dirty = {}
  BY <1>1, <1>5, StatesAre
<1>6. CASE dirty # {}
  <2> HIDE DEF dirty, scope, close
  <2>1. Prepare(from, to) = [k \in close |-> ClassIn(scope, k, to)]
    BY <1>1, <1>4, <1>6
  <2>2. Prepare(from, to) \in [close -> Classes] /\ DOMAIN Prepare(from, to) = close
    BY <2>1, ClassesAre
  <2>3. Prepare(from, to) \in Plans
    BY <1>3, <2>2, StatesAre
  <2> QED BY <1>3, <2>2, <2>3 DEF dirty
<1> QED BY <1>5, <1>6

\* A worker with a chunk, and what is known of it.
LEMMA Working ==
  ASSUME AccountingInv, NEW w \in Worker, job[w] # NoJob
  PROVE  /\ job[w] \in Job /\ Fits(w, job[w]) /\ ChunkOf(job[w])
         /\ job[w].from \in Nat /\ job[w].to \in Nat /\ job[w].boundary \in Nat
         /\ job[w].from < job[w].to /\ job[w].to <= job[w].boundary /\ job[w].boundary <= Len(log)
         /\ Len(log) \in Nat /\ DOMAIN log = 1..Len(log) /\ job[w].to \in DOMAIN log
         /\ IsState(gen.conns)
<1>1. job[w] \in Job /\ Fits(w, job[w])
  BY DEF AccountingInv, TypeInv, JobInv
<1>2. /\ job[w].from \in Nat /\ job[w].to \in Nat /\ job[w].boundary \in Nat /\ ChunkOf(job[w])
      /\ job[w].from < job[w].to /\ job[w].to <= job[w].boundary /\ job[w].boundary <= Len(log)
  BY <1>1 DEF Job, Fits, ChunkOf
<1>3. Len(log) \in Nat /\ DOMAIN log = 1..Len(log) /\ gen.conns \in States
  BY DEF AccountingInv, JournalInv, TypeInv, Generation
<1> QED BY <1>1, <1>2, <1>3, StatesAre

\* The worker settles on a whole cut, or lets the chunk go.
LEMMA Settles ==
  ASSUME AccountingInv, Still, UNCHANGED <<gen, faults>>, NEW w \in Worker, job[w] # NoJob,
         NEW to \in Nat, to <= job[w].to, Whole(to), Settle(w, to)
  PROVE  AccountingInv'
<1>1. /\ job[w] \in Job /\ Fits(w, job[w]) /\ ChunkOf(job[w])
      /\ job[w].from \in Nat /\ job[w].to \in Nat /\ job[w].boundary \in Nat
      /\ job[w].to <= job[w].boundary /\ job[w].boundary <= Len(log)
      /\ Len(log) \in Nat /\ IsState(gen.conns)
  BY Working
<1>2. faults' \in Nat /\ gen' = gen
  BY DEF AccountingInv, TypeInv
<1>3. CASE to <= job[w].from
  <2>1. job' = [job EXCEPT ![w] = NoJob]
    BY <1>3 DEF Settle
  <2> QED BY <1>2, <2>1, JobStep
<1>4. CASE ~(to <= job[w].from)
  <2> DEFINE plan == IF job[w].mode = "active" THEN Prepare(job[w].from, to) ELSE NoPlan
             j == [job[w] EXCEPT !.stage = "ready", !.to = to, !.plan = plan]
  <2>1. job' = [job EXCEPT ![w] = j]
    BY <1>4, Zenon DEF Settle
  <2>2. /\ plan \in Plans
        /\ job[w].mode = "active" => DirtyKeys(job[w].from, to) \subseteq DOMAIN plan
    <3>1. CASE job[w].mode = "active"
      <4>1. PICK a \in Nat : a = job[w].from
        BY <1>1
      <4>2. a <= to /\ to <= Len(log)
        BY <1>1, <1>4, <4>1
      <4>3. Prepare(a, to) \in Plans /\ DirtyKeys(a, to) \subseteq DOMAIN Prepare(a, to)
        BY <1>1, <4>2, Prepared DEF AccountingInv
      <4> QED BY <3>1, <4>1, <4>3
    <3>2. CASE job[w].mode # "active"
      BY <3>2, StatesAre DEF NoPlan
    <3> QED BY <3>1, <3>2
  <2> HIDE DEF plan
  <2>3. /\ j \in Job /\ j.from = job[w].from /\ j.to = to /\ j.boundary = job[w].boundary
        /\ j.mode = job[w].mode /\ j.stage = "ready" /\ j.plan = plan
    BY <1>1, <2>2 DEF Job
  <2> HIDE DEF j
  <2>4. ChunkOf(j)
    BY <1>1, <1>4, <2>2, <2>3 DEF ChunkOf
  <2>5. Fits(w, j)
    BY <1>1, <2>3, <2>4 DEF Fits
  <2> QED BY <1>2, <2>1, <2>3, <2>5, JobStep
<1> QED BY <1>3, <1>4

LEMMA StartTickKeeps ==
  ASSUME AccountingInv, NEW w \in Worker, StartTick(w)
  PROVE  AccountingInv'
<1> DEFINE j == [stage |-> "measure", gen |-> gen.id, mode |-> gen.status,
                 from |-> Pending.from, boundary |-> Pending.boundary,
                 to |-> Min({Pending.from + Chunk, Pending.boundary}), plan |-> NoPlan]
<1>1. /\ job' = [job EXCEPT ![w] = j] /\ Still /\ gen' = gen /\ faults' \in Nat
      /\ gen.status = "active" \/ (Seeding /\ Alone(w))
      /\ Pending.from < Pending.boundary
  BY DEF StartTick, Still, AccountingInv, TypeInv
<1>2. gen \in Generation /\ Len(log) \in Nat /\ gen.conns \in States
  BY DEF AccountingInv, TypeInv, JournalInv, Generation
<1>3. gen.status \in {"active", "seeding", "materializing"}
  BY <1>1 DEF Seeding
<1>4. /\ Pending.from \in Nat /\ Pending.boundary \in Nat /\ Pending.boundary <= Len(log)
      /\ gen.status # "active" =>
           /\ Pending.boundary = gen.boundary
           /\ Pending.from = IF gen.status = "seeding" THEN gen.seedLast ELSE gen.matLast
  BY <1>2, <1>3 DEF Pending, Generation, AccountingInv, PlaceInv
<1>5. PICK a \in Nat, b \in Nat : a = Pending.from /\ b = Pending.boundary
  BY <1>4
<1>6. Min({a + Chunk, b}) \in Nat /\ a < Min({a + Chunk, b}) /\ Min({a + Chunk, b}) <= b
  <2>1. Chunk \in Nat \ {0}
    BY BoundsAssumption
  <2>2. {a + Chunk, b} \in SUBSET Nat /\ {a + Chunk, b} # {}
    BY <2>1
  <2>3. Min({a + Chunk, b}) \in {a + Chunk, b} /\ \A x \in {a + Chunk, b} : Min({a + Chunk, b}) <= x
    BY <2>2, LeastOf
  <2>4. a < b
    BY <1>1, <1>5 DEF StartTick
  <2> QED BY <2>1, <2>3, <2>4
<1>7. /\ j \in Job /\ j.stage = "measure" /\ j.mode = gen.status /\ j.from = a /\ j.boundary = b
      /\ j.to = Min({a + Chunk, b})
  <2>1. NoPlan \in Plans
    BY StatesAre DEF NoPlan
  <2>2. gen.id \in Nat
    BY <1>2 DEF Generation
  <2> QED BY <1>3, <1>5, <1>6, <2>1, <2>2 DEF Job
<1> HIDE DEF j
<1>8. ChunkOf(j)
  BY <1>4, <1>5, <1>6, <1>7 DEF ChunkOf
<1>9. Fits(w, j)
  <2>1. gen.status # "active" => Alone(w)
    BY DEF StartTick
  <2>2. gen.status = "active" => Serving
    BY DEF Serving
  <2> QED BY <1>4, <1>5, <1>7, <1>8, <2>1, <2>2 DEF Fits
<1>10. gen.status = "active" \/ Alone(w)
  BY DEF StartTick
<1> QED BY <1>1, <1>7, <1>9, <1>10, JobStep

LEMMA MeasureKeeps ==
  ASSUME AccountingInv, NEW w \in Worker, Measure(w)
  PROVE  AccountingInv'
<1>1. Still /\ UNCHANGED <<gen, faults>> /\ job[w] # NoJob /\ job[w].stage = "measure"
  BY DEF Measure, Still, NoJob
<1>2. /\ job[w] \in Job /\ Fits(w, job[w]) /\ ChunkOf(job[w])
      /\ job[w].from \in Nat /\ job[w].to \in Nat /\ job[w].boundary \in Nat
      /\ job[w].from < job[w].to /\ job[w].to <= job[w].boundary /\ job[w].boundary <= Len(log)
      /\ Len(log) \in Nat /\ DOMAIN log = 1..Len(log) /\ job[w].to \in DOMAIN log
  BY <1>1, Working
<1> DEFINE frame == InFrameOf(job[w].to)
<1>3. frame \in SUBSET (1..Len(log)) /\ job[w].to \in frame
  BY <1>2 DEF InFrameOf
<1>4. Max(frame) \in frame /\ \A x \in frame : x <= Max(frame)
  BY <1>2, <1>3, GreatestOf
<1>5. CASE Max(frame) > job[w].boundary
  <2>1. Settle(w, Min(frame) - 1)
    BY <1>5, Zenon DEF Measure
  <2>2. PICK i \in DOMAIN log : i = job[w].to
    BY <1>2
  <2>3. Min(frame) \in 1..i /\ Whole(Min(frame) - 1)
    BY <2>2, FrameBegins DEF AccountingInv
  <2>4. Min(frame) - 1 \in Nat /\ Min(frame) - 1 <= job[w].to
    BY <1>2, <2>2, <2>3
  <2> HIDE DEF frame
  <2> QED BY <1>1, <2>1, <2>3, <2>4, Settles
<1>6. CASE ~(Max(frame) > job[w].boundary)
  <2> DEFINE j == [job[w] EXCEPT !.stage = "verify", !.to = Max(frame)]
  <2>1. job' = [job EXCEPT ![w] = j]
    <3>1. job' = [job EXCEPT ![w].stage = "verify", ![w].to = Max(frame)]
      BY <1>6, Zenon DEF Measure
    <3>2. job \in [Worker -> {NoJob} \cup Job]
      BY DEF AccountingInv, TypeInv
    <3> HIDE DEF frame
    <3> QED BY <1>2, <3>1, <3>2
  <2>2. Max(frame) \in Nat /\ job[w].to <= Max(frame) /\ Max(frame) <= job[w].boundary
    BY <1>2, <1>3, <1>4, <1>6
  <2>3. /\ j \in Job /\ j.from = job[w].from /\ j.to = Max(frame) /\ j.boundary = job[w].boundary
        /\ j.mode = job[w].mode /\ j.stage = "verify"
    <3> HIDE DEF frame
    <3> QED BY <1>2, <2>2 DEF Job
  <2>4. InFrameOf(Max(frame)) = frame
    BY <1>4 DEF InFrameOf
  <2>5. ChunkOf(j)
    <3> HIDE DEF frame, j
    <3> QED BY <1>2, <1>4, <2>2, <2>3, <2>4 DEF ChunkOf
  <2> HIDE DEF j
  <2>6. Fits(w, j)
    BY <1>2, <2>3, <2>5 DEF Fits
  <2>7. faults' \in Nat
    BY <1>1 DEF AccountingInv, TypeInv
  <2> QED BY <1>1, <2>1, <2>3, <2>6, <2>7, JobStep
<1> QED BY <1>5, <1>6

LEMMA VerifyKeeps ==
  ASSUME AccountingInv, NEW w \in Worker, Verify(w)
  PROVE  AccountingInv'
<1>1. Still /\ UNCHANGED <<gen, faults>> /\ job[w] # NoJob /\ job[w].stage = "verify"
  BY DEF Verify, Still, NoJob
<1>2. /\ ChunkOf(job[w]) /\ job[w].to \in Nat /\ job[w].boundary \in Nat
      /\ job[w].boundary <= Len(log) /\ job[w].to \in DOMAIN log
  BY <1>1, Working
<1>3. PICK i \in DOMAIN log, b \in Nat : i = job[w].to /\ b = job[w].boundary
  BY <1>2
<1>4. CASE FrameIsComplete(i, b)
  <2>1. Settle(w, i)
    BY <1>3, <1>4, Zenon DEF Verify
  <2>2. \A x \in InFrameOf(i) : x <= i \/ x > b
    BY <1>1, <1>2, <1>3 DEF ChunkOf
  <2>3. Whole(i)
    BY <1>2, <1>3, <1>4, <2>2, FrameEnds DEF AccountingInv
  <2>4. i \in Nat /\ i <= job[w].to
    BY <1>2, <1>3
  <2> QED BY <1>1, <2>1, <2>3, <2>4, Settles
<1>5. CASE ~FrameIsComplete(i, b)
  <2>1. Settle(w, Min(InFrameOf(i)) - 1)
    BY <1>3, <1>5, Zenon DEF Verify
  <2>2. Min(InFrameOf(i)) \in 1..i /\ Whole(Min(InFrameOf(i)) - 1)
    BY FrameBegins DEF AccountingInv
  <2>3. Min(InFrameOf(i)) - 1 \in Nat /\ Min(InFrameOf(i)) - 1 <= job[w].to
    BY <1>2, <1>3, <2>2
  <2> QED BY <1>1, <2>1, <2>2, <2>3, Settles
<1> QED BY <1>4, <1>5

LEMMA GivesUpKeeps ==
  ASSUME AccountingInv, NEW w \in Worker, GivesUp(w)
  PROVE  AccountingInv'
<1>1. Still /\ gen' = gen /\ faults' \in Nat /\ job' = [job EXCEPT ![w] = NoJob]
  BY DEF GivesUp, Done, Still, AccountingInv, TypeInv
<1> QED BY <1>1, JobStep

-----------------------------------------------------------------------------
(* Rows, and the hours and totals they add up to.                          *)

Acc(rows) == [i \in DOMAIN rows |-> rows[i].acc]

LEMMA OfTwo ==
  ASSUME NEW x \in Int, NEW y \in Int
  PROVE  Max({x, y}) \in Int /\ Min({x, y}) \in Int
<1>1. \E m \in {x, y} : \A z \in {x, y} : m >= z
  OBVIOUS
<1>2. \E m \in {x, y} : \A z \in {x, y} : m <= z
  OBVIOUS
<1>3. Max({x, y}) \in {x, y}
  BY <1>1, Zenon DEF Max
<1>4. Min({x, y}) \in {x, y}
  BY <1>2, Zenon DEF Min
<1> QED BY <1>3, <1>4

LEMMA HourTyped ==
  ASSUME NEW e \in Event, NEW hour \in Int, NEW total \in Int
  PROVE  InHour(e, hour, total) \in Int
<1>1. e.from \in Int /\ e.frame \in Int /\ FramesPerHour \in Int
  BY RolesAssumption DEF Event, ConnEvent, OtherEvent
<1>2. ASSUME NEW t \in Int
      PROVE  Cumulative(t, e.from, e.frame, total) \in Int
  <2>1. CASE t <= e.from
    BY <1>1, <2>1 DEF Cumulative
  <2>2. CASE t >= e.frame /\ ~(t <= e.from)
    BY <1>1, <2>2 DEF Cumulative
  <2>3. CASE ~(t >= e.frame) /\ ~(t <= e.from)
    <3>1. e.frame - e.from \in Nat \ {0} /\ total * (t - e.from) \in Int
      BY <1>1, <2>3
    <3>2. \A p \in Int, q \in Nat \ {0} : p \div q \in Int
      OBVIOUS
    <3>3. (total * (t - e.from)) \div (e.frame - e.from) \in Int
      BY <3>1, <3>2
    <3> QED BY <1>1, <2>3, <3>3 DEF Cumulative
  <2> QED BY <1>1, <2>1, <2>2, <2>3
<1>3. CASE IsExact(e)
  BY <1>3 DEF InHour
<1>4. CASE ~IsExact(e)
  <2>1. hour * FramesPerHour \in Int /\ (hour + 1) * FramesPerHour \in Int
    BY <1>1
  <2>2. PICK p \in Int, q \in Int : /\ p = Max({e.from, hour * FramesPerHour})
                                    /\ q = Min({e.frame, (hour + 1) * FramesPerHour})
    BY <1>1, <2>1, OfTwo
  <2>3. PICK d \in Int : d = Cumulative(q, e.from, e.frame, total) - Cumulative(p, e.from, e.frame, total)
    BY <1>2
  <2>4. Max({0, d}) \in Int
    BY OfTwo
  <2>5. InHour(e, hour, total) = Max({0, d})
    BY <1>4, <2>2, <2>3, Zenon DEF InHour, Share
  <2> QED BY <2>4, <2>5
<1> QED BY <1>3, <1>4

LEMMA TotalTyped == \A amount : Integral(amount) /\ JournalInv => Total(amount) \in Int
<1> SUFFICES ASSUME NEW amount, Integral(amount), JournalInv PROVE Total(amount) \in Int
  OBVIOUS
<1>1. PICK n \in Nat : n = Len(log)
  BY DEF JournalInv
<1>2. SumTo(amount, n) \in Int
  BY SumTyped
<1> QED BY <1>1, <1>2, MeaningNow DEF TotalMeans

LEMMA HoursTyped ==
  ASSUME JournalInv, NEW hours \in [Buckets -> Int], NEW amount, Integral(amount),
         DOMAIN amount \subseteq DOMAIN log, NEW exact
  PROVE  AddHours(hours, amount, exact) \in [Buckets -> Int]
<1> DEFINE in(b) == {i \in DOMAIN amount : IsExact(log[i]) = exact /\ b \in BucketsOf(i)}
           f(b) == [i \in in(b) |-> InHour(log[i], b[2], amount[i])]
<1>1. AddHours(hours, amount, exact) = [b \in Buckets |-> hours[b] + Total(f(b))]
  BY Zenon DEF AddHours
<1>2. ASSUME NEW b \in Buckets PROVE Total(f(b)) \in Int
  <2>1. b[2] \in Int
    BY DEF Buckets
  <2>2. \A i \in in(b) : InHour(log[i], b[2], amount[i]) \in Int
    <3> TAKE i \in in(b)
    <3>1. log[i] \in Event /\ amount[i] \in Int
      BY EventTyped DEF Integral
    <3> QED BY <2>1, <3>1, HourTyped
  <2>3. Integral(f(b))
    <3> HIDE DEF in
    <3> QED BY <2>2 DEF Integral
  <2> HIDE DEF f
  <2> QED BY <2>3, TotalTyped
<1> HIDE DEF f
<1> QED BY <1>1, <1>2

\* The hours with more bytes of exact rows in them.
Exactly(hours, amount) == AddHours(hours, amount, TRUE)

\* Amounts that add up row by row add up in total, and in every hour.
AddUp(a, b, c) ==
  Integral(a) /\ Integral(b) /\ Integral(c) /\ \A i : At(c, i) = At(a, i) + At(b, i)

LEMMA Adds ==
  ASSUME JournalInv, NEW a, NEW b, NEW c, AddUp(a, b, c), NEW hours \in [Buckets -> Int]
  PROVE  /\ Total(c) = Total(a) + Total(b)
         /\ Exactly(Exactly(hours, a), b) = Exactly(hours, c)
<1>0. Integral(a) /\ Integral(b) /\ Integral(c) /\ \A i : At(c, i) = At(a, i) + At(b, i)
  BY DEF AddUp
<1>1. PICK n \in Nat : n = Len(log)
  BY DEF JournalInv
<1>2. Total(c) = Total(a) + Total(b)
  <2>1. SumTo(c, n) = SumTo(a, n) + SumTo(b, n)
    BY <1>0, SumAdds
  <2> QED BY <1>1, <2>1, MeaningNow DEF TotalMeans
<1> DEFINE sum(x, h) == SumTo(ExactIn(log, x, h), Len(log))
<1>3. \A x, from : Exactly(from, x) = [h \in Buckets |-> from[h] + sum(x, h)]
  BY MeaningNow, Zenon DEF HoursMean, Exactly
<1>4. ASSUME NEW h \in Buckets
      PROVE  sum(c, h) = sum(a, h) + sum(b, h) /\ sum(a, h) \in Int /\ sum(b, h) \in Int
  <2> DEFINE P(i) == IsExact(log[i]) /\ h \in {<<log[i].session, t>> : t \in HoursOf(log[i])}
  <2>1. \A x : Integral(x) => Integral(ExactIn(log, x, h))
    BY DEF Integral, ExactIn
  <2>2. \A x, i : At(ExactIn(log, x, h), i) = IF P(i) THEN At(x, i) ELSE 0
    <3> HIDE DEF P
    <3>1. \A x : ExactIn(log, x, h) = [i \in {j \in DOMAIN x : P(j)} |-> x[i]]
      BY Zenon DEF ExactIn, P
    <3> TAKE x, i
    <3>2. PICK e : e = ExactIn(log, x, h)
      OBVIOUS
    <3>3. DOMAIN e = {j \in DOMAIN x : P(j)} /\ \A j \in DOMAIN e : e[j] = x[j]
      BY <3>1, <3>2, ZenonT(40)
    <3> QED BY <3>2, <3>3 DEF At
  <2> HIDE DEF P
  <2>3. PICK ea, eb, ec : /\ ea = ExactIn(log, a, h) /\ eb = ExactIn(log, b, h)
                          /\ ec = ExactIn(log, c, h)
    OBVIOUS
  <2>4. Integral(ea) /\ Integral(eb) /\ Integral(ec)
    BY <1>0, <2>1, <2>3
  <2>5. \A i \in 1..n : At(ec, i) = At(ea, i) + At(eb, i)
    BY <1>0, <2>2, <2>3
  <2>6. SumTo(ec, n) = SumTo(ea, n) + SumTo(eb, n)
    BY <2>4, <2>5, SumAdds
  <2>7. SumTo(ea, n) \in Int /\ SumTo(eb, n) \in Int
    BY <2>4, SumTyped
  <2> QED BY <1>1, <2>3, <2>6, <2>7
<1> HIDE DEF sum
<1>5. Exactly(Exactly(hours, a), b) = [h \in Buckets |-> (hours[h] + sum(a, h)) + sum(b, h)]
  <2>1. PICK x : x = Exactly(hours, a)
    OBVIOUS
  <2>2. Exactly(x, b) = [h \in Buckets |-> x[h] + sum(b, h)]
    BY <1>3
  <2>3. x = [h \in Buckets |-> hours[h] + sum(a, h)]
    BY <1>3, <2>1
  <2> QED BY <2>1, <2>2, <2>3
<1>6. Exactly(hours, c) = [h \in Buckets |-> hours[h] + sum(c, h)]
  BY <1>3
<1>7. \A h \in Buckets : (hours[h] + sum(a, h)) + sum(b, h) = hours[h] + sum(c, h)
  BY <1>4
<1>8. Exactly(Exactly(hours, a), b) = Exactly(hours, c)
  BY <1>5, <1>6, <1>7, Zenon
<1> QED BY <1>2, <1>8

LEMMA RowsAre ==
  ASSUME NEW rows \in RowSets
  PROVE  /\ Integral(Acc(rows)) /\ DOMAIN Acc(rows) = DOMAIN rows
         /\ \A i : At(Acc(rows), i) = IF i \in DOMAIN rows THEN rows[i].acc ELSE 0
         /\ \A i \in DOMAIN rows : rows[i].acc \in Nat
<1>1. rows \in [DOMAIN rows -> [acc : Nat, class : Classes]]
  BY StatesAre
<1>2. \A i \in DOMAIN rows : rows[i].acc \in Nat
  BY <1>1
<1> QED BY <1>2 DEF Acc, Integral, At

HoursAdd(hours, rows, new, all) ==
  Exactly(Exactly(hours, Acc(rows)), Acc(new)) = Exactly(hours, Acc(all))

\* New rows, of events that had none.
LEMMA Inserted ==
  ASSUME JournalInv, NEW rows \in RowSets, NEW new \in RowSets, NEW all, all = With(new, rows),
         DOMAIN rows \subseteq DOMAIN log, DOMAIN new \subseteq DOMAIN log,
         DOMAIN rows \cap DOMAIN new = {}, NEW hours \in [Buckets -> Int]
  PROVE  /\ all \in RowSets /\ DOMAIN all = DOMAIN new \cup DOMAIN rows
         /\ HoursAdd(hours, rows, new, all)
         /\ AddedAccounted(all) = AddedAccounted(rows) + AddedAccounted(new)
         /\ AddedBytes(all) = AddedBytes(rows) + AddedBytes(new)
         /\ CountedIn(all) = CountedIn(rows) \cup CountedIn(new)
<1>1. /\ DOMAIN all = DOMAIN new \cup DOMAIN rows
      /\ \A i \in DOMAIN new : all[i] = new[i]
      /\ \A i \in DOMAIN rows : all[i] = rows[i]
      /\ all = [i \in DOMAIN all |-> all[i]]
  BY DEF With
<1>2. all \in RowSets
  <2>1. /\ rows \in [DOMAIN rows -> [acc : Nat, class : Classes]] /\ DOMAIN rows \subseteq Nat \ {0}
        /\ new \in [DOMAIN new -> [acc : Nat, class : Classes]] /\ DOMAIN new \subseteq Nat \ {0}
    BY StatesAre
  <2>2. all \in [DOMAIN all -> [acc : Nat, class : Classes]] /\ DOMAIN all \subseteq Nat \ {0}
    <3> DEFINE R == [acc : Nat, class : Classes]
    <3>1. \A i \in DOMAIN all : all[i] \in R
      <4> HIDE DEF R
      <4> QED BY <1>1, <2>1 DEF R
    <3> HIDE DEF R
    <3> QED BY <1>1, <2>1, <3>1 DEF R
  <2> QED BY <2>2, StatesAre
<1>3. /\ Integral(Acc(rows)) /\ Integral(Acc(new)) /\ Integral(Acc(all))
      /\ \A i : At(Acc(all), i) = At(Acc(rows), i) + At(Acc(new), i)
  <2>1. \A i \in DOMAIN rows : i \notin DOMAIN new
    OBVIOUS
  <2>2. /\ Integral(Acc(rows)) /\ Integral(Acc(new)) /\ Integral(Acc(all))
    BY <1>2, RowsAre
  <2>3. /\ \A i : At(Acc(rows), i) = IF i \in DOMAIN rows THEN rows[i].acc ELSE 0
        /\ \A i : At(Acc(new), i) = IF i \in DOMAIN new THEN new[i].acc ELSE 0
        /\ \A i : At(Acc(all), i) = IF i \in DOMAIN all THEN all[i].acc ELSE 0
        /\ \A i \in DOMAIN rows : rows[i].acc \in Nat
        /\ \A i \in DOMAIN new : new[i].acc \in Nat
    BY <1>2, RowsAre
  <2> QED BY <1>1, <2>1, <2>2, <2>3
<1>4. \A r : AddedAccounted(r) = Total(Acc(r))
  BY Zenon DEF AddedAccounted, Acc
<1>5. /\ AddedAccounted(all) = AddedAccounted(rows) + AddedAccounted(new)
      /\ Exactly(Exactly(hours, Acc(rows)), Acc(new)) = Exactly(hours, Acc(all))
  <2>1. PICK a, b, c : a = Acc(rows) /\ b = Acc(new) /\ c = Acc(all)
    OBVIOUS
  <2>2. AddUp(a, b, c)
    BY <1>3, <2>1 DEF AddUp
  <2>3. Total(c) = Total(a) + Total(b)
    BY <2>2, Adds, Zenon
  <2>4. Exactly(Exactly(hours, a), b) = Exactly(hours, c)
    BY <2>2, Adds
  <2> QED BY <1>4, <2>1, <2>3, <2>4
<1>6. AddedBytes(all) = AddedBytes(rows) + AddedBytes(new)
  <2> DEFINE bytes(r) == [i \in DOMAIN r |-> log[i].bytes]
  <2>1. \A i \in DOMAIN log : log[i].bytes \in Int
    BY EventTyped
  <2>2. Integral(bytes(rows)) /\ Integral(bytes(new)) /\ Integral(bytes(all))
    BY <1>1, <2>1 DEF Integral
  <2>3. \A i : At(bytes(all), i) = At(bytes(rows), i) + At(bytes(new), i)
    BY <1>1, <2>1 DEF At
  <2>4. AddedBytes(rows) = Total(bytes(rows)) /\ AddedBytes(new) = Total(bytes(new))
        /\ AddedBytes(all) = Total(bytes(all))
    BY Zenon DEF AddedBytes
  <2> HIDE DEF bytes
  <2>5. PICK a, b, c : a = bytes(rows) /\ b = bytes(new) /\ c = bytes(all)
    OBVIOUS
  <2>6. AddUp(a, b, c)
    BY <2>2, <2>3, <2>5 DEF AddUp
  <2>7. Total(c) = Total(a) + Total(b)
    BY <2>6, Adds, Zenon
  <2> QED BY <2>4, <2>5, <2>7
<1>7. CountedIn(all) = CountedIn(rows) \cup CountedIn(new)
  <2> DEFINE pairs(i) == {<<b, KeyOf(log[i])>> : b \in BucketsOf(i)}
             counts(r) == {i \in DOMAIN r : r[i].acc # 0}
  <2>1. \A r : CountedIn(r) = UNION {pairs(i) : i \in counts(r)}
    BY Zenon DEF CountedIn
  <2>2. counts(all) = counts(rows) \cup counts(new)
    BY <1>1
  <2> HIDE DEF pairs, counts
  <2> QED BY <2>1, <2>2
<1> QED BY <1>1, <1>2, <1>5, <1>6, <1>7 DEF HoursAdd

LEMMA AccountedIs ==
  ASSUME NEW bytes \in Nat, NEW class
  PROVE  /\ Accounted(bytes, class) \in Nat
         /\ class = "confirmed" => Accounted(bytes, class) = 0
         /\ class # "confirmed" => Accounted(bytes, class) = bytes
BY DEF Accounted

\* What a correction makes of the rows: those of a connection in the plan are
\* accounted by the class it has there, and hours and totals move with them.
LEMMA Corrected ==
  ASSUME AccountingInv, NEW plan \in Plans
  PROVE  /\ CorrectedRows(gen, plan) \in RowSets /\ Integral(Corrections(gen, plan))
         /\ DOMAIN Corrections(gen, plan) \subseteq DOMAIN log
         /\ DOMAIN CorrectedRows(gen, plan) = DOMAIN gen.rows
         /\ \A i \in DOMAIN gen.rows :
              CorrectedRows(gen, plan)[i].acc =
                IF KeyOf(log[i]) \in DOMAIN plan
                  THEN Accounted(log[i].bytes, plan[KeyOf(log[i])]) ELSE gen.rows[i].acc
         /\ \A i : At(Acc(CorrectedRows(gen, plan)), i) = At(Acc(gen.rows), i) + At(Corrections(gen, plan), i)
<1> DEFINE of(i) == KeyOf(log[i])
           new(i) == Accounted(log[i].bytes, plan[of(i)])
           stale == {i \in DOMAIN gen.rows : of(i) \in Changed(gen, plan) /\ gen.rows[i].acc # new(i)}
           d == Corrections(gen, plan)
           fixed == [i \in DOMAIN d |-> [acc |-> gen.rows[i].acc + d[i], class |-> plan[of(i)]]]
           all == CorrectedRows(gen, plan)
<1>1. d = [i \in stale |-> new(i) - gen.rows[i].acc]
  BY Zenon DEF Corrections
<1>2. all = With(fixed, gen.rows)
  BY Zenon DEF CorrectedRows
<1>3. /\ gen.rows \in RowSets /\ plan \in [DOMAIN plan -> Classes]
      /\ \A i \in DOMAIN gen.rows : /\ i \in DOMAIN log /\ of(i) \in DOMAIN gen.conns
                                    /\ gen.rows[i].acc \in Nat
                                    /\ gen.rows[i].acc = Accounted(log[i].bytes, gen.conns[of(i)].class)
  BY RowsTyped, StatesAre DEF AccountingInv, RowsInv, TypeInv, Generation
<1>4. \A i \in DOMAIN gen.rows : log[i].bytes \in Nat /\ new(i) \in Nat
  <2>1. \A i \in DOMAIN log : log[i].bytes \in Nat
    BY EventTyped DEF AccountingInv
  <2> QED BY <1>3, <2>1, AccountedIs
<1>5. \A i \in DOMAIN gen.rows : of(i) \in DOMAIN plan =>
        IF i \in stale THEN of(i) \in Changed(gen, plan) ELSE gen.rows[i].acc = new(i)
  <2> TAKE i \in DOMAIN gen.rows
  <2>1. CASE of(i) \in Changed(gen, plan)
    BY <2>1
  <2>2. CASE of(i) \notin Changed(gen, plan) /\ of(i) \in DOMAIN plan
    <3>1. gen.conns[of(i)].class = plan[of(i)]
      BY <1>3, <2>2 DEF Changed
    <3>2. gen.rows[i].acc = new(i)
      BY <1>3, <3>1
    <3>3. i \notin stale
      BY <2>2
    <3> QED BY <3>2, <3>3
  <2> QED BY <2>1, <2>2
<1>6. \A i \in stale : of(i) \in DOMAIN plan
  BY DEF Changed
<1>7. stale \subseteq DOMAIN gen.rows
  OBVIOUS
<1> HIDE DEF stale, d, all, new
<1>8. DOMAIN d = stale /\ \A i \in stale : d[i] = new(i) - gen.rows[i].acc
  BY <1>1
<1>9. /\ DOMAIN all = DOMAIN gen.rows
      /\ \A i \in DOMAIN gen.rows : all[i] = IF i \in stale THEN fixed[i] ELSE gen.rows[i]
      /\ all = [i \in DOMAIN gen.rows |-> all[i]]
  <2> HIDE DEF fixed
  <2>1. DOMAIN fixed = stale
    BY <1>8 DEF fixed
  <2>2. DOMAIN fixed \cup DOMAIN gen.rows = DOMAIN gen.rows
    BY <1>7, <2>1
  <2> QED BY <1>2, <2>1, <2>2 DEF With
<1>10. \A i \in stale : fixed[i] = [acc |-> new(i), class |-> plan[of(i)]]
  <2> TAKE i \in stale
  <2>1. gen.rows[i].acc + d[i] = new(i)
    BY <1>3, <1>4, <1>7, <1>8
  <2> QED BY <1>8, <2>1
<1> HIDE DEF fixed, of
<1>10a. \A i \in stale : all[i] = [acc |-> new(i), class |-> plan[of(i)]]
  BY <1>7, <1>9, <1>10
<1>10b. \A i \in stale : all[i].acc = new(i) /\ all[i] \in [acc : Nat, class : Classes]
  <2> TAKE i \in stale
  <2>1. new(i) \in Nat /\ plan[of(i)] \in Classes
    BY <1>3, <1>4, <1>6, <1>7
  <2>2. all[i] = [acc |-> new(i), class |-> plan[of(i)]]
    BY <1>10a
  <2> QED BY <2>1, <2>2
<1>11. \A i \in DOMAIN gen.rows : all[i].acc = IF of(i) \in DOMAIN plan THEN new(i) ELSE gen.rows[i].acc
  <2> TAKE i \in DOMAIN gen.rows
  <2>1. CASE i \in stale
    BY <1>6, <1>10b, <2>1
  <2>2. CASE i \notin stale
    BY <1>5, <1>9, <2>2
  <2> QED BY <2>1, <2>2
<1>12. all \in RowSets
  <2> DEFINE R == [acc : Nat, class : Classes]
  <2>1. gen.rows \in [DOMAIN gen.rows -> R] /\ DOMAIN gen.rows \subseteq Nat \ {0}
    BY <1>3, StatesAre
  <2>2. \A i \in stale : all[i] \in R
    BY <1>10b
  <2> HIDE DEF R
  <2>3. \A i \in DOMAIN gen.rows : all[i] \in R
    BY <1>9, <2>1, <2>2
  <2>4. all \in [DOMAIN all -> R] /\ DOMAIN all \subseteq Nat \ {0}
    BY <1>9, <2>1, <2>3
  <2> QED BY <2>4, StatesAre DEF R
<1>13. Integral(d)
  BY <1>3, <1>4, <1>7, <1>8 DEF Integral
<1>14. ASSUME NEW i PROVE At(Acc(all), i) = At(Acc(gen.rows), i) + At(d, i)
  <2>1. At(Acc(all), i) = IF i \in DOMAIN gen.rows THEN all[i].acc ELSE 0
    BY <1>9, <1>12, RowsAre
  <2>2. At(Acc(gen.rows), i) = IF i \in DOMAIN gen.rows THEN gen.rows[i].acc ELSE 0
    BY <1>3, RowsAre
  <2>3. CASE i \in stale
    <3>1. all[i].acc = new(i) /\ new(i) \in Nat /\ gen.rows[i].acc \in Nat
      BY <1>3, <1>4, <1>7, <1>10b, <2>3
    <3> QED BY <1>7, <1>8, <2>1, <2>2, <2>3, <3>1 DEF At
  <2>4. CASE i \notin stale
    <3>1. At(d, i) = 0
      BY <1>8, <2>4 DEF At
    <3>2. i \in DOMAIN gen.rows => all[i].acc = gen.rows[i].acc /\ gen.rows[i].acc \in Nat
      BY <1>3, <1>9, <2>4
    <3> QED BY <2>1, <2>2, <3>1, <3>2
  <2> QED BY <2>3, <2>4
<1> QED BY <1>3, <1>7, <1>8, <1>9, <1>11, <1>12, <1>13, <1>14 DEF d, all, of, new

\* The connections counted in an hour are those of the corrected rows.
LEMMA CountsCorrected ==
  ASSUME AccountingInv, NEW plan \in Plans
  PROVE  LET was(k)  == IF k \in DOMAIN gen.conns THEN gen.conns[k].class ELSE "none"
             copies  == {k \in Changed(gen, plan) : plan[k] = "confirmed"}
             cleared == {k \in Changed(gen, plan) : was(k) = "confirmed"}
         IN  {p \in gen.counted : p[2] \notin copies} \cup
             {p \in CountedIn(CorrectedRows(gen, plan)) : p[2] \in cleared}
               = CountedIn(CorrectedRows(gen, plan))
<1> DEFINE was(k) == IF k \in DOMAIN gen.conns THEN gen.conns[k].class ELSE "none"
           copies == {k \in Changed(gen, plan) : plan[k] = "confirmed"}
           cleared == {k \in Changed(gen, plan) : was(k) = "confirmed"}
           old == gen.rows
           new == CorrectedRows(gen, plan)
           of(i) == KeyOf(log[i])
<1>1. /\ DOMAIN new = DOMAIN old
      /\ \A i \in DOMAIN old :
           /\ new[i].acc = IF of(i) \in DOMAIN plan THEN Accounted(log[i].bytes, plan[of(i)])
                                                    ELSE old[i].acc
           /\ old[i].acc = Accounted(log[i].bytes, gen.conns[of(i)].class)
           /\ of(i) \in DOMAIN gen.conns /\ log[i].bytes \in Nat
  <2>1. \A i \in DOMAIN log : log[i].bytes \in Nat
    BY EventTyped DEF AccountingInv
  <2> QED BY <2>1, Corrected, RowsTyped DEF AccountingInv, RowsInv
<1>2. \A rows, p : p \in CountedIn(rows) <=>
        \E i \in DOMAIN rows : rows[i].acc # 0 /\ \E b \in BucketsOf(i) : p = <<b, of(i)>>
  BY DEF CountedIn
<1>3. gen.counted = CountedIn(old)
  BY DEF AccountingInv, HoursFollowRows
<1>4. ASSUME NEW i \in DOMAIN old
      PROVE  /\ of(i) \in copies => new[i].acc = 0
             /\ of(i) \in cleared => old[i].acc = 0 /\ of(i) \notin copies
             /\ of(i) \notin copies /\ of(i) \notin cleared => new[i].acc = old[i].acc
  <2>1. of(i) \in copies => of(i) \in DOMAIN plan /\ plan[of(i)] = "confirmed"
    BY DEF Changed
  <2>2. of(i) \in cleared => gen.conns[of(i)].class = "confirmed" /\ plan[of(i)] # "confirmed"
    BY <1>1 DEF Changed
  <2>3. of(i) \notin copies /\ of(i) \notin cleared /\ of(i) \in DOMAIN plan =>
          plan[of(i)] = "confirmed" <=> gen.conns[of(i)].class = "confirmed"
    BY <1>1 DEF Changed
  <2>4. \A c : /\ c = "confirmed" => Accounted(log[i].bytes, c) = 0
               /\ c # "confirmed" => Accounted(log[i].bytes, c) = log[i].bytes
    BY <1>1, AccountedIs
  <2> HIDE DEF copies, cleared, new, of
  <2> QED BY <1>1, <2>1, <2>2, <2>3, <2>4 DEF copies
<1> HIDE DEF copies, cleared, new, of
<1>5. ASSUME NEW p \in CountedIn(new)
      PROVE  p \in {q \in CountedIn(old) : q[2] \notin copies} \/ p[2] \in cleared
  <2>1. PICK i \in DOMAIN old : new[i].acc # 0 /\ \E b \in BucketsOf(i) : p = <<b, of(i)>>
    BY <1>1, <1>2
  <2>2. p[2] = of(i) /\ of(i) \notin copies
    BY <1>4, <2>1
  <2>3. of(i) \notin cleared => p \in CountedIn(old)
    BY <1>2, <1>4, <2>1, <2>2
  <2> QED BY <2>2, <2>3
<1>6. ASSUME NEW p \in CountedIn(old), p[2] \notin copies PROVE p \in CountedIn(new)
  <2>1. PICK i \in DOMAIN old : old[i].acc # 0 /\ \E b \in BucketsOf(i) : p = <<b, of(i)>>
    BY <1>2
  <2>2. p[2] = of(i)
    BY <2>1
  <2>3. new[i].acc # 0
    BY <1>4, <1>6, <2>1, <2>2
  <2> QED BY <1>1, <1>2, <2>1, <2>3
<1>7. {p \in gen.counted : p[2] \notin copies} \cup {p \in CountedIn(new) : p[2] \in cleared} = CountedIn(new)
  BY <1>3, <1>5, <1>6
<1> QED BY <1>7, Zenon DEF copies, cleared, new

-----------------------------------------------------------------------------
(* The steps that write a generation.                                      *)

LEMMA NoRows ==
  ASSUME JournalInv
  PROVE  /\ Traffic(0, 0) = {} /\ After(log, << >>, 0, 0) = << >> /\ Plain(<< >>) = << >>
         /\ Exactly(NoHours, Acc(<< >>)) = NoHours /\ CountedIn(<< >>) = {}
         /\ Acc(<< >>) = << >>
<1>1. Traffic(0, 0) = {}
  BY DEF Traffic
<1>2. After(log, << >>, 0, 0) = << >>
  BY AfterSteps
<1>3. Plain(<< >>) = << >> /\ Acc(<< >>) = << >>
  BY DEF Plain, Acc
<1>4. Exactly(NoHours, Acc(<< >>)) = NoHours
  <2>1. PICK a : a = Acc(<< >>)
    OBVIOUS
  <2>2. DOMAIN a = {}
    BY <1>3, <2>1
  <2>3. Exactly(NoHours, a) = [b \in Buckets |-> NoHours[b] + SumTo(ExactIn(log, a, b), Len(log))]
    BY MeaningNow, Zenon DEF HoursMean, Exactly
  <2>4. ASSUME NEW b \in Buckets PROVE NoHours[b] + SumTo(ExactIn(log, a, b), Len(log)) = 0
    <3>1. PICK e : e = ExactIn(log, a, b)
      OBVIOUS
    <3>2. DOMAIN e = {}
      BY <2>2, <3>1 DEF ExactIn
    <3>3. SumTo(e, Len(log)) = 0
      <4>1. PICK n \in Nat, z \in Nat : n = Len(log) /\ z = 0 /\ z <= n
        BY DEF JournalInv
      <4>2. Integral(e) /\ \A i \in 1..z : At(e, i) = At(e, i)
        BY <3>2 DEF Integral
      <4>3. \A i \in DOMAIN e : i <= z
        BY <3>2
      <4>4. SumTo(e, z) = SumTo(e, n)
        BY <4>1, <4>2, <4>3, SumSame
      <4>5. SumTo(e, 0) = 0
        BY SumSteps
      <4> QED BY <4>1, <4>4, <4>5
    <3> QED BY <3>1, <3>3 DEF NoHours
  <2>5. Exactly(NoHours, a) = [b \in Buckets |-> 0]
    BY <2>3, <2>4
  <2> QED BY <2>1, <2>5 DEF NoHours
<1>5. CountedIn(<< >>) = {}
  BY DEF CountedIn
<1> QED BY <1>1, <1>2, <1>3, <1>4, <1>5

\* What a generation must be after a step that writes it.
LEMMA GenStep ==
  ASSUME JournalInv, Still, TypeInv', JobInv',
         gen'.boundary <= Len(log), gen'.published <= Len(log),
         gen'.seedLast <= gen'.boundary, gen'.matLast <= gen'.boundary,
         Whole(gen'.seedLast), Whole(gen'.matLast), Whole(gen'.published),
         Plain(gen'.conns) = After(log, << >>, 0, Covered'),
         DOMAIN gen'.rows = Traffic(0, RowsTo'),
         \A i \in DOMAIN gen'.rows :
           gen'.rows[i].acc = Accounted(log[i].bytes, gen'.conns[KeyOf(log[i])].class),
         Serving' => gen'.raw = AddedBytes(gen'.rows) /\ gen'.acc = AddedAccounted(gen'.rows),
         gen'.exact = Exactly(NoHours, Acc(gen'.rows)), gen'.counted = CountedIn(gen'.rows)
  PROVE  AccountingInv'
<1> USE StillSame
<1>1. PlaceInv'
  BY DEF PlaceInv
<1>2. StateInv'
  BY DEF StateInv
<1>3. RowsInv'
  BY DEF RowsInv
<1>4. TotalsInv'
  BY DEF TotalsInv
<1>5. HoursFollowRows'
  <2>1. PICK a : a = Acc(gen'.rows)
    OBVIOUS
  <2>2. HoursOfRows(TRUE)' = AddHours(NoHours, a, TRUE)'
    BY <2>1, Zenon DEF HoursOfRows, Acc
  <2>3. AddHours(NoHours, a, TRUE)' = AddHours(NoHours, a, TRUE)
    OBVIOUS
  <2>4. HoursOfRows(TRUE)' = Exactly(NoHours, Acc(gen'.rows))
    BY <2>1, <2>2, <2>3 DEF Exactly
  <2>5. CountedIn(gen.rows)' = CountedIn(gen'.rows)
    OBVIOUS
  <2> QED BY <2>4, <2>5 DEF HoursFollowRows
<1> QED BY <1>1, <1>2, <1>3, <1>4, <1>5 DEF AccountingInv

\* What there is to know of the generation before it.
LEMMA Before ==
  ASSUME AccountingInv
  PROVE  /\ JournalInv /\ gen \in Generation /\ job \in [Worker -> {NoJob} \cup Job] /\ faults \in Nat
         /\ gen.boundary \in Nat /\ gen.seedLast \in Nat /\ gen.matLast \in Nat /\ gen.published \in Nat
         /\ gen.boundary <= Len(log) /\ gen.published <= Len(log)
         /\ gen.seedLast <= gen.boundary /\ gen.matLast <= gen.boundary
         /\ Whole(gen.seedLast) /\ Whole(gen.matLast) /\ Whole(gen.published)
         /\ Plain(gen.conns) = After(log, << >>, 0, Covered)
         /\ DOMAIN gen.rows = Traffic(0, RowsTo)
         /\ \A i \in DOMAIN gen.rows :
              gen.rows[i].acc = Accounted(log[i].bytes, gen.conns[KeyOf(log[i])].class)
         /\ Serving => gen.raw = AddedBytes(gen.rows) /\ gen.acc = AddedAccounted(gen.rows)
         /\ gen.exact = Exactly(NoHours, Acc(gen.rows)) /\ gen.counted = CountedIn(gen.rows)
         /\ IsState(gen.conns) /\ gen.rows \in RowSets /\ Len(log) \in Nat /\ DOMAIN log = 1..Len(log)
<1>1. HoursOfRows(TRUE) = Exactly(NoHours, Acc(gen.rows))
  BY Zenon DEF HoursOfRows, Exactly, Acc
<1>2. /\ gen \in Generation /\ IsState(gen.conns) /\ gen.rows \in RowSets
      /\ gen.boundary \in Nat /\ gen.seedLast \in Nat /\ gen.matLast \in Nat /\ gen.published \in Nat
  BY StatesAre DEF AccountingInv, TypeInv, Generation
<1>3. Len(log) \in Nat /\ DOMAIN log = 1..Len(log)
  BY DEF AccountingInv, JournalInv
<1> QED BY <1>1, <1>2, <1>3 DEF AccountingInv, TypeInv, PlaceInv, StateInv, RowsInv, TotalsInv,
                                HoursFollowRows

\* Nobody works at a chunk.
Idle == \A w \in Worker : job[w] = NoJob

LEMMA SupersedeKeeps ==
  ASSUME AccountingInv, Supersede
  PROVE  AccountingInv'
<1> USE Before
<1>1. /\ Still /\ job' = job /\ faults' = faults /\ gen.status = "active"
      /\ gen' = [gen EXCEPT !.status = "superseded"]
  BY DEF Supersede, Still
<1>2. /\ gen' \in Generation /\ gen'.status = "superseded"
      /\ gen'.boundary = gen.boundary /\ gen'.seedLast = gen.seedLast /\ gen'.matLast = gen.matLast
      /\ gen'.published = gen.published /\ gen'.conns = gen.conns /\ gen'.rows = gen.rows
      /\ gen'.raw = gen.raw /\ gen'.acc = gen.acc /\ gen'.exact = gen.exact
      /\ gen'.counted = gen.counted
  BY <1>1 DEF Generation
<1>3. Serving /\ Serving' /\ Covered' = Covered /\ RowsTo' = RowsTo
  BY <1>1, <1>2 DEF Serving, Covered, RowsTo
<1>4. TypeInv'
  BY <1>1, <1>2 DEF TypeInv
<1>5. JobInv'
  <2> SUFFICES ASSUME NEW w \in Worker, job[w] # NoJob PROVE Fits(w, job[w])'
    BY <1>1 DEF JobInv
  <2>1. job[w] \in Job /\ Fits(w, job[w])
    BY Working
  <2>2. job[w].mode = "active"
    BY <1>1, <2>1 DEF Fits, Job
  <2>3. PICK j : j = job[w]
    OBVIOUS
  <2>4. ChunkOf(j)'
    BY <1>1, <2>1, <2>3, StillSame DEF Fits
  <2>5. Fits(w, j)'
    BY <1>3, <2>2, <2>3, <2>4 DEF Fits
  <2> QED BY <1>1, <2>3, <2>5 DEF Fits, ChunkOf
<1> QED BY <1>1, <1>2, <1>3, <1>4, <1>5, GenStep

LEMMA ActivationFailsKeeps ==
  ASSUME AccountingInv, NEW w \in Worker, ActivationFails(w)
  PROVE  AccountingInv'
<1> USE Before
<1>1. /\ Still /\ job' = job /\ faults' \in Nat /\ gen.status = "materializing" /\ Idle
      /\ gen' = [gen EXCEPT !.status = "failed"]
  BY DEF ActivationFails, Materialized, Alone, Idle, Still
<1>2. /\ gen' \in Generation /\ gen'.status = "failed"
      /\ gen'.boundary = gen.boundary /\ gen'.seedLast = gen.seedLast /\ gen'.matLast = gen.matLast
      /\ gen'.published = gen.published /\ gen'.conns = gen.conns /\ gen'.rows = gen.rows
      /\ gen'.raw = gen.raw /\ gen'.acc = gen.acc /\ gen'.exact = gen.exact
      /\ gen'.counted = gen.counted
  BY <1>1 DEF Generation
<1>3. ~Serving' /\ Covered' = Covered /\ RowsTo' = RowsTo
  BY <1>1, <1>2 DEF Serving, Covered, RowsTo
<1>4. TypeInv' /\ JobInv'
  BY <1>1, <1>2 DEF TypeInv, JobInv, Idle
<1> QED BY <1>1, <1>2, <1>3, <1>4, GenStep

LEMMA ActivateKeeps ==
  ASSUME AccountingInv, NEW w \in Worker, Activate(w)
  PROVE  AccountingInv'
<1> USE Before
<1>1. /\ Still /\ job' = job /\ faults' = faults /\ gen.status = "materializing" /\ Idle
      /\ gen.matLast >= gen.boundary
      /\ gen' = [gen EXCEPT !.status = "active", !.published = gen.boundary,
                            !.raw = AddedBytes(gen.rows), !.acc = AddedAccounted(gen.rows)]
  BY DEF Activate, Materialized, Alone, Idle, Still
<1>2. AddedBytes(gen.rows) \in Int /\ AddedAccounted(gen.rows) \in Int
  <2>1. \A i \in DOMAIN gen.rows : i \in DOMAIN log
    BY RowsTyped DEF AccountingInv
  <2>2. \A i \in DOMAIN gen.rows : log[i].bytes \in Int /\ gen.rows[i].acc \in Int
    BY <2>1, RowsAre, EventTyped
  <2>3. PICK a, b : a = [i \in DOMAIN gen.rows |-> log[i].bytes] /\ b = [i \in DOMAIN gen.rows |-> gen.rows[i].acc]
    OBVIOUS
  <2>4. Integral(a) /\ Integral(b)
    BY <2>2, <2>3 DEF Integral
  <2>5. Total(a) \in Int /\ Total(b) \in Int
    BY <2>4, TotalTyped
  <2> QED BY <2>3, <2>5 DEF AddedBytes, AddedAccounted
<1>3. /\ gen' \in Generation /\ gen'.status = "active"
      /\ gen'.boundary = gen.boundary /\ gen'.seedLast = gen.seedLast /\ gen'.matLast = gen.matLast
      /\ gen'.published = gen.boundary /\ gen'.conns = gen.conns /\ gen'.rows = gen.rows
      /\ gen'.raw = AddedBytes(gen.rows) /\ gen'.acc = AddedAccounted(gen.rows)
      /\ gen'.exact = gen.exact /\ gen'.counted = gen.counted
  BY <1>1, <1>2 DEF Generation
<1>4. gen.matLast = gen.boundary
  BY <1>1
<1>5. Covered' = Covered /\ RowsTo' = RowsTo
  BY <1>1, <1>3, <1>4 DEF Serving, Covered, RowsTo
<1>6. TypeInv' /\ JobInv'
  BY <1>1, <1>3 DEF TypeInv, JobInv, Idle
<1>7. Whole(gen'.published)
  BY <1>3, <1>4
<1> QED BY <1>1, <1>3, <1>4, <1>5, <1>6, <1>7, GenStep

LEMMA CreateSeedKeeps ==
  ASSUME AccountingInv, NEW w \in Worker, CreateSeed(w)
  PROVE  AccountingInv'
<1> USE Before
<1>1. /\ Still /\ job' = job /\ faults' = faults /\ Idle /\ gen' = NewGen(gen.id + 1, Len(log))
  BY DEF CreateSeed, Alone, Idle, Still
<1>2. gen' \in Generation
  <2>1. NoHours \in [Buckets -> Int] /\ << >> \in States /\ << >> \in RowSets /\ gen.id + 1 \in Nat
    BY StatesAre DEF NoHours, Generation
  <2> QED BY <1>1, <2>1 DEF NewGen, Generation
<1>3. /\ gen'.status = "seeding" /\ gen'.boundary = Len(log) /\ gen'.seedLast = 0 /\ gen'.matLast = 0
      /\ gen'.published = 0 /\ gen'.conns = << >> /\ gen'.rows = << >> /\ gen'.exact = NoHours
      /\ gen'.counted = {}
  BY <1>1 DEF NewGen
<1>4. ~Serving' /\ Covered' = 0 /\ RowsTo' = 0
  BY <1>3 DEF Serving, Covered, RowsTo
<1>5. TypeInv' /\ JobInv'
  BY <1>1, <1>2 DEF TypeInv, JobInv, Idle
<1>6. Whole(0)
  BY DEF Whole
<1>7. Plain(gen'.conns) = After(log, << >>, 0, Covered') /\ DOMAIN gen'.rows = Traffic(0, RowsTo')
  BY <1>3, <1>4, NoRows
<1>8. gen'.exact = Exactly(NoHours, Acc(gen'.rows)) /\ gen'.counted = CountedIn(gen'.rows)
  BY <1>3, NoRows
<1>9. /\ gen'.boundary <= Len(log) /\ gen'.published <= Len(log)
      /\ gen'.seedLast <= gen'.boundary /\ gen'.matLast <= gen'.boundary
      /\ Whole(gen'.seedLast) /\ Whole(gen'.matLast) /\ Whole(gen'.published)
      /\ \A i \in DOMAIN gen'.rows :
           gen'.rows[i].acc = Accounted(log[i].bytes, gen'.conns[KeyOf(log[i])].class)
  BY <1>3, <1>6
<1> QED BY <1>1, <1>4, <1>5, <1>7, <1>8, <1>9, GenStep

\* A worker with a chunk of a seed is the only one with a chunk.
LEMMA SeedWork ==
  ASSUME AccountingInv, NEW w \in Worker, NEW mode \in {"seeding", "materializing"}, Ready(w, mode), Done(w)
  PROVE  /\ gen.status = mode /\ Idle' /\ job' \in [Worker -> {NoJob} \cup Job] /\ Whole(job[w].to)
         /\ job[w].from = IF mode = "seeding" THEN gen.seedLast ELSE gen.matLast
         /\ job[w].from \in Nat /\ job[w].to \in Nat /\ job[w].from < job[w].to
         /\ job[w].to <= gen.boundary
<1>1. job[w] # NoJob /\ job[w].stage = "ready" /\ job[w].mode = mode /\ mode # "active"
  BY DEF Ready, NoJob
<1>2. /\ Fits(w, job[w]) /\ ChunkOf(job[w]) /\ job[w].from \in Nat /\ job[w].to \in Nat
      /\ job[w].from < job[w].to /\ job[w].to <= job[w].boundary
  BY <1>1, Working
<1>3. Alone(w) /\ gen.status = mode /\ job[w].boundary = gen.boundary
      /\ job[w].from = IF mode = "seeding" THEN gen.seedLast ELSE gen.matLast
  BY <1>1, <1>2 DEF Fits
<1>4. job' = [job EXCEPT ![w] = NoJob] /\ job \in [Worker -> {NoJob} \cup Job]
  BY DEF Done, AccountingInv, TypeInv
<1>5. Idle' /\ job' \in [Worker -> {NoJob} \cup Job]
  BY <1>3, <1>4 DEF Idle, Alone
<1>6. Whole(job[w].to)
  BY <1>1, <1>2 DEF ChunkOf
<1> QED BY <1>2, <1>3, <1>5, <1>6

LEMMA SeedChunkKeeps ==
  ASSUME AccountingInv, NEW w \in Worker, SeedChunk(w)
  PROVE  AccountingInv'
<1> USE Before
<1>1. /\ Still /\ faults' = faults /\ Ready(w, "seeding") /\ Done(w)
      /\ gen' = [gen EXCEPT !.conns = MergeRange(gen.conns, job[w].from, job[w].to), !.seedLast = job[w].to]
  BY DEF SeedChunk, Still
<1>2. PICK from \in Nat, to \in Nat :
        /\ from = job[w].from /\ to = job[w].to /\ from = gen.seedLast /\ from < to
        /\ to <= gen.boundary /\ Whole(to) /\ gen.status = "seeding"
        /\ Idle' /\ job' \in [Worker -> {NoJob} \cup Job]
  BY <1>1, SeedWork
<1>3. from <= to /\ to <= Len(log)
  BY <1>2
<1>4. /\ MergeRange(gen.conns, from, to) = After(log, gen.conns, from, to)
      /\ Kept(log, gen.conns, from, to)
  BY <1>3, MergedIs
<1>5. PICK conns : conns = After(log, gen.conns, from, to)
  OBVIOUS
<1>6. IsState(conns) /\ Plain(conns) = After(log, Plain(gen.conns), from, to)
  BY <1>4, <1>5 DEF Kept
<1>7. Plain(conns) = After(log, << >>, 0, to)
  <2>1. Plain(gen.conns) = After(log, << >>, 0, from)
    BY <1>2 DEF Covered
  <2>2. PICK l, start : l = log /\ start = << >>
    OBVIOUS
  <2>3. PICK zero \in Nat : zero = 0 /\ zero <= from
    OBVIOUS
  <2>4. After(l, After(l, start, zero, from), from, to) = After(l, start, zero, to)
    BY <1>3, <2>3, AfterJoins
  <2> QED BY <1>6, <2>1, <2>2, <2>3, <2>4
<1>8. /\ gen' \in Generation /\ gen'.status = "seeding"
      /\ gen'.boundary = gen.boundary /\ gen'.seedLast = to /\ gen'.matLast = gen.matLast
      /\ gen'.published = gen.published /\ gen'.conns = conns /\ gen'.rows = gen.rows
      /\ gen'.exact = gen.exact /\ gen'.counted = gen.counted
  <2>1. gen' = [gen EXCEPT !.conns = conns, !.seedLast = to]
    BY <1>1, <1>2, <1>4, <1>5
  <2>2. conns \in States
    BY <1>6, StatesAre
  <2> QED BY <1>2, <2>1, <2>2 DEF Generation
<1>9. ~Serving' /\ Covered' = to /\ RowsTo' = 0 /\ RowsTo = 0
  BY <1>2, <1>8 DEF Serving, Covered, RowsTo
<1>10. TypeInv' /\ JobInv'
  BY <1>1, <1>2, <1>8 DEF TypeInv, JobInv, Idle
<1>11. DOMAIN gen'.rows = {}
  BY <1>8, <1>9, NoRows
<1>12. DOMAIN gen'.rows = Traffic(0, RowsTo') /\ Plain(gen'.conns) = After(log, << >>, 0, Covered')
  BY <1>7, <1>8, <1>9
<1>13. \A i \in DOMAIN gen'.rows :
         gen'.rows[i].acc = Accounted(log[i].bytes, gen'.conns[KeyOf(log[i])].class)
  BY <1>11
<1>14. /\ gen'.boundary <= Len(log) /\ gen'.published <= Len(log)
       /\ gen'.seedLast <= gen'.boundary /\ gen'.matLast <= gen'.boundary
       /\ Whole(gen'.seedLast) /\ Whole(gen'.matLast) /\ Whole(gen'.published)
  BY <1>2, <1>8
<1> QED BY <1>1, <1>8, <1>9, <1>10, <1>12, <1>13, <1>14, GenStep

LEMMA ClassifySeedKeeps ==
  ASSUME AccountingInv, NEW w \in Worker, ClassifySeed(w)
  PROVE  AccountingInv'
<1> USE Before
<1>1. /\ Still /\ job' = job /\ faults' = faults /\ Idle /\ gen.status = "seeding"
      /\ gen.seedLast >= gen.boundary
      /\ gen' = [gen EXCEPT !.status = "materializing", !.matLast = 0,
                            !.conns = Classified(gen.conns, gen.boundary)]
  BY DEF ClassifySeed, Alone, Idle, Still
<1>2. PICK conns : conns = Classified(gen.conns, gen.boundary)
  OBVIOUS
<1>3. IsState(conns) /\ Plain(conns) = Plain(gen.conns)
  <2>1. conns = [k \in DOMAIN gen.conns |-> [gen.conns[k] EXCEPT !.class = ClassIn(gen.conns, k, gen.boundary)]]
    BY <1>2, Zenon DEF Classified
  <2>2. \A k \in DOMAIN gen.conns : gen.conns[k] \in Row /\ ClassIn(gen.conns, k, gen.boundary) \in Classes
    BY ClassesAre DEF IsState
  <2>3. \A k \in DOMAIN gen.conns : conns[k] \in Row /\ [conns[k] EXCEPT !.class = "unique"] = [gen.conns[k] EXCEPT !.class = "unique"]
    <3> TAKE k \in DOMAIN gen.conns
    <3>1. PICK row \in Row, c \in Classes : row = gen.conns[k] /\ conns[k] = [row EXCEPT !.class = c]
      BY <2>1, <2>2
    <3> QED BY <3>1 DEF Row
  <2>4. DOMAIN conns = DOMAIN gen.conns /\ conns = [k \in DOMAIN gen.conns |-> conns[k]]
    BY <2>1
  <2>5. IsState(conns)
    BY <2>3, <2>4 DEF IsState
  <2>6. Plain(conns) = Plain(gen.conns)
    BY <2>3, <2>4 DEF Plain
  <2> QED BY <2>5, <2>6
<1>4. /\ gen' \in Generation /\ gen'.status = "materializing"
      /\ gen'.boundary = gen.boundary /\ gen'.seedLast = gen.seedLast /\ gen'.matLast = 0
      /\ gen'.published = gen.published /\ gen'.conns = conns /\ gen'.rows = gen.rows
      /\ gen'.exact = gen.exact /\ gen'.counted = gen.counted
  <2>1. conns \in States
    BY <1>3, StatesAre
  <2> QED BY <1>1, <1>2, <2>1 DEF Generation
<1>5. ~Serving' /\ Covered' = gen.boundary /\ RowsTo' = 0 /\ RowsTo = 0 /\ Covered = gen.boundary
  BY <1>1, <1>4 DEF Serving, Covered, RowsTo
<1>6. TypeInv' /\ JobInv'
  BY <1>1, <1>4 DEF TypeInv, JobInv, Idle
<1>7. DOMAIN gen'.rows = {}
  BY <1>4, <1>5, NoRows
<1>8. DOMAIN gen'.rows = Traffic(0, RowsTo') /\ Plain(gen'.conns) = After(log, << >>, 0, Covered')
  BY <1>3, <1>4, <1>5
<1>9. \A i \in DOMAIN gen'.rows :
         gen'.rows[i].acc = Accounted(log[i].bytes, gen'.conns[KeyOf(log[i])].class)
  BY <1>7
<1>10. Whole(0)
  BY DEF Whole
<1>11. /\ gen'.boundary <= Len(log) /\ gen'.published <= Len(log)
       /\ gen'.seedLast <= gen'.boundary /\ gen'.matLast <= gen'.boundary
       /\ Whole(gen'.seedLast) /\ Whole(gen'.matLast) /\ Whole(gen'.published)
  BY <1>4, <1>10
<1> QED BY <1>1, <1>4, <1>5, <1>6, <1>8, <1>9, <1>11, GenStep

LEMMA NewRowsAre ==
  ASSUME JournalInv, NEW from \in Nat, NEW to \in Nat, to <= Len(log), NEW class,
         \A i \in Traffic(from, to) : class[KeyOf(log[i])] \in Classes
  PROVE  /\ NewRows(from, to, class) \in RowSets /\ DOMAIN NewRows(from, to, class) = Traffic(from, to)
         /\ Traffic(from, to) \subseteq DOMAIN log
         /\ \A i \in Traffic(from, to) :
              NewRows(from, to, class)[i].acc = Accounted(log[i].bytes, class[KeyOf(log[i])])
<1> DEFINE new == NewRows(from, to, class)
<1>1. Traffic(from, to) \subseteq DOMAIN log /\ Traffic(from, to) \subseteq Nat \ {0}
  BY DEF Traffic, JournalInv
<1>2. new = [i \in Traffic(from, to) |->
               [acc |-> Accounted(log[i].bytes, class[KeyOf(log[i])]), class |-> class[KeyOf(log[i])]]]
  BY Zenon DEF NewRows
<1>3. \A i \in Traffic(from, to) : Accounted(log[i].bytes, class[KeyOf(log[i])]) \in Nat
  BY <1>1, EventTyped, AccountedIs
<1> HIDE DEF new
<1>4. /\ DOMAIN new = Traffic(from, to)
      /\ \A i \in Traffic(from, to) :
           new[i] = [acc |-> Accounted(log[i].bytes, class[KeyOf(log[i])]), class |-> class[KeyOf(log[i])]]
  BY <1>2
<1>5. new \in [DOMAIN new -> [acc : Nat, class : Classes]]
  BY <1>2, <1>3
<1>6. new \in RowSets
  BY <1>1, <1>4, <1>5, StatesAre
<1>7. \A i \in Traffic(from, to) : new[i].acc = Accounted(log[i].bytes, class[KeyOf(log[i])])
  BY <1>4
<1> QED BY <1>1, <1>4, <1>6, <1>7 DEF new

LEMMA TrafficSplits ==
  ASSUME NEW a \in Nat, NEW b \in Nat, a <= b
  PROVE  /\ Traffic(0, b) = Traffic(a, b) \cup Traffic(0, a) /\ Traffic(a, b) \cap Traffic(0, a) = {}
         /\ \A i \in Traffic(a, b) : i \in 1..b /\ i \in a+1..b /\ NamesConn(log[i])
BY DEF Traffic, NamesConn, ConnTypes

\* What is counted in an hour, typed.
LEMMA CountedTyped ==
  ASSUME JournalInv, NEW rows, DOMAIN rows \subseteq DOMAIN log, \A i \in DOMAIN rows : NamesConn(log[i])
  PROVE  CountedIn(rows) \in SUBSET ((Nat \X Int) \X Key)
<1>1. ASSUME NEW i \in DOMAIN rows
      PROVE  BucketsOf(i) \subseteq Nat \X Int /\ KeyOf(log[i]) \in Key
  <2>1. log[i] \in Event /\ log[i].session \in Nat
    BY EventTyped
  <2>2. KeyOf(log[i]) \in Key
    BY <2>1, EventNames
  <2>3. HoursOf(log[i]) \subseteq Int
    <3>1. \A t \in Int : HourOf(t) \in Int
      <4>1. FramesPerHour \in Nat \ {0} /\ \A p \in Int, q \in Nat \ {0} : p \div q \in Int
        BY RolesAssumption
      <4> QED BY <4>1 DEF HourOf
    <3>2. log[i].frame \in Int
      BY EventTyped
    <3> QED BY <3>1, <3>2 DEF HoursOf
  <2> QED BY <2>1, <2>2, <2>3 DEF BucketsOf
<1> QED BY <1>1 DEF CountedIn

LEMMA MaterializeChunkKeeps ==
  ASSUME AccountingInv, NEW w \in Worker, MaterializeChunk(w)
  PROVE  AccountingInv'
<1> USE Before
<1> DEFINE class == [k \in DOMAIN gen.conns |-> gen.conns[k].class]
<1>1. /\ Still /\ faults' = faults /\ Ready(w, "materializing") /\ Done(w)
      /\ gen' = [Insert(gen, NewRows(job[w].from, job[w].to, class)) EXCEPT !.matLast = job[w].to]
  BY Zenon DEF MaterializeChunk, Still
<1>2. PICK from \in Nat, to \in Nat :
        /\ from = job[w].from /\ to = job[w].to /\ from = gen.matLast /\ from < to
        /\ to <= gen.boundary /\ Whole(to) /\ gen.status = "materializing"
        /\ Idle' /\ job' \in [Worker -> {NoJob} \cup Job]
  BY <1>1, SeedWork
<1>3. from <= to /\ to <= Len(log) /\ Covered = gen.boundary /\ RowsTo = from
  BY <1>2 DEF Covered, RowsTo, Serving
<1>4. \A i \in Traffic(from, to) : /\ KeyOf(log[i]) \in DOMAIN gen.conns
                                   /\ class[KeyOf(log[i])] = gen.conns[KeyOf(log[i])].class
                                   /\ class[KeyOf(log[i])] \in Classes
  <2> TAKE i \in Traffic(from, to)
  <2>1. i \in 1..Covered /\ NamesConn(log[i])
    BY <1>2, <1>3, TrafficSplits
  <2>2. KeyOf(log[i]) \in DOMAIN gen.conns
    BY <2>1, RowsTyped DEF AccountingInv
  <2>3. gen.conns[KeyOf(log[i])] \in Row
    BY <2>2 DEF IsState
  <2>4. gen.conns[KeyOf(log[i])].class \in Classes
    BY <2>3 DEF Row
  <2> QED BY <2>2, <2>4
<1> HIDE DEF class
<1>5. PICK new \in RowSets :
        /\ new = NewRows(from, to, class) /\ DOMAIN new = Traffic(from, to)
        /\ DOMAIN new \subseteq DOMAIN log
        /\ \A i \in DOMAIN new : new[i].acc = Accounted(log[i].bytes, class[KeyOf(log[i])])
  BY <1>3, <1>4, NewRowsAre
<1>6. /\ DOMAIN gen.rows = Traffic(0, from) /\ DOMAIN gen.rows \subseteq DOMAIN log
      /\ Traffic(0, to) = DOMAIN new \cup DOMAIN gen.rows /\ DOMAIN gen.rows \cap DOMAIN new = {}
      /\ \A i \in DOMAIN new : NamesConn(log[i])
  <2>1. DOMAIN gen.rows \subseteq DOMAIN log
    BY RowsTyped DEF AccountingInv
  <2> QED BY <1>3, <1>5, <2>1, TrafficSplits
<1>7. PICK old, all : old \in RowSets /\ old = gen.rows /\ all = With(new, old)
  OBVIOUS
<1>8. /\ all \in RowSets /\ DOMAIN all = Traffic(0, to)
      /\ Exactly(Exactly(NoHours, Acc(old)), Acc(new)) = Exactly(NoHours, Acc(all))
      /\ CountedIn(all) = CountedIn(old) \cup CountedIn(new)
  <2>0. NoHours \in [Buckets -> Int] /\ DOMAIN old \subseteq DOMAIN log /\ DOMAIN old \cap DOMAIN new = {}
    BY <1>6, <1>7 DEF NoHours
  <2>1. /\ JournalInv /\ old \in RowSets /\ new \in RowSets /\ all = With(new, old)
        /\ DOMAIN old \subseteq DOMAIN log /\ DOMAIN new \subseteq DOMAIN log
        /\ DOMAIN old \cap DOMAIN new = {} /\ NoHours \in [Buckets -> Int]
    BY <1>5, <1>7, <2>0
  <2>2. /\ all \in RowSets /\ DOMAIN all = DOMAIN new \cup DOMAIN old
        /\ CountedIn(all) = CountedIn(old) \cup CountedIn(new)
    BY ONLY <2>1, Inserted
  <2>3. HoursAdd(NoHours, old, new, all)
    BY ONLY <2>1, Inserted
  <2> QED BY <1>6, <1>7, <2>2, <2>3 DEF HoursAdd
<1>9. /\ gen' \in Generation /\ gen'.status = "materializing"
      /\ gen'.boundary = gen.boundary /\ gen'.seedLast = gen.seedLast /\ gen'.matLast = to
      /\ gen'.published = gen.published /\ gen'.conns = gen.conns /\ gen'.rows = all
      /\ gen'.exact = Exactly(gen.exact, Acc(new)) /\ gen'.counted = gen.counted \cup CountedIn(new)
  <2>1. PICK estimated : estimated = AddHours(gen.estimated, Acc(new), FALSE)
    OBVIOUS
  <2>2. PICK exact : exact = Exactly(gen.exact, Acc(new))
    OBVIOUS
  <2>3. PICK counted : counted = gen.counted \cup CountedIn(new)
    OBVIOUS
  <2>4. gen' = [gen EXCEPT !.rows = all, !.exact = exact, !.estimated = estimated, !.counted = counted,
                           !.matLast = to]
    <3>1. Insert(gen, new) = [gen EXCEPT !.rows = all, !.exact = exact, !.estimated = estimated,
                                         !.counted = counted]
      BY <1>7, <2>1, <2>2, <2>3, Zenon DEF Insert, Acc, Exactly
    <3> QED BY <1>1, <1>2, <1>5, <3>1
  <2>5. exact \in [Buckets -> Int] /\ estimated \in [Buckets -> Int]
    <3>1. Integral(Acc(new)) /\ DOMAIN Acc(new) \subseteq DOMAIN log
      BY <1>5, RowsAre
    <3>2. gen.exact \in [Buckets -> Int] /\ gen.estimated \in [Buckets -> Int]
      BY DEF Generation
    <3> QED BY <2>1, <2>2, <3>1, <3>2, HoursTyped DEF Exactly
  <2>6. counted \in SUBSET ((Nat \X Int) \X Key)
    <3>1. gen.counted \in SUBSET ((Nat \X Int) \X Key)
      BY DEF Generation
    <3>2. CountedIn(new) \in SUBSET ((Nat \X Int) \X Key)
      BY <1>5, <1>6, CountedTyped
    <3> QED BY <2>3, <3>1, <3>2
  <2> QED BY <1>2, <1>8, <2>2, <2>3, <2>4, <2>5, <2>6 DEF Generation
<1>10. ~Serving' /\ Covered' = Covered /\ RowsTo' = to
  BY <1>2, <1>3, <1>9 DEF Serving, Covered, RowsTo
<1>11. TypeInv' /\ JobInv'
  BY <1>1, <1>2, <1>9 DEF TypeInv, JobInv, Idle
<1>12. \A i \in DOMAIN gen'.rows :
         gen'.rows[i].acc = Accounted(log[i].bytes, gen'.conns[KeyOf(log[i])].class)
  <2> TAKE i \in DOMAIN gen'.rows
  <2>1. i \in DOMAIN new \/ i \in DOMAIN old
    BY <1>6, <1>7, <1>8, <1>9
  <2>2. all[i] = IF i \in DOMAIN new THEN new[i] ELSE old[i]
    BY <1>7, <2>1 DEF With
  <2>3. CASE i \in DOMAIN new
    BY <1>4, <1>5, <1>9, <2>2, <2>3
  <2>4. CASE i \notin DOMAIN new
    BY <1>7, <1>9, <2>1, <2>2, <2>4
  <2> QED BY <2>3, <2>4
<1>13. gen'.exact = Exactly(NoHours, Acc(gen'.rows)) /\ gen'.counted = CountedIn(gen'.rows)
  BY <1>7, <1>8, <1>9
<1>14. /\ gen'.boundary <= Len(log) /\ gen'.published <= Len(log)
       /\ gen'.seedLast <= gen'.boundary /\ gen'.matLast <= gen'.boundary
       /\ Whole(gen'.seedLast) /\ Whole(gen'.matLast) /\ Whole(gen'.published)
  BY <1>2, <1>9
<1>15. DOMAIN gen'.rows = Traffic(0, RowsTo') /\ Plain(gen'.conns) = After(log, << >>, 0, Covered')
  BY <1>8, <1>9, <1>10
<1> QED BY <1>1, <1>10, <1>11, <1>12, <1>13, <1>14, <1>15, GenStep

\* A chunk ready to be published on top of what is.
Publishable(from, to, plan) ==
  /\ from \in Nat /\ to \in Nat /\ from < to /\ to <= Len(log) /\ from = gen.published /\ Whole(to)
  /\ plan \in Plans /\ DirtyKeys(from, to) \subseteq DOMAIN plan /\ Serving

\* The connections as the plan has them.
Planned(conns, plan) ==
  [k \in DOMAIN conns |-> IF k \in DOMAIN plan THEN [conns[k] EXCEPT !.class = plan[k]] ELSE conns[k]]

LEMMA PlannedConns ==
  ASSUME AccountingInv, NEW from, NEW to, NEW plan, Publishable(from, to, plan),
         NEW conns, conns = Planned(MergeRange(gen.conns, from, to), plan)
  PROVE  /\ IsState(conns) /\ Plain(conns) = After(log, << >>, 0, to)
         /\ DirtyKeys(from, to) \subseteq DOMAIN conns /\ DOMAIN gen.conns \subseteq DOMAIN conns
         /\ \A k \in DOMAIN conns : k \in DOMAIN plan => conns[k].class = plan[k]
         /\ \A k \in DOMAIN gen.conns : k \notin DOMAIN plan => conns[k].class = gen.conns[k].class
<1> USE Before
<1>1. /\ from \in Nat /\ to \in Nat /\ from <= to /\ to <= Len(log) /\ from = gen.published
      /\ plan \in Plans /\ Serving
  BY DEF Publishable
<1>2. PICK merged : merged = After(log, gen.conns, from, to)
  OBVIOUS
<1>3. /\ MergeRange(gen.conns, from, to) = merged /\ Kept(log, gen.conns, from, to)
      /\ KeysIn(log, from, to) = DirtyKeys(from, to)
  BY <1>1, <1>2, MergedIs
<1>4. /\ IsState(merged) /\ DOMAIN merged = DOMAIN gen.conns \cup DirtyKeys(from, to)
      /\ \A k \in DOMAIN gen.conns : merged[k].class = gen.conns[k].class
      /\ Plain(merged) = After(log, Plain(gen.conns), from, to)
  BY <1>2, <1>3 DEF Kept, SameClasses
<1>5. Plain(merged) = After(log, << >>, 0, to)
  <2>1. Plain(gen.conns) = After(log, << >>, 0, from)
    BY <1>1 DEF Covered, Serving
  <2>2. PICK l, start : l = log /\ start = << >>
    OBVIOUS
  <2>3. PICK zero \in Nat : zero = 0 /\ zero <= from
    BY <1>1
  <2>4. After(l, After(l, start, zero, from), from, to) = After(l, start, zero, to)
    BY <1>1, <2>3, AfterJoins
  <2> QED BY <1>4, <2>1, <2>2, <2>3, <2>4
<1>6. /\ DOMAIN conns = DOMAIN merged /\ conns = [k \in DOMAIN merged |-> conns[k]]
      /\ \A k \in DOMAIN merged :
           conns[k] = IF k \in DOMAIN plan THEN [merged[k] EXCEPT !.class = plan[k]] ELSE merged[k]
  BY <1>3 DEF Planned
<1>7. \A k \in DOMAIN merged :
        /\ conns[k] \in Row /\ [conns[k] EXCEPT !.class = "unique"] = [merged[k] EXCEPT !.class = "unique"]
        /\ k \in DOMAIN plan => conns[k].class = plan[k]
        /\ k \notin DOMAIN plan => conns[k].class = merged[k].class
  <2> TAKE k \in DOMAIN merged
  <2>1. merged[k] \in Row
    BY <1>4 DEF IsState
  <2>2. CASE k \in DOMAIN plan
    <3>1. plan[k] \in Classes
      BY <1>1, <2>2, StatesAre
    <3>2. PICK row \in Row, c \in Classes : row = merged[k] /\ c = plan[k]
      BY <2>1, <3>1
    <3>3. conns[k] = [row EXCEPT !.class = c]
      BY <1>6, <2>2, <3>2
    <3>4. [row EXCEPT !.class = c] \in Row /\ [row EXCEPT !.class = c].class = c
          /\ [[row EXCEPT !.class = c] EXCEPT !.class = "unique"] = [row EXCEPT !.class = "unique"]
      BY DEF Row
    <3> QED BY <2>2, <3>2, <3>3, <3>4
  <2>3. CASE k \notin DOMAIN plan
    BY <1>6, <2>1, <2>3
  <2> QED BY <2>2, <2>3
<1>8. IsState(conns)
  BY <1>4, <1>6, <1>7 DEF IsState
<1>9. Plain(conns) = Plain(merged)
  BY <1>6, <1>7 DEF Plain
<1> QED BY <1>4, <1>5, <1>6, <1>7, <1>8, <1>9

LEMMA PublishedRows ==
  ASSUME AccountingInv, NEW from, NEW to, NEW plan, Publishable(from, to, plan),
         NEW conns, conns = Planned(MergeRange(gen.conns, from, to), plan),
         NEW new, new = NewRows(from, to, plan), NEW fixed, fixed = CorrectedRows(gen, plan),
         NEW all, all = With(new, fixed)
  PROVE  /\ all \in RowSets /\ DOMAIN all = Traffic(0, to) /\ new \in RowSets
         /\ DOMAIN new \subseteq DOMAIN log /\ \A i \in DOMAIN new : NamesConn(log[i])
         /\ \A i \in DOMAIN all : all[i].acc = Accounted(log[i].bytes, conns[KeyOf(log[i])].class)
         /\ Exactly(Exactly(gen.exact, Corrections(gen, plan)), Acc(new)) = Exactly(NoHours, Acc(all))
         /\ AddedBytes(all) = gen.raw + AddedBytes(new)
         /\ AddedAccounted(all) = gen.acc + AddedAccounted(new) + Total(Corrections(gen, plan))
         /\ CountedIn(all) = CountedIn(fixed) \cup CountedIn(new)
<1> USE Before
<1>1. /\ from \in Nat /\ to \in Nat /\ from <= to /\ to <= Len(log) /\ from = gen.published
      /\ plan \in Plans /\ Serving /\ RowsTo = from /\ Covered = from
  BY DEF Publishable, Serving, RowsTo, Covered
<1>2. /\ DOMAIN gen.conns \subseteq DOMAIN conns /\ DirtyKeys(from, to) \subseteq DOMAIN conns
      /\ DirtyKeys(from, to) \subseteq DOMAIN plan
      /\ \A k \in DOMAIN conns : k \in DOMAIN plan => conns[k].class = plan[k]
      /\ \A k \in DOMAIN gen.conns : k \notin DOMAIN plan => conns[k].class = gen.conns[k].class
  BY PlannedConns DEF Publishable
<1>3. \A i \in Traffic(from, to) : NamesConn(log[i]) /\ KeyOf(log[i]) \in DirtyKeys(from, to)
  BY <1>1, TrafficSplits DEF DirtyKeys
<1>4. \A i \in Traffic(from, to) : plan[KeyOf(log[i])] \in Classes
  BY <1>1, <1>2, <1>3, StatesAre
<1>5. /\ new \in RowSets /\ DOMAIN new = Traffic(from, to) /\ DOMAIN new \subseteq DOMAIN log
      /\ \A i \in DOMAIN new : new[i].acc = Accounted(log[i].bytes, plan[KeyOf(log[i])])
  BY <1>1, <1>4, NewRowsAre
<1>6. PICK d : d = Corrections(gen, plan)
  OBVIOUS
<1>7. /\ fixed \in RowSets /\ Integral(d) /\ DOMAIN fixed = DOMAIN gen.rows
      /\ \A i \in DOMAIN gen.rows :
           fixed[i].acc = IF KeyOf(log[i]) \in DOMAIN plan
                            THEN Accounted(log[i].bytes, plan[KeyOf(log[i])]) ELSE gen.rows[i].acc
      /\ \A i : At(Acc(fixed), i) = At(Acc(gen.rows), i) + At(d, i)
  BY <1>1, <1>6, Corrected
<1>8. /\ DOMAIN fixed = Traffic(0, from) /\ DOMAIN fixed \subseteq DOMAIN log
      /\ Traffic(0, to) = DOMAIN new \cup DOMAIN fixed /\ DOMAIN fixed \cap DOMAIN new = {}
      /\ \A i \in DOMAIN gen.rows : KeyOf(log[i]) \in DOMAIN gen.conns
  <2>1. \A i \in DOMAIN gen.rows : i \in DOMAIN log /\ KeyOf(log[i]) \in DOMAIN gen.conns
    BY RowsTyped DEF AccountingInv
  <2>2. DOMAIN gen.rows = Traffic(0, from)
    BY <1>1
  <2> QED BY <1>1, <1>5, <1>7, <2>1, <2>2, TrafficSplits
<1>9. /\ all \in RowSets /\ DOMAIN all = Traffic(0, to) /\ CountedIn(all) = CountedIn(fixed) \cup CountedIn(new)
      /\ AddedBytes(all) = AddedBytes(fixed) + AddedBytes(new)
      /\ AddedAccounted(all) = AddedAccounted(fixed) + AddedAccounted(new)
      /\ HoursAdd(NoHours, fixed, new, all)
  <2>1. /\ JournalInv /\ fixed \in RowSets /\ new \in RowSets /\ all = With(new, fixed)
        /\ DOMAIN fixed \subseteq DOMAIN log /\ DOMAIN new \subseteq DOMAIN log
        /\ DOMAIN fixed \cap DOMAIN new = {} /\ NoHours \in [Buckets -> Int]
    BY <1>5, <1>7, <1>8 DEF NoHours
  <2>2. /\ all \in RowSets /\ DOMAIN all = DOMAIN new \cup DOMAIN fixed
        /\ CountedIn(all) = CountedIn(fixed) \cup CountedIn(new)
    BY ONLY <2>1, Inserted
  <2>3. HoursAdd(NoHours, fixed, new, all)
    BY ONLY <2>1, Inserted
  <2>4. /\ AddedBytes(all) = AddedBytes(fixed) + AddedBytes(new)
        /\ AddedAccounted(all) = AddedAccounted(fixed) + AddedAccounted(new)
    BY ONLY <2>1, Inserted
  <2> QED BY <1>8, <2>2, <2>3, <2>4
<1>10. PICK a, c : a = Acc(gen.rows) /\ c = Acc(fixed) /\ AddUp(a, d, c)
  <2>1. Integral(Acc(gen.rows)) /\ Integral(Acc(fixed))
    BY <1>7, RowsAre
  <2> QED BY <1>7, <2>1 DEF AddUp
<1>11. Total(c) = Total(a) + Total(d) /\ Total(a) \in Int /\ Total(d) \in Int
  <2>1. JournalInv /\ AddUp(a, d, c) /\ NoHours \in [Buckets -> Int]
    BY <1>10 DEF NoHours
  <2>2. Total(c) = Total(a) + Total(d)
    BY ONLY <2>1, Adds
  <2> QED BY <1>7, <1>10, <2>2, TotalTyped DEF AddUp
<1>12. Exactly(gen.exact, d) = Exactly(NoHours, Acc(fixed))
  <2>1. JournalInv /\ AddUp(a, d, c) /\ NoHours \in [Buckets -> Int]
    BY <1>10 DEF NoHours
  <2>2. Exactly(Exactly(NoHours, a), d) = Exactly(NoHours, c)
    BY ONLY <2>1, Adds
  <2> QED BY <1>10, <2>2
<1>13. AddedAccounted(gen.rows) = Total(a) /\ AddedAccounted(fixed) = Total(c)
  BY <1>10, Zenon DEF AddedAccounted, Acc
<1>14. AddedBytes(fixed) = AddedBytes(gen.rows)
  <2>1. PICK x, y : x = gen.rows /\ y = fixed /\ DOMAIN x = DOMAIN y
    BY <1>7
  <2>2. AddedBytes(x) = AddedBytes(y)
    BY <2>1, Zenon DEF AddedBytes
  <2> QED BY <2>1, <2>2
<1>15. gen.raw = AddedBytes(gen.rows) /\ gen.acc = AddedAccounted(gen.rows)
  BY <1>1
<1>16. AddedAccounted(new) \in Int
  <2>1. Integral(Acc(new))
    BY <1>5, RowsAre
  <2>2. AddedAccounted(new) = Total(Acc(new))
    BY Zenon DEF AddedAccounted, Acc
  <2> QED BY <2>1, <2>2, TotalTyped
<1>17. ASSUME NEW i \in DOMAIN all
       PROVE  all[i].acc = Accounted(log[i].bytes, conns[KeyOf(log[i])].class)
  <2>1. i \in DOMAIN new \/ i \in DOMAIN fixed
    BY <1>8, <1>9
  <2>2. all[i] = IF i \in DOMAIN new THEN new[i] ELSE fixed[i]
    BY <2>1 DEF With
  <2>3. CASE i \in DOMAIN new
    <3>1. KeyOf(log[i]) \in DOMAIN plan /\ KeyOf(log[i]) \in DOMAIN conns
      BY <1>2, <1>3, <1>5, <2>3
    <3> QED BY <1>2, <1>5, <2>2, <2>3, <3>1
  <2>4. CASE i \notin DOMAIN new
    <3>1. /\ i \in DOMAIN gen.rows /\ KeyOf(log[i]) \in DOMAIN gen.conns /\ all[i] = fixed[i]
          /\ gen.rows[i].acc = Accounted(log[i].bytes, gen.conns[KeyOf(log[i])].class)
      BY <1>7, <1>8, <2>1, <2>2, <2>4
    <3> QED BY <1>2, <1>7, <3>1
  <2> QED BY <2>3, <2>4
<1>18. AddedAccounted(all) = gen.acc + AddedAccounted(new) + Total(d)
  BY <1>9, <1>11, <1>13, <1>15, <1>16
<1>19. AddedBytes(all) = gen.raw + AddedBytes(new)
  BY <1>9, <1>14, <1>15
<1>20. Exactly(Exactly(gen.exact, d), Acc(new)) = Exactly(NoHours, Acc(all))
  BY <1>9, <1>12 DEF HoursAdd
<1> QED BY <1>3, <1>5, <1>6, <1>9, <1>17, <1>18, <1>19, <1>20

LEMMA CommitKeeps ==
  ASSUME AccountingInv, NEW w \in Worker, Commit(w)
  PROVE  AccountingInv'
<1> USE Before
<1>1. /\ Still /\ faults' = faults /\ Ready(w, "active") /\ job' = [job EXCEPT ![w] = NoJob]
      /\ gen' = IF Untouched(w) THEN Published(job[w].from, job[w].to, job[w].plan) ELSE gen
  BY DEF Commit, Done, Still
<1>2. job[w] # NoJob /\ job[w].stage = "ready" /\ job[w].mode = "active"
  BY <1>1 DEF Ready, NoJob
<1>3. CASE ~Untouched(w)
  BY <1>1, <1>3, JobStep
<1>4. CASE Untouched(w)
  <2>1. PICK from, to, plan : /\ from = job[w].from /\ to = job[w].to /\ plan = job[w].plan
                              /\ Publishable(from, to, plan)
    <3>1. /\ job[w] \in Job /\ Fits(w, job[w]) /\ ChunkOf(job[w])
          /\ job[w].from \in Nat /\ job[w].to \in Nat /\ job[w].from < job[w].to
          /\ job[w].to <= job[w].boundary /\ job[w].boundary <= Len(log) /\ job[w].boundary \in Nat
      BY <1>2, Working
    <3>2. /\ Whole(job[w].to) /\ DirtyKeys(job[w].from, job[w].to) \subseteq DOMAIN job[w].plan
          /\ Serving /\ job[w].plan \in Plans
      BY <1>2, <3>1 DEF ChunkOf, Fits, Job
    <3> QED BY <1>4, <3>1, <3>2 DEF Untouched, Publishable
  <2>2. PICK conns, new, fixed, all, d :
          /\ conns = Planned(MergeRange(gen.conns, from, to), plan) /\ new = NewRows(from, to, plan)
          /\ fixed = CorrectedRows(gen, plan) /\ all = With(new, fixed) /\ d = Corrections(gen, plan)
    OBVIOUS
  <2>3. IsState(conns) /\ Plain(conns) = After(log, << >>, 0, to)
    BY <2>1, <2>2, PlannedConns
  <2>4. /\ all \in RowSets /\ DOMAIN all = Traffic(0, to) /\ new \in RowSets
        /\ DOMAIN new \subseteq DOMAIN log /\ \A i \in DOMAIN new : NamesConn(log[i])
        /\ \A i \in DOMAIN all : all[i].acc = Accounted(log[i].bytes, conns[KeyOf(log[i])].class)
        /\ Exactly(Exactly(gen.exact, d), Acc(new)) = Exactly(NoHours, Acc(all))
        /\ AddedBytes(all) = gen.raw + AddedBytes(new)
        /\ AddedAccounted(all) = gen.acc + AddedAccounted(new) + Total(d)
        /\ CountedIn(all) = CountedIn(fixed) \cup CountedIn(new)
    BY <2>1, <2>2, PublishedRows
  <2>5. /\ from \in Nat /\ to \in Nat /\ from < to /\ to <= Len(log) /\ Whole(to) /\ plan \in Plans /\ Serving
    BY <2>1 DEF Publishable
  <2>6. PICK exact, estimated, raw, acc :
          /\ exact = Exactly(Exactly(gen.exact, d), Acc(new))
          /\ estimated = AddHours(AddHours(gen.estimated, d, FALSE), Acc(new), FALSE)
          /\ raw = gen.raw + AddedBytes(new) /\ acc = gen.acc + AddedAccounted(new) + Total(d)
    OBVIOUS
  <2>7. gen' = [gen EXCEPT !.rows = all, !.exact = exact, !.estimated = estimated,
                           !.counted = CountedIn(all), !.conns = conns, !.published = to,
                           !.raw = raw, !.acc = acc]
    <3>1. Correct(gen, plan) =
            [gen EXCEPT !.rows = fixed, !.exact = Exactly(gen.exact, d),
                        !.estimated = AddHours(gen.estimated, d, FALSE), !.counted = CountedIn(fixed)]
      <4> DEFINE was(k) == IF k \in DOMAIN gen.conns THEN gen.conns[k].class ELSE "none"
                 copies == {k \in Changed(gen, plan) : plan[k] = "confirmed"}
                 cleared == {k \in Changed(gen, plan) : was(k) = "confirmed"}
      <4>1. {p \in gen.counted : p[2] \notin copies} \cup
            {p \in CountedIn(CorrectedRows(gen, plan)) : p[2] \in cleared}
              = CountedIn(CorrectedRows(gen, plan))
        BY <2>5, CountsCorrected
      <4>2. Correct(gen, plan) =
              [gen EXCEPT !.rows = CorrectedRows(gen, plan), !.exact = Exactly(gen.exact, d),
                          !.estimated = AddHours(gen.estimated, d, FALSE),
                          !.counted = {p \in gen.counted : p[2] \notin copies} \cup
                                      {p \in CountedIn(CorrectedRows(gen, plan)) : p[2] \in cleared}]
        BY <2>2, Zenon DEF Correct, Exactly
      <4> HIDE DEF copies, cleared
      <4> QED BY <2>2, <4>1, <4>2
    <3>2. PICK g : g = Correct(gen, plan)
      OBVIOUS
    <3>3. PICK e, s : e = Exactly(gen.exact, d) /\ s = AddHours(gen.estimated, d, FALSE)
      OBVIOUS
    <3>4. PICK counted : counted = CountedIn(fixed)
      OBVIOUS
    <3>5. g = [gen EXCEPT !.rows = fixed, !.exact = e, !.estimated = s, !.counted = counted]
      BY <3>1, <3>2, <3>3, <3>4
    <3>6. g \in [DOMAIN gen -> {g[x] : x \in DOMAIN gen}] /\ DOMAIN g = DOMAIN gen
          /\ g.rows = fixed /\ g.exact = e /\ g.estimated = s /\ g.counted = counted
      BY <3>5, ZenonT(40) DEF Generation
    <3>7. PICK e2, s2, c2 : e2 = Exactly(e, Acc(new)) /\ s2 = AddHours(s, Acc(new), FALSE)
                            /\ c2 = counted \cup CountedIn(new)
      OBVIOUS
    <3>8. Insert(g, new) = [g EXCEPT !.rows = With(new, g.rows), !.exact = Exactly(g.exact, Acc(new)),
                                     !.estimated = AddHours(g.estimated, Acc(new), FALSE),
                                     !.counted = g.counted \cup CountedIn(new)]
      BY Zenon DEF Insert, Acc, Exactly
    <3>9. Insert(g, new) = [g EXCEPT !.rows = all, !.exact = e2, !.estimated = s2, !.counted = c2]
      BY <2>2, <3>6, <3>7, <3>8
    <3>10. gen' = [Insert(g, new) EXCEPT !.conns = conns, !.published = to,
                     !.raw = @ + AddedBytes(new), !.acc = @ + AddedAccounted(new) + Total(d)]
      BY <1>1, <1>4, <2>1, <2>2, <3>2, Zenon DEF Published, Planned
    <3>11. e2 = exact /\ s2 = estimated /\ c2 = CountedIn(all)
      BY <2>4, <2>6, <3>3, <3>4, <3>7
    <3>12. PICK i : i = Insert(g, new)
      OBVIOUS
    <3>13. i.raw = gen.raw /\ i.acc = gen.acc
           /\ i = [gen EXCEPT !.rows = all, !.exact = exact, !.estimated = estimated, !.counted = c2]
      BY <3>5, <3>9, <3>11, <3>12 DEF Generation
    <3>14. gen' = [i EXCEPT !.conns = conns, !.published = to, !.raw = raw, !.acc = acc]
      BY <2>6, <3>10, <3>12, <3>13
    <3> QED BY <3>11, <3>13, <3>14 DEF Generation
  <2>8. exact \in [Buckets -> Int] /\ estimated \in [Buckets -> Int]
    <3>1. Integral(d) /\ DOMAIN d \subseteq DOMAIN log
      BY <2>2, <2>5, Corrected
    <3>2. Integral(Acc(new)) /\ DOMAIN Acc(new) \subseteq DOMAIN log
      BY <2>4, RowsAre
    <3>3. gen.exact \in [Buckets -> Int] /\ gen.estimated \in [Buckets -> Int]
      BY DEF Generation
    <3>4. PICK n : n = Acc(new)
      OBVIOUS
    <3>5. PICK x, y : x = AddHours(gen.exact, d, TRUE) /\ y = AddHours(gen.estimated, d, FALSE)
      OBVIOUS
    <3>6. x \in [Buckets -> Int] /\ y \in [Buckets -> Int]
      BY <3>1, <3>3, <3>5, HoursTyped
    <3>7. AddHours(x, n, TRUE) \in [Buckets -> Int] /\ AddHours(y, n, FALSE) \in [Buckets -> Int]
      BY <3>2, <3>4, <3>6, HoursTyped
    <3> QED BY <2>6, <3>4, <3>5, <3>7 DEF Exactly
  <2>9. raw \in Int /\ acc \in Int /\ raw = AddedBytes(all) /\ acc = AddedAccounted(all)
    <3>1. \A i \in DOMAIN all : i \in DOMAIN log /\ log[i].bytes \in Int /\ all[i].acc \in Int
      BY <2>4, <2>5, RowsAre, EventTyped DEF Traffic
    <3>2. PICK a, b : a = [i \in DOMAIN all |-> log[i].bytes] /\ b = Acc(all)
      OBVIOUS
    <3>3. Integral(a) /\ Integral(b)
      BY <2>4, <3>1, <3>2, RowsAre DEF Integral
    <3>4. Total(a) \in Int /\ Total(b) \in Int
      BY <3>3, TotalTyped
    <3>5. AddedBytes(all) = Total(a) /\ AddedAccounted(all) = Total(b)
      BY <3>2 DEF AddedBytes, AddedAccounted, Acc
    <3> QED BY <2>4, <2>6, <3>4, <3>5
  <2>10. CountedIn(all) \in SUBSET ((Nat \X Int) \X Key)
    <3>1. DOMAIN all \subseteq DOMAIN log /\ \A i \in DOMAIN all : NamesConn(log[i])
      BY <2>4, <2>5 DEF Traffic, NamesConn, ConnTypes
    <3> QED BY <3>1, CountedTyped
  <2>11. /\ gen' \in Generation /\ gen'.status = gen.status
         /\ gen'.boundary = gen.boundary /\ gen'.seedLast = gen.seedLast /\ gen'.matLast = gen.matLast
         /\ gen'.published = to /\ gen'.conns = conns /\ gen'.rows = all
         /\ gen'.exact = exact /\ gen'.counted = CountedIn(all) /\ gen'.raw = raw /\ gen'.acc = acc
    <3>1. conns \in States
      BY <2>3, StatesAre
    <3> QED BY <2>4, <2>5, <2>7, <2>8, <2>9, <2>10, <3>1 DEF Generation
  <2>12. Serving' /\ Covered' = to /\ RowsTo' = to
    BY <2>5, <2>11 DEF Serving, Covered, RowsTo
  <2>13. TypeInv' /\ \A v \in Worker : job'[v] = IF v = w THEN NoJob ELSE job[v]
    BY <1>1, <2>11 DEF TypeInv
  <2>14. JobInv'
    <3> SUFFICES ASSUME NEW v \in Worker, job'[v] # NoJob PROVE Fits(v, job[v])'
      BY DEF JobInv
    <3>1. PICK j : j = job'[v]
      OBVIOUS
    <3>2. j \in Job /\ Fits(v, j) /\ job[v] = j
      BY <2>13, <3>1, Working
    <3>3. j.mode = "active"
      BY <2>5, <3>2 DEF Fits, Job, Serving
    <3>4. ChunkOf(j)'
      BY <1>1, <3>2, StillSame DEF Fits
    <3>5. Fits(v, j)'
      BY <2>12, <3>3, <3>4 DEF Fits
    <3> QED BY <3>1, <3>5 DEF Fits, ChunkOf
  <2>15. /\ gen'.boundary <= Len(log) /\ gen'.published <= Len(log)
         /\ gen'.seedLast <= gen'.boundary /\ gen'.matLast <= gen'.boundary
         /\ Whole(gen'.seedLast) /\ Whole(gen'.matLast) /\ Whole(gen'.published)
    BY <2>5, <2>11
  <2>16. /\ Plain(gen'.conns) = After(log, << >>, 0, Covered') /\ DOMAIN gen'.rows = Traffic(0, RowsTo')
         /\ \A i \in DOMAIN gen'.rows :
              gen'.rows[i].acc = Accounted(log[i].bytes, gen'.conns[KeyOf(log[i])].class)
    BY <2>3, <2>4, <2>11, <2>12
  <2>17. /\ gen'.raw = AddedBytes(gen'.rows) /\ gen'.acc = AddedAccounted(gen'.rows)
         /\ gen'.exact = Exactly(NoHours, Acc(gen'.rows)) /\ gen'.counted = CountedIn(gen'.rows)
    BY <2>4, <2>6, <2>9, <2>11
  <2> QED BY <1>1, <2>13, <2>14, <2>15, <2>16, <2>17, GenStep
<1> QED BY <1>3, <1>4

-----------------------------------------------------------------------------
(* The theorems.                                                           *)

LEMMA AccountingBegins == Init => AccountingInv
<1> SUFFICES ASSUME Init PROVE AccountingInv
  OBVIOUS
<1>1. /\ log = << >> /\ running = << >> /\ gen = [NewGen(0, 0) EXCEPT !.status = "none"]
      /\ job = [w \in Worker |-> NoJob] /\ faults = 0
  BY DEF Init, GrowthInit
<1>2. JournalInv
  BY <1>1 DEF JournalInv, Current, SameFrame
<1>3. /\ gen.status = "none" /\ gen.boundary = 0 /\ gen.seedLast = 0 /\ gen.matLast = 0
      /\ gen.published = 0 /\ gen.conns = << >> /\ gen.rows = << >> /\ gen.exact = NoHours
      /\ gen.counted = {}
  BY <1>1 DEF NewGen
<1>4. gen \in Generation
  <2>1. NoHours \in [Buckets -> Int] /\ << >> \in States /\ << >> \in RowSets
    BY StatesAre DEF NoHours
  <2> QED BY <1>1, <2>1 DEF NewGen, Generation
<1>5. TypeInv /\ JobInv
  BY <1>1, <1>4 DEF TypeInv, JobInv
<1>6. ~Serving /\ Covered = 0 /\ RowsTo = 0
  BY <1>3 DEF Serving, Covered, RowsTo
<1>7. PlaceInv
  <2>1. Len(log) = 0
    BY <1>1
  <2> QED BY <1>3, <2>1 DEF PlaceInv, Whole
<1>8. StateInv /\ RowsInv /\ TotalsInv
  BY <1>2, <1>3, <1>6, NoRows DEF StateInv, RowsInv, TotalsInv
<1>9. HoursFollowRows
  <2>1. HoursOfRows(TRUE) = Exactly(NoHours, Acc(gen.rows))
    BY Zenon DEF HoursOfRows, Exactly, Acc
  <2> QED BY <1>2, <1>3, <2>1, NoRows DEF HoursFollowRows
<1> QED BY <1>2, <1>5, <1>7, <1>8, <1>9 DEF AccountingInv

LEMMA StutterKeeps == AccountingInv /\ UNCHANGED vars => AccountingInv'
<1> SUFFICES ASSUME AccountingInv, UNCHANGED vars PROVE AccountingInv'
  OBVIOUS
<1>1. Still /\ gen' = gen /\ job' = job /\ faults' = faults
  BY DEF vars, Still
<1>2. CASE Worker = {}
  <2>1. TypeInv' /\ JobInv'
    BY <1>1, <1>2, Before DEF TypeInv, JobInv
  <2>2. Covered' = Covered /\ RowsTo' = RowsTo /\ Serving' = Serving
    BY <1>1 DEF Covered, RowsTo, Serving
  <2> QED BY <1>1, <2>1, <2>2, Before, GenStep
<1>3. ASSUME NEW w \in Worker PROVE AccountingInv'
  <2>1. job' = [job EXCEPT ![w] = job[w]] /\ faults' \in Nat
    BY <1>1, Before
  <2>2. job[w] = NoJob \/ (job[w] \in Job /\ Fits(w, job[w]))
    BY Working
  <2> QED BY <1>1, <2>1, <2>2, JobStep
<1> QED BY <1>2, <1>3

LEMMA GrowthKeeps ==
  ASSUME AccountingInv, Grows
  PROVE  AccountingInv'
<1>1. JournalInv'
  BY JournalGrows DEF AccountingInv
<1> QED BY <1>1, GrowthKeepsJobs, GrowthKeepsRows DEF AccountingInv

LEMMA AccountingKept == AccountingInv /\ [Next]_vars => AccountingInv'
<1> SUFFICES ASSUME AccountingInv, [Next]_vars PROVE AccountingInv'
  OBVIOUS
<1>1. CASE Grows
  BY <1>1, GrowthKeeps
<1>2. ASSUME NEW w \in Worker, Work(w) PROVE AccountingInv'
  BY <1>2, CreateSeedKeeps, StartTickKeeps, MeasureKeeps, VerifyKeeps, SeedChunkKeeps,
     ClassifySeedKeeps, MaterializeChunkKeeps, ActivateKeeps, CommitKeeps DEF Work
<1>3. ASSUME NEW w \in Worker, GivesUp(w) \/ ActivationFails(w) PROVE AccountingInv'
  BY <1>3, GivesUpKeeps, ActivationFailsKeeps
<1>4. CASE Supersede
  BY <1>4, SupersedeKeeps
<1>5. CASE UNCHANGED vars
  BY <1>5, StutterKeeps
<1> QED BY <1>1, <1>2, <1>3, <1>4, <1>5 DEF Next, Grows

LEMMA Accounts == Spec => []AccountingInv
BY AccountingBegins, AccountingKept, PTL DEF Spec

\* Whatever happened on the way, the state of the connections is that of the
\* journal covered: no event counted twice, none left out.
THEOREM StateIsTheJournals == Spec => []StateFollowsJournal
<1>1. AccountingInv => StateFollowsJournal
  <2> SUFFICES ASSUME AccountingInv PROVE StateFollowsJournal
    OBVIOUS
  <2>1. PICK n \in Nat : n = Covered
    BY RowsTyped DEF AccountingInv
  <2>2. MergeRange(<< >>, 0, n) = After(log, << >>, 0, n)
    BY MergeIsAfter
  <2> QED BY <2>1, <2>2 DEF AccountingInv, StateInv, StateFollowsJournal
<1> QED BY <1>1, Accounts, PTL

\* An active generation has one row for each event with bytes it covers,
\* accounted by the class its connection has now, and totals that agree.
THEOREM RowsAreTheJournals == Spec => []RowsFollowClasses
<1>1. AccountingInv => RowsFollowClasses
  BY DEF AccountingInv, RowsInv, TotalsInv, RowsFollowClasses, RowsTo, Serving, Active
<1> QED BY <1>1, Accounts, PTL

\* Hours and the connections counted in them are those of the rows, after any
\* number of corrections.
THEOREM HoursAreTheRows == Spec => []HoursFollowRows
<1>1. AccountingInv => HoursFollowRows
  BY DEF AccountingInv
<1> QED BY <1>1, Accounts, PTL

\* What is published does not end inside a frame still being written.
THEOREM PublishesWholeFrames == Spec => []FramesWhole
<1>1. AccountingInv => FramesWhole
  <2> SUFFICES ASSUME AccountingInv, gen.published > 0, running[log[gen.published].session],
                      NEW i \in InFrameOf(gen.published), i > gen.published
               PROVE  ~NamesConn(log[i])
    BY DEF FramesWhole
  <2>1. Whole(gen.published)
    BY DEF AccountingInv, PlaceInv
  <2>2. i \in DOMAIN log /\ SameFrame(i, gen.published)
    BY DEF InFrameOf, SameFrame
  <2> QED BY <2>1, <2>2 DEF Whole
<1> QED BY <1>1, Accounts, PTL

-----------------------------------------------------------------------------
(* Why the bounded closure decides as a rebuild does.                      *)

\* The row of a connection no event of the range names stays as it was.
LEMMA AfterUntouched ==
  ASSUME NEW l, NEW conns, NEW from, NEW to, IsRange(l, conns, from, to)
  PROVE  \A k \in DOMAIN conns \ KeysIn(l, from, to) : After(l, conns, from, to)[k] = conns[k]
<1>0. /\ l \in Seq(Event) /\ IsState(conns) /\ from \in Nat /\ to \in Nat /\ from <= to
      /\ to <= Len(l)
  BY DEF IsRange
<1> SUFFICES ASSUME NEW k \in DOMAIN conns, k \notin KeysIn(l, from, to)
             PROVE  After(l, conns, from, to)[k] = conns[k]
  OBVIOUS
<1> DEFINE Bad == {n \in Nat : from <= n /\ n <= to /\ After(l, conns, from, n)[k] # conns[k]}
<1> USE <1>0
<1>1. SUFFICES ASSUME Bad # {} PROVE FALSE
  OBVIOUS
<1>2. PICK m \in Bad : \A n \in Bad : m <= n
  BY <1>1, Least
<1>3. m # from
  BY <1>2, AfterSteps
<1>4. PICK p \in Nat : m = p + 1 /\ from <= p /\ p <= to /\ ~(m <= p) /\ m \in from+1..to
                       /\ m \in 1..Len(l)
  <2>1. /\ m - 1 \in Nat /\ m = (m - 1) + 1 /\ from <= m - 1 /\ m - 1 <= to /\ ~(m <= m - 1)
        /\ m \in from+1..to /\ m \in 1..Len(l)
    BY <1>2, <1>3
  <2> QED BY <2>1
<1>5. After(l, conns, from, p)[k] = conns[k]
  BY <1>2, <1>4
<1> HIDE DEF Bad
<1>6. After(l, conns, from, p + 1) = Merge(After(l, conns, from, p), l[p + 1])
  <2>1. from \in Nat /\ p \in Nat /\ from <= p
    BY <1>4
  <2> QED BY ONLY <2>1, AfterSteps, ZenonT(40)
<1>7. NamesConn(l[m]) => KeyOf(l[m]) # k
  BY <1>4 DEF KeysIn
<1>8. k \in DOMAIN After(l, conns, from, p)
  <2>1. IsRange(l, conns, from, p) /\ p <= Len(l)
    BY <1>4 DEF IsRange
  <2>2. Kept(l, conns, from, p)
    BY <2>1, AfterKeeps
  <2> QED BY <2>2 DEF Kept
<1>9. After(l, conns, from, m)[k] = conns[k]
  <2>1. PICK c : c = After(l, conns, from, p)
    OBVIOUS
  <2>2. CASE ~NamesConn(l[m])
    BY <1>4, <1>5, <1>6, <2>2 DEF Merge
  <2>3. CASE NamesConn(l[m])
    <3>1. Merge(c, l[m]) =
            [x \in {KeyOf(l[m])} \cup DOMAIN c |->
               IF x = KeyOf(l[m])
                 THEN Advanced(IF KeyOf(l[m]) \in DOMAIN c THEN c[KeyOf(l[m])] ELSE NewRow(l[m]), l[m])
                 ELSE c[x]]
      BY <2>3, MergeIs
    <3>2. Merge(c, l[m])[k] = c[k]
      BY <1>7, <1>8, <2>1, <2>3, <3>1
    <3> QED BY <1>4, <1>5, <1>6, <2>1, <3>2
  <2> QED BY <2>2, <2>3
<1> QED BY <1>2, <1>9 DEF Bad

\* A row was first and last seen in frames of its events, in that order.
Names(i, k) == NamesConn(log[i]) /\ KeyOf(log[i]) = k
Dated(conns, n) ==
  \A k \in DOMAIN conns :
    /\ \E i \in 1..n : Names(i, k) /\ conns[k].first = log[i].frame
    /\ \E i \in 1..n : Names(i, k) /\ conns[k].last = log[i].frame
    /\ conns[k].first <= conns[k].last

LEMMA DatesMerge ==
  ASSUME JournalInv, NEW n \in Nat, n + 1 <= Len(log), NEW conns, IsState(conns), Dated(conns, n)
  PROVE  Dated(Merge(conns, log[n + 1]), n + 1)
<1> DEFINE e == log[n + 1]
           new == Merge(conns, e)
<1>1. n + 1 \in DOMAIN log /\ e \in Event /\ n + 1 \in 1..(n + 1) /\ 1..n \subseteq 1..(n + 1)
      /\ 1..n \subseteq DOMAIN log /\ \A i \in 1..n : i < n + 1
  BY DEF JournalInv
<1>2. CASE ~NamesConn(e)
  BY <1>1, <1>2 DEF Merge, Dated
<1>3. CASE NamesConn(e)
  <2> DEFINE old == IF KeyOf(e) \in DOMAIN conns THEN conns[KeyOf(e)] ELSE NewRow(e)
  <2>1. new = [k \in {KeyOf(e)} \cup DOMAIN conns |->
                 IF k = KeyOf(e) THEN Advanced(old, e) ELSE conns[k]]
    BY <1>3, MergeIs
  <2>2. e.frame \in Nat /\ e \in ConnEvent
    BY <1>1, <1>3, EventNames, EventTyped
  <2>3. old \in Row
    BY <2>2 DEF IsState, NewRow, Row, ConnEvent, NoFrame, Classes
  <2>4. Advanced(old, e).first = old.first /\ Advanced(old, e).last = e.frame
    <3>1. PICK gone, bytes : gone = GoneAfter(e, old.gone) /\ bytes = old.bytes + e.bytes
      OBVIOUS
    <3>2. Advanced(old, e) = [old EXCEPT !.last = e.frame, !.bytes = bytes, !.gone = gone]
      BY <3>1, Zenon DEF Advanced
    <3> HIDE DEF old, e
    <3> QED BY <2>3, <3>2 DEF Row
  <2>5. \E i \in 1..(n + 1) : Names(i, KeyOf(e)) /\ old.first = log[i].frame
    <3>1. CASE KeyOf(e) \in DOMAIN conns
      <4>1. PICK i \in 1..n : Names(i, KeyOf(e)) /\ conns[KeyOf(e)].first = log[i].frame
        BY <3>1 DEF Dated
      <4> QED BY <1>1, <3>1, <4>1
    <3>2. CASE KeyOf(e) \notin DOMAIN conns
      BY <1>1, <1>3, <3>2 DEF Names, NewRow
    <3> QED BY <3>1, <3>2
  <2>6. old.first <= e.frame
    <3>1. PICK i \in 1..(n + 1) : Names(i, KeyOf(e)) /\ old.first = log[i].frame
      BY <2>5
    <3>2. log[i].session = e.session
      BY <3>1 DEF Names, KeyOf
    <3>3. CASE i = n + 1
      BY <2>2, <3>1, <3>3
    <3>4. CASE i # n + 1
      <4>1. i \in DOMAIN log /\ i < n + 1
        BY <1>1, <3>4
      <4> QED BY <1>1, <3>1, <3>2, <4>1 DEF JournalInv
    <3> QED BY <3>3, <3>4
  <2>7. ASSUME NEW k \in DOMAIN new
        PROVE  /\ \E i \in 1..(n + 1) : Names(i, k) /\ new[k].first = log[i].frame
               /\ \E i \in 1..(n + 1) : Names(i, k) /\ new[k].last = log[i].frame
               /\ new[k].first <= new[k].last
    <3>1. CASE k = KeyOf(e)
      <4>1. new[k].first = old.first /\ new[k].last = e.frame
        <5> HIDE DEF old, e, new
        <5> QED BY <2>1, <2>4, <3>1
      <4>2. Names(n + 1, k)
        BY <1>3, <3>1 DEF Names
      <4> QED BY <1>1, <2>5, <2>6, <3>1, <4>1, <4>2
    <3>2. CASE k # KeyOf(e)
      <4>1. k \in DOMAIN conns /\ new[k] = conns[k]
        <5> HIDE DEF old, e, new
        <5> QED BY <2>1, <3>2
      <4> QED BY <1>1, <4>1 DEF Dated
    <3> QED BY <3>1, <3>2
  <2> QED BY <2>7 DEF Dated
<1> QED BY <1>2, <1>3

LEMMA Dates ==
  ASSUME JournalInv, NEW n \in Nat, n <= Len(log)
  PROVE  Dated(After(log, << >>, 0, n), n)
<1> DEFINE state(m) == After(log, << >>, 0, m)
           Bad == {m \in Nat : m <= n /\ ~Dated(state(m), m)}
<1>1. SUFFICES ASSUME Bad # {} PROVE FALSE
  OBVIOUS
<1>2. PICK m \in Bad : \A x \in Bad : m <= x
  BY <1>1, Least
<1>3. /\ state(0) = << >>
      /\ \A p \in Nat : state(p + 1) = Merge(state(p), log[p + 1])
  <2>1. PICK l, none : l = log /\ none = << >>
    OBVIOUS
  <2>2. PICK zero \in Nat : zero = 0 /\ \A p \in Nat : zero <= p
    OBVIOUS
  <2>3. \A p \in Nat : /\ After(l, none, zero, zero) = none
                       /\ After(l, none, zero, p + 1) = Merge(After(l, none, zero, p), l[p + 1])
    <3> TAKE p \in Nat
    <3>1. zero <= p
      BY <2>2
    <3> QED BY ONLY <3>1, zero \in Nat, p \in Nat, AfterSteps, ZenonT(40)
  <2> QED BY <2>1, <2>2, <2>3
<1>4. m # 0
  <2>1. DOMAIN << >> = {}
    OBVIOUS
  <2>2. Dated(<< >>, 0)
    BY <2>1 DEF Dated
  <2> QED BY <1>2, <1>3, <2>2
<1>5. PICK p \in Nat : m = p + 1 /\ p <= n /\ ~(m <= p)
  <2>1. m - 1 \in Nat /\ m = (m - 1) + 1 /\ m - 1 <= n /\ ~(m <= m - 1)
    BY <1>2, <1>4
  <2> QED BY <2>1
<1>6. Dated(state(p), p)
  BY <1>2, <1>5
<1>7. IsState(state(p)) /\ p + 1 <= Len(log)
  <2>1. p <= Len(log) /\ p + 1 <= Len(log)
    BY <1>2, <1>5 DEF JournalInv
  <2> QED BY <2>1, FromStart
<1> HIDE DEF state, Bad
<1>8. Dated(state(p + 1), p + 1)
  BY <1>3, <1>6, <1>7, DatesMerge
<1> QED BY <1>2, <1>5, <1>8 DEF Bad

\* Nothing is seen first after it was seen last, or after its group was.
Timely(conns, to) ==
  \A k \in DOMAIN conns : /\ conns[k].first <= conns[k].last
                          /\ conns[k].first <= BoundaryFrame(k, to)

LEMMA JournalIsTimely ==
  ASSUME JournalInv, NEW to \in Nat, to <= Len(log), NEW conns, IsState(conns),
         Plain(conns) = After(log, << >>, 0, to)
  PROVE  Timely(conns, to)
<1>1. Dated(Plain(conns), to)
  BY Dates
<1>2. ASSUME NEW k \in DOMAIN conns
      PROVE  /\ conns[k].first <= conns[k].last
             /\ \E i \in 1..to : Names(i, k) /\ conns[k].first = log[i].frame
  <2>1. k \in DOMAIN Plain(conns) /\ Plain(conns)[k] = [conns[k] EXCEPT !.class = "unique"]
    BY DEF Plain
  <2>2. conns[k] \in Row
    BY DEF IsState
  <2>3. Plain(conns)[k].first = conns[k].first /\ Plain(conns)[k].last = conns[k].last
    BY <2>1, <2>2 DEF Row
  <2> QED BY <1>1, <2>1, <2>3 DEF Dated
<1>3. ASSUME NEW k \in DOMAIN conns PROVE conns[k].first <= BoundaryFrame(k, to)
  <2> DEFINE mine == {i \in 1..to : /\ SameGroup(k, <<log[i].session, log[i].epoch>>)
                                    /\ log[i].type # "Other"}
  <2>1. PICK i \in 1..to : Names(i, k) /\ conns[k].first = log[i].frame
    BY <1>2
  <2>2. k = <<log[i].session, log[i].epoch, log[i].conn>> /\ log[i].type # "Other"
    BY <2>1 DEF Names, KeyOf, NamesConn, ConnTypes
  <2>3. i \in mine /\ mine \in SUBSET (1..to)
    BY <2>2 DEF SameGroup
  <2>4. Max(mine) \in mine /\ i <= Max(mine)
    BY <2>3, GreatestOf
  <2>5. BoundaryFrame(k, to) = log[Max(mine)].frame
    BY <2>3, Zenon DEF BoundaryFrame
  <2>6. PICK x \in mine : x = Max(mine) /\ i <= x
    BY <2>4
  <2>7. log[x].session = log[i].session /\ i \in DOMAIN log /\ x \in DOMAIN log
    <3>1. log[x].session = k[1] /\ log[i].session = k[1]
      BY <2>2, <2>6 DEF SameGroup
    <3>2. 1..to \subseteq DOMAIN log
      BY DEF JournalInv
    <3> QED BY <2>6, <3>1, <3>2
  <2>8. log[i].frame <= log[x].frame
    <3>1. CASE i = x
      BY <2>7, <3>1, EventTyped
    <3>2. CASE i # x
      <4>1. i < x
        BY <2>6, <3>2
      <4> QED BY <2>7, <4>1 DEF JournalInv
    <3> QED BY <3>1, <3>2
  <2> QED BY <2>1, <2>5, <2>6, <2>8
<1> QED BY <1>2, <1>3 DEF Timely

-----------------------------------------------------------------------------
(* Classes by bytes alone.                                                 *)

\* The connections with the bytes of another, whenever they were there.
ByteMatches(conns, k) ==
  {j \in DOMAIN conns : /\ SameGroup(k, j) /\ Pairs(k, j)
                        /\ SameTraffic(conns[k].bytes, conns[j].bytes)}

ByteClass(conns, k) ==
  LET matched == ByteMatches(conns, k)
  IN  IF k[3] \in App THEN "unique"
      ELSE IF matched = {} THEN "missing"
      ELSE IF \E j \in matched : matched = {j} /\ ByteMatches(conns, j) = {k} THEN "confirmed"
      ELSE "ambiguous"

\* What could be a relay's and an application's ended together in the group of k.
Together(conns, k) ==
  \A i, j \in DOMAIN conns :
    SameGroup(k, i) /\ SameGroup(k, j) /\ Pairs(i, j) => EndOf(conns[i]) = EndOf(conns[j])

\* Then bytes decide; of other than candidates they decide in any case.
Decisive(conns, k) == k[3] \in Relay => Together(conns, k)

ClassesRight(conns) ==
  \A k \in DOMAIN conns : Decisive(conns, k) => conns[k].class = ByteClass(conns, k)

\* Those that ended together were there together.
LEMMA TogetherOverlap ==
  ASSUME NEW conns, IsState(conns), NEW to, Timely(conns, to),
         NEW k \in DOMAIN conns, NEW j \in DOMAIN conns, SameGroup(k, j),
         EndOf(conns[k]) = EndOf(conns[j])
  PROVE  Overlap(conns, k, j, to)
<1>1. PICK b : b = BoundaryFrame(k, to)
  OBVIOUS
<1>2. BoundaryFrame(j, to) = b
  BY <1>1 DEF SameGroup, BoundaryFrame
<1>3. conns[k] \in Row /\ conns[j] \in Row
  BY DEF IsState
<1>4. /\ conns[k].first <= conns[k].last /\ conns[k].first <= b
      /\ conns[j].first <= conns[j].last /\ conns[j].first <= b
  BY <1>1, <1>2 DEF Timely
<1>5. conns[k].first <= EffectiveLastObs(conns[j], b) /\ conns[j].first <= EffectiveLastObs(conns[k], b)
  <2>1. CASE EndOf(conns[k]) # NoFrame
    BY <1>3, <1>4, <2>1 DEF EffectiveLastObs, EndOf, NoFrame, Row
  <2>2. CASE EndOf(conns[k]) = NoFrame
    BY <1>3, <1>4, <2>2 DEF EffectiveLastObs, NoFrame, Row
  <2> QED BY <2>1, <2>2
<1> QED BY <1>1, <1>2, <1>5 DEF Overlap

LEMMA PairsMeans ==
  /\ \A k, j : Pairs(k, j) <=> Pairs(j, k)
  /\ \A k, j : Pairs(k, j) => k[3] \in Relay \/ j[3] \in Relay
  /\ \A k : k[3] \in App => k[3] \notin Relay
  /\ \A k, j : Pairs(k, j) => k[3] \in Relay \/ k[3] \in App
  /\ \A k, j : SameGroup(k, j) <=> SameGroup(j, k)
  /\ \A k, i, j : SameGroup(k, i) /\ SameGroup(k, j) => SameGroup(i, j)
BY RolesAssumption DEF Pairs, SameGroup

\* Among connections that leave out none of those that ended with one of them,
\* the class is that of the bytes.
ClosedIn(conns, scope) ==
  \A i \in scope, j \in DOMAIN conns :
    SameGroup(i, j) /\ EndOf(conns[i]) = EndOf(conns[j]) => j \in scope

LEMMA MatchesByBytes ==
  ASSUME NEW conns, IsState(conns), NEW to, Timely(conns, to), NEW k, Together(conns, k),
         NEW scope \in SUBSET DOMAIN conns, ClosedIn(conns, scope),
         NEW i \in scope, SameGroup(k, i)
  PROVE  /\ Matches(Restrict(conns, scope), i, to) = ByteMatches(conns, i)
         /\ ByteMatches(conns, i) \subseteq scope
<1> DEFINE among == Restrict(conns, scope)
<1>1. DOMAIN among = scope /\ \A x \in scope : among[x] = conns[x]
  BY DEF Restrict
<1>2. ASSUME NEW j \in DOMAIN conns, SameGroup(i, j), Pairs(i, j)
      PROVE  j \in scope /\ Overlap(among, i, j, to)
  <2>1. SameGroup(k, j)
    BY <1>2, PairsMeans
  <2>2. EndOf(conns[i]) = EndOf(conns[j])
    BY <1>2, <2>1 DEF Together
  <2>3. j \in scope
    BY <1>2, <2>2 DEF ClosedIn
  <2>4. Overlap(conns, i, j, to)
    BY <1>2, <2>2, TogetherOverlap
  <2> QED BY <1>1, <2>3, <2>4, Zenon DEF Overlap
<1> HIDE DEF among
<1>3. Matches(among, i, to) = ByteMatches(conns, i)
  BY <1>1, <1>2 DEF Matches, ByteMatches
<1> QED BY <1>2, <1>3 DEF among, ByteMatches

LEMMA DecidedByBytes ==
  ASSUME NEW conns, IsState(conns), NEW to, Timely(conns, to),
         NEW scope \in SUBSET DOMAIN conns, ClosedIn(conns, scope),
         NEW k \in scope, Decisive(conns, k)
  PROVE  ClassIn(Restrict(conns, scope), k, to) = ByteClass(conns, k)
<1> DEFINE among == Restrict(conns, scope)
<1>1. CASE k[3] \in App
  BY <1>1 DEF ClassIn, ByteClass
<1>2. CASE k[3] \in Relay
  <2>1. Together(conns, k) /\ k[3] \notin App
    BY <1>2, PairsMeans DEF Decisive
  <2>2. \A i \in scope : SameGroup(k, i) => /\ Matches(among, i, to) = ByteMatches(conns, i)
                                            /\ ByteMatches(conns, i) \subseteq scope
    BY <2>1, MatchesByBytes
  <2>3. SameGroup(k, k) /\ \A j \in ByteMatches(conns, k) : SameGroup(k, j)
    BY DEF SameGroup, ByteMatches
  <2>4. /\ Matches(among, k, to) = ByteMatches(conns, k)
        /\ \A j \in ByteMatches(conns, k) : Matches(among, j, to) = ByteMatches(conns, j)
    BY <2>2, <2>3
  <2> HIDE DEF among
  <2> QED BY <2>1, <2>4, Zenon DEF ClassIn, ByteClass, among
<1>3. CASE k[3] \notin App /\ k[3] \notin Relay
  <2>1. Matches(among, k, to) = {} /\ ByteMatches(conns, k) = {}
    BY <1>3, PairsMeans DEF Matches, ByteMatches
  <2> HIDE DEF among
  <2> QED BY <1>3, <2>1, Zenon DEF ClassIn, ByteClass, among
<1> QED BY <1>1, <1>2, <1>3

\* All connections of a state are such connections.
LEMMA ClassifiedByBytes ==
  ASSUME NEW conns, IsState(conns), NEW to, Timely(conns, to), NEW k \in DOMAIN conns,
         Decisive(conns, k)
  PROVE  ClassIn(conns, k, to) = ByteClass(conns, k)
<1>1. conns = Restrict(conns, DOMAIN conns)
  BY DEF IsState, Restrict
<1>2. ClosedIn(conns, DOMAIN conns)
  BY DEF ClosedIn
<1>3. ClassIn(Restrict(conns, DOMAIN conns), k, to) = ByteClass(conns, k)
  BY <1>2, DecidedByBytes
<1> QED BY <1>1, <1>3

\* Classes play no part in it.
Alike(conns, other) ==
  DOMAIN other = DOMAIN conns /\ \A k \in DOMAIN conns : /\ other[k].bytes = conns[k].bytes
                                                         /\ EndOf(other[k]) = EndOf(conns[k])

LEMMA AlikeDecide ==
  ASSUME NEW conns, NEW other, Alike(conns, other), NEW k
  PROVE  /\ k \in DOMAIN conns => ByteClass(other, k) = ByteClass(conns, k)
         /\ Decisive(other, k) <=> Decisive(conns, k)
<1>1. \A j \in DOMAIN conns : ByteMatches(other, j) = ByteMatches(conns, j)
  BY DEF Alike, ByteMatches
<1>2. k \in DOMAIN conns => ByteClass(other, k) = ByteClass(conns, k)
  <2>1. ByteMatches(conns, k) \subseteq DOMAIN conns
    BY DEF ByteMatches
  <2> QED BY <1>1, <2>1, Zenon DEF ByteClass
<1>3. Decisive(other, k) <=> Decisive(conns, k)
  BY DEF Alike, Decisive, Together
<1> QED BY <1>2, <1>3

\* A plan is made of connections whose partners it has as well.
LEMMA PlanIs ==
  ASSUME JournalInv, IsState(gen.conns), NEW from \in Nat, NEW to \in Nat, from <= to, to <= Len(log),
         NEW plan, plan = Prepare(from, to), NEW merged, merged = After(log, gen.conns, from, to),
         Timely(merged, to)
  PROVE  /\ DirtyKeys(from, to) \subseteq DOMAIN plan /\ DOMAIN plan \subseteq DOMAIN merged
         /\ ClosedIn(merged, DOMAIN plan)
         /\ \A k \in DOMAIN plan : plan[k] = ClassIn(Restrict(merged, DOMAIN plan), k, to)
         /\ \A k \in DOMAIN merged \ DirtyKeys(from, to) :
              k \in DOMAIN gen.conns /\ merged[k] = gen.conns[k]
<1> DEFINE dirty == DirtyKeys(from, to)
           firsts == {merged[k].first : k \in dirty}
           close == Closure(gen.conns, dirty, Min(firsts))
<1>1. /\ MergeRange(gen.conns, from, to) = merged /\ IsState(merged)
      /\ DOMAIN merged = DOMAIN gen.conns \cup dirty /\ KeysIn(log, from, to) = dirty
  BY MergedIs DEF Kept
<1>2. \A k \in DOMAIN gen.conns \ dirty : merged[k] = gen.conns[k]
  <2>1. IsRange(log, gen.conns, from, to)
    BY DEF IsRange, JournalInv
  <2>2. PICK l, conns : l = log /\ conns = gen.conns
    OBVIOUS
  <2>3. \A k \in DOMAIN conns \ KeysIn(l, from, to) : After(l, conns, from, to)[k] = conns[k]
    BY <2>1, <2>2, AfterUntouched
  <2> HIDE DEF dirty
  <2> QED BY <1>1, <2>2, <2>3
<1>3. Prepare(from, to) = IF dirty = {} THEN << >>
                          ELSE [k \in DOMAIN Restrict(merged, close) |->
                                  ClassIn(Restrict(merged, close), k, to)]
  BY <1>1, Zenon DEF Prepare
<1>4. CASE dirty = {}
  <2>1. DOMAIN plan = {}
    BY <1>3, <1>4
  <2> HIDE DEF dirty
  <2> QED BY <1>1, <1>2, <1>4, <2>1 DEF ClosedIn, dirty
<1>5. CASE dirty # {}
  <2>1. dirty \subseteq close /\ close \subseteq DOMAIN merged
    BY <1>1 DEF Closure
  <2>2. DOMAIN plan = close /\ \A k \in close : plan[k] = ClassIn(Restrict(merged, close), k, to)
    <3> HIDE DEF dirty, close
    <3>1. plan = [k \in close |-> ClassIn(Restrict(merged, close), k, to)]
      BY <1>3, <1>5 DEF Restrict
    <3> QED BY <3>1
  <2>3. \A d \in dirty : Min(firsts) <= merged[d].first
    <3>1. \A d \in dirty : merged[d].first \in Nat
      BY <1>1 DEF IsState, Row
    <3>2. firsts \in SUBSET Nat /\ firsts # {} /\ \A d \in dirty : merged[d].first \in firsts
      BY <1>5, <3>1
    <3> HIDE DEF firsts
    <3> QED BY <3>2, LeastOf
  <2>4. Min(firsts) \in Nat
    <3>1. \A d \in dirty : merged[d].first \in Nat
      BY <1>1 DEF IsState, Row
    <3>2. firsts \in SUBSET Nat /\ firsts # {}
      BY <1>5, <3>1
    <3> HIDE DEF firsts
    <3> QED BY <3>2, LeastOf
  <2>5. PICK cutoff \in Nat : /\ close = Closure(gen.conns, dirty, cutoff)
                              /\ \A d \in dirty : cutoff <= merged[d].first
    BY <2>3, <2>4
  <2> HIDE DEF dirty, close, firsts
  <2>6. ASSUME NEW i \in close, NEW j \in DOMAIN merged, SameGroup(i, j),
               EndOf(merged[i]) = EndOf(merged[j]), j \notin dirty
        PROVE  j \in close
    <3>1. PICK row \in Row, mine \in Row :
            row = merged[j] /\ row = gen.conns[j] /\ j \in DOMAIN gen.conns /\ mine = merged[i]
      BY <1>1, <1>2, <2>1, <2>6 DEF IsState
    <3>2. \E d \in dirty : SameGroup(d, j)
      <4>1. i \in dirty \/ \E d \in dirty : SameGroup(d, i)
        BY <2>5 DEF Closure
      <4> QED BY <2>6, <4>1, PairsMeans
    <3>3. mine.first <= mine.last
      BY <2>1, <3>1 DEF Timely
    <3>4. \/ cutoff <= mine.first
          \/ mine.gone = NoFrame \/ mine.gone >= cutoff \/ mine.last >= cutoff \/ mine.last > mine.gone
      <4>1. CASE i \in dirty
        BY <2>5, <3>1, <4>1
      <4>2. CASE i \notin dirty
        BY <1>1, <1>2, <2>1, <2>5, <3>1, <4>2 DEF Closure
      <4> QED BY <4>1, <4>2
    <3>5. row.gone = NoFrame \/ row.gone >= cutoff \/ row.last >= cutoff \/ row.last > row.gone
      <4>1. EndOf(mine) = EndOf(row)
        BY <2>6, <3>1
      <4> QED BY <3>3, <3>4, <4>1 DEF EndOf, NoFrame, Row
    <3> QED BY <2>5, <3>1, <3>2, <3>5 DEF Closure
  <2>7. ClosedIn(merged, close)
    BY <2>1, <2>6 DEF ClosedIn
  <2> QED BY <1>1, <1>2, <2>1, <2>2, <2>7 DEF dirty
<1> QED BY <1>4, <1>5

\* Publishing a plan keeps classes right: what it names gets the class of its
\* bytes, and what it does not name has no partner it names.
LEMMA PlanDecides ==
  ASSUME NEW conns, NEW merged, IsState(merged), NEW to, Timely(merged, to),
         NEW dirty, NEW plan, dirty \subseteq DOMAIN plan, DOMAIN plan \subseteq DOMAIN merged,
         ClosedIn(merged, DOMAIN plan), DOMAIN conns \subseteq DOMAIN merged,
         \A k \in DOMAIN plan : plan[k] = ClassIn(Restrict(merged, DOMAIN plan), k, to),
         \A k \in DOMAIN merged \ dirty : k \in DOMAIN conns /\ merged[k] = conns[k],
         ClassesRight(conns)
  PROVE  ClassesRight(Planned(merged, plan))
<1> DEFINE new == Planned(merged, plan)
<1>1. /\ DOMAIN new = DOMAIN merged
      /\ \A k \in DOMAIN merged :
           new[k] = IF k \in DOMAIN plan THEN [merged[k] EXCEPT !.class = plan[k]] ELSE merged[k]
  BY DEF Planned
<1>2. /\ Alike(merged, new) /\ \A k \in DOMAIN plan : new[k].class = plan[k]
  <2>1. ASSUME NEW k \in DOMAIN merged
        PROVE  /\ new[k].bytes = merged[k].bytes /\ EndOf(new[k]) = EndOf(merged[k])
               /\ k \in DOMAIN plan => new[k].class = plan[k]
    <3>1. PICK row \in Row : row = merged[k]
      BY DEF IsState
    <3>2. \A c : /\ [row EXCEPT !.class = c].bytes = row.bytes /\ [row EXCEPT !.class = c].class = c
                 /\ EndOf([row EXCEPT !.class = c]) = EndOf(row)
      BY DEF Row, EndOf
    <3> HIDE DEF new
    <3>3. CASE k \in DOMAIN plan
      <4>1. PICK c : c = plan[k] /\ new[k] = [row EXCEPT !.class = c]
        BY <1>1, <3>1, <3>3
      <4> QED BY <3>1, <3>2, <4>1
    <3>4. CASE k \notin DOMAIN plan
      BY <1>1, <3>1, <3>4
    <3> QED BY <3>3, <3>4
  <2> HIDE DEF new
  <2> QED BY <1>1, <2>1 DEF Alike
<1> SUFFICES ASSUME NEW k \in DOMAIN merged, Decisive(new, k) PROVE new[k].class = ByteClass(new, k)
  BY <1>1 DEF ClassesRight
<1> HIDE DEF new
<1>3. Decisive(merged, k) /\ ByteClass(new, k) = ByteClass(merged, k)
  BY <1>2, AlikeDecide
<1>4. CASE k \in DOMAIN plan
  <2>1. ClassIn(Restrict(merged, DOMAIN plan), k, to) = ByteClass(merged, k)
    BY <1>3, <1>4, DecidedByBytes
  <2> QED BY <1>2, <1>3, <1>4, <2>1
<1>5. CASE k \notin DOMAIN plan
  <2>1. k \in DOMAIN conns /\ merged[k] = conns[k] /\ new[k] = conns[k]
    BY <1>1, <1>5
  <2>2. Decisive(conns, k) /\ ByteClass(merged, k) = ByteClass(conns, k)
    <3>1. CASE k[3] \in App
      BY <3>1, PairsMeans DEF Decisive, ByteClass
    <3>2. CASE k[3] \notin App /\ k[3] \notin Relay
      <4>1. ByteMatches(conns, k) = {} /\ ByteMatches(merged, k) = {}
        BY <3>2, PairsMeans DEF ByteMatches
      <4> QED BY <3>2, <4>1 DEF Decisive, ByteClass
    <3>3. CASE k[3] \in Relay
      <4>0. Together(merged, k) /\ k[3] \notin App
        BY <1>3, <3>3, PairsMeans DEF Decisive
      <4>1. ASSUME NEW i \in DOMAIN merged, NEW j \in DOMAIN merged,
                   SameGroup(k, i), SameGroup(k, j), Pairs(i, j)
            PROVE  i \notin DOMAIN plan
        <5>1. SUFFICES ASSUME i \in DOMAIN plan PROVE FALSE
          OBVIOUS
        <5>2. j \in DOMAIN plan
          BY <4>0, <4>1, <5>1, PairsMeans DEF Together, ClosedIn
        <5>3. PICK a \in {i, j} : a[3] \in App
          BY <4>1 DEF Pairs
        <5>4. a \in DOMAIN plan /\ a \in DOMAIN merged /\ SameGroup(k, a) /\ Pairs(k, a) /\ SameGroup(a, k)
          BY <3>3, <4>1, <5>1, <5>2, <5>3, PairsMeans DEF Pairs
        <5>5. EndOf(merged[a]) = EndOf(merged[k])
          <6>1. SameGroup(k, k)
            BY DEF SameGroup
          <6> QED BY <4>0, <5>4, <6>1 DEF Together
        <5> QED BY <1>5, <5>4, <5>5 DEF ClosedIn
      <4>2. ASSUME NEW i \in DOMAIN merged, NEW j \in DOMAIN merged,
                   SameGroup(k, i), SameGroup(k, j), Pairs(i, j)
            PROVE  i \in DOMAIN conns /\ merged[i] = conns[i] /\ j \in DOMAIN conns /\ merged[j] = conns[j]
        <5>1. i \notin DOMAIN plan /\ j \notin DOMAIN plan
          BY <4>1, <4>2, PairsMeans
        <5> QED BY <5>1
      <4>3. Together(conns, k)
        <5> SUFFICES ASSUME NEW i \in DOMAIN conns, NEW j \in DOMAIN conns,
                            SameGroup(k, i), SameGroup(k, j), Pairs(i, j)
                     PROVE  EndOf(conns[i]) = EndOf(conns[j])
          BY DEF Together
        <5>1. i \in DOMAIN merged /\ j \in DOMAIN merged
          OBVIOUS
        <5>2. merged[i] = conns[i] /\ merged[j] = conns[j]
          BY <4>2, <5>1
        <5> QED BY <4>0, <5>1, <5>2 DEF Together
      <4>4. ASSUME NEW i \in DOMAIN merged, SameGroup(k, i), merged[i] = conns[i], i \in DOMAIN conns
            PROVE  ByteMatches(merged, i) = ByteMatches(conns, i)
        <5>1. ASSUME NEW j \in DOMAIN merged, SameGroup(i, j), Pairs(i, j)
              PROVE  j \in DOMAIN conns /\ merged[j] = conns[j]
          <6>1. SameGroup(k, j)
            BY <4>4, <5>1, PairsMeans
          <6> QED BY <4>2, <4>4, <5>1, <6>1
        <5> QED BY <4>4, <5>1 DEF ByteMatches
      <4>5. ByteMatches(merged, k) = ByteMatches(conns, k)
        <5>1. SameGroup(k, k)
          BY DEF SameGroup
        <5> QED BY <2>1, <4>4, <5>1
      <4>6. ASSUME NEW j \in ByteMatches(conns, k) PROVE ByteMatches(merged, j) = ByteMatches(conns, j)
        <5>1. j \in DOMAIN conns /\ j \in DOMAIN merged /\ SameGroup(k, j) /\ Pairs(k, j) /\ SameGroup(k, k)
          BY DEF ByteMatches, SameGroup
        <5>2. merged[j] = conns[j]
          BY <4>2, <5>1
        <5> QED BY <4>4, <5>1, <5>2
      <4>7. ByteClass(merged, k) = ByteClass(conns, k)
        BY <4>5, <4>6, Zenon DEF ByteClass
      <4> QED BY <4>3, <4>7 DEF Decisive
    <3> QED BY <3>1, <3>2, <3>3
  <2>3. conns[k].class = ByteClass(conns, k)
    BY <2>1, <2>2 DEF ClassesRight
  <2> QED BY <1>3, <2>1, <2>2, <2>3
<1> QED BY <1>4, <1>5

-----------------------------------------------------------------------------
(* The invariant of the classes.                                           *)

\* A chunk of an active generation starts where something was published, and if
\* nothing was published since, its plan keeps the classes right.
Decided(j) ==
  j # NoJob /\ j.mode = "active" =>
    /\ j.from <= gen.published
    /\ j.stage = "ready" /\ gen.id = j.gen /\ gen.published = j.from =>
         ClassesRight(Planned(After(log, gen.conns, j.from, j.to), j.plan))

Classed == Serving \/ gen.status = "materializing"

DecidedInv == /\ Classed => ClassesRight(gen.conns)
              /\ \A w \in Worker : Decided(job[w])

LEMMA DecidedJob ==
  ASSUME AccountingInv, DecidedInv, Still, gen' = gen, NEW w \in Worker, NEW j,
         job' = [job EXCEPT ![w] = j], Decided(j)
  PROVE  DecidedInv'
<1>1. log' = log /\ Classed' = Classed /\ \A v \in Worker : job'[v] = IF v = w THEN j ELSE job[v]
  BY StillSame DEF Classed, Serving, AccountingInv, TypeInv
<1>2. ASSUME NEW v \in Worker PROVE Decided(job[v])'
  <2>1. PICK i : i = job'[v] /\ Decided(i)
    BY <1>1 DEF DecidedInv
  <2>2. Decided(i)'
    BY <1>1, <2>1, Zenon DEF Decided
  <2> QED BY <2>1, <2>2 DEF Decided
<1> QED BY <1>1, <1>2 DEF DecidedInv

LEMMA DecidedGrows ==
  ASSUME AccountingInv, DecidedInv, Grows
  PROVE  DecidedInv'
<1>1. /\ gen' = gen /\ job' = job /\ Classed' = Classed
      /\ Len(log) \in Nat /\ \A i \in 1..Len(log) : log'[i] = log[i]
  BY JournalStays DEF AccountingInv, Classed, Serving
<1>2. ASSUME NEW w \in Worker PROVE Decided(job[w])'
  <2>1. PICK j : j = job[w] /\ Decided(j)
    BY DEF DecidedInv
  <2>2. SUFFICES ASSUME j # NoJob, j.mode = "active" PROVE Decided(j)'
    BY <1>1, <2>1 DEF Decided
  <2>3. PICK from \in Nat, to \in Nat : from = j.from /\ to = j.to /\ from <= to /\ to <= Len(log)
    BY <2>1, <2>2, Working
  <2>4. After(log', gen.conns, from, to) = After(log, gen.conns, from, to)
    <3>1. PICK l, longer, conns : l = log /\ longer = log' /\ conns = gen.conns
      OBVIOUS
    <3>2. \A i \in from+1..to : longer[i] = l[i]
      BY <1>1, <2>3, <3>1
    <3>3. After(longer, conns, from, to) = After(l, conns, from, to)
      BY <2>3, <3>2, AfterAgrees
    <3> QED BY <3>1, <3>3
  <2> QED BY <1>1, <2>1, <2>3, <2>4, Zenon DEF Decided
<1> QED BY <1>1, <1>2 DEF DecidedInv

\* What a chunk makes of what is published is what the journal amounts to.
LEMMA MergedState ==
  ASSUME AccountingInv, Serving, NEW from \in Nat, NEW to \in Nat, from <= to, to <= Len(log),
         from = gen.published, NEW merged, merged = After(log, gen.conns, from, to)
  PROVE  IsState(merged) /\ Timely(merged, to) /\ DOMAIN gen.conns \subseteq DOMAIN merged
<1> USE Before
<1>1. IsState(merged) /\ DOMAIN gen.conns \subseteq DOMAIN merged
      /\ Plain(merged) = After(log, Plain(gen.conns), from, to)
  <2>1. Kept(log, gen.conns, from, to)
    BY MergedIs
  <2> QED BY <2>1 DEF Kept
<1>2. Plain(merged) = After(log, << >>, 0, to)
  <2>1. Plain(gen.conns) = After(log, << >>, 0, from)
    BY DEF Covered, Serving
  <2>2. PICK l, start : l = log /\ start = << >>
    OBVIOUS
  <2>3. PICK zero \in Nat : zero = 0 /\ zero <= from
    OBVIOUS
  <2>4. After(l, After(l, start, zero, from), from, to) = After(l, start, zero, to)
    BY <2>3, AfterJoins
  <2> QED BY <1>1, <2>1, <2>2, <2>3, <2>4
<1> QED BY <1>1, <1>2, JournalIsTimely

LEMMA SettlesDecided ==
  ASSUME AccountingInv, DecidedInv, Still, gen' = gen, NEW w \in Worker, job[w] # NoJob,
         NEW to \in Nat, to <= job[w].to, Settle(w, to)
  PROVE  DecidedInv'
<1>1. CASE to <= job[w].from
  <2>1. job' = [job EXCEPT ![w] = NoJob] /\ Decided(NoJob)
    BY <1>1 DEF Settle, Decided
  <2> QED BY <2>1, DecidedJob
<1>2. CASE ~(to <= job[w].from)
  <2>1. PICK from \in Nat : /\ from = job[w].from /\ from <= to /\ to <= Len(log)
                            /\ job[w] \in Job /\ Fits(w, job[w]) /\ IsState(gen.conns)
    BY <1>2, Working
  <2>2. PICK plan : plan = IF job[w].mode = "active" THEN Prepare(from, to) ELSE NoPlan
    OBVIOUS
  <2>3. PICK j : /\ j = [job[w] EXCEPT !.stage = "ready", !.to = to, !.plan = plan]
                 /\ job' = [job EXCEPT ![w] = j]
    BY <1>2, <2>1, <2>2, Zenon DEF Settle
  <2>4. /\ j.mode = job[w].mode /\ j.from = from /\ j.to = to /\ j.plan = plan
    BY <2>1, <2>3 DEF Job
  <2>5. Decided(j)
    <3> SUFFICES ASSUME j.mode = "active"
                 PROVE  /\ from <= gen.published
                        /\ gen.published = from =>
                             ClassesRight(Planned(After(log, gen.conns, from, to), plan))
      BY <2>4 DEF Decided
    <3>1. from <= gen.published
      BY <2>1, <2>4 DEF DecidedInv, Decided
    <3>2. ASSUME gen.published = from
          PROVE  ClassesRight(Planned(After(log, gen.conns, from, to), plan))
      <4>1. Serving /\ plan = Prepare(from, to)
        BY <2>1, <2>2, <2>4 DEF Fits
      <4>2. PICK merged : merged = After(log, gen.conns, from, to)
        OBVIOUS
      <4>3. IsState(merged) /\ Timely(merged, to) /\ DOMAIN gen.conns \subseteq DOMAIN merged
        BY <2>1, <3>2, <4>1, <4>2, MergedState
      <4>4. /\ DirtyKeys(from, to) \subseteq DOMAIN plan /\ DOMAIN plan \subseteq DOMAIN merged
            /\ ClosedIn(merged, DOMAIN plan)
            /\ \A k \in DOMAIN plan : plan[k] = ClassIn(Restrict(merged, DOMAIN plan), k, to)
            /\ \A k \in DOMAIN merged \ DirtyKeys(from, to) :
                 k \in DOMAIN gen.conns /\ merged[k] = gen.conns[k]
        BY <2>1, <4>1, <4>2, <4>3, PlanIs DEF AccountingInv
      <4>5. ClassesRight(gen.conns)
        BY <4>1 DEF DecidedInv, Classed
      <4>6. PICK conns, dirty : conns = gen.conns /\ dirty = DirtyKeys(from, to)
        OBVIOUS
      <4>7. ClassesRight(Planned(merged, plan))
        BY <4>3, <4>4, <4>5, <4>6, PlanDecides
      <4> QED BY <4>2, <4>7
    <3> QED BY <3>1, <3>2
  <2> QED BY <2>3, <2>5, DecidedJob
<1> QED BY <1>1, <1>2

LEMMA ChunksDecided ==
  ASSUME AccountingInv, DecidedInv, NEW w \in Worker,
         StartTick(w) \/ Measure(w) \/ Verify(w) \/ GivesUp(w)
  PROVE  DecidedInv'
<1>1. Still /\ gen' = gen
  BY DEF StartTick, Measure, Verify, GivesUp, Still
<1>2. CASE StartTick(w)
  <2>1. PICK j : /\ j.stage = "measure" /\ j.mode = gen.status /\ j.from = Pending.from
                 /\ job' = [job EXCEPT ![w] = j]
    BY <1>2, Zenon DEF StartTick
  <2>2. j.mode = "active" => j.from = gen.published
    BY <2>1 DEF Pending
  <2>3. gen.published \in Nat
    BY Before
  <2>4. Decided(j)
    BY <2>1, <2>2, <2>3 DEF Decided
  <2> QED BY <1>1, <2>1, <2>4, DecidedJob
<1>3. CASE Measure(w)
  <2>1. job[w] # NoJob /\ job[w].stage = "measure"
    BY <1>3 DEF Measure, NoJob
  <2>2. /\ job[w] \in Job /\ job[w].to \in DOMAIN log /\ DOMAIN log = 1..Len(log) /\ Len(log) \in Nat
    BY <2>1, Working
  <2> DEFINE frame == InFrameOf(job[w].to)
  <2>3. CASE Max(frame) > job[w].boundary
    <3>1. Settle(w, Min(frame) - 1)
      BY <1>3, <2>3, Zenon DEF Measure
    <3>2. Min(frame) \in 1..job[w].to /\ job[w].to \in Nat
      BY <2>2, FrameBegins DEF AccountingInv
    <3>3. Min(frame) - 1 \in Nat /\ Min(frame) - 1 <= job[w].to
      BY <3>2
    <3> HIDE DEF frame
    <3> QED BY <1>1, <2>1, <3>1, <3>3, SettlesDecided
  <2>4. CASE ~(Max(frame) > job[w].boundary)
    <3>1. job' = [job EXCEPT ![w].stage = "verify", ![w].to = Max(frame)]
      BY <1>3, <2>4, Zenon DEF Measure
    <3>2. PICK j : j = [job[w] EXCEPT !.stage = "verify", !.to = Max(frame)]
      OBVIOUS
    <3>3. job' = [job EXCEPT ![w] = j]
      <4>1. job \in [Worker -> {NoJob} \cup Job]
        BY DEF AccountingInv, TypeInv
      <4> HIDE DEF frame
      <4> QED BY <2>2, <3>1, <3>2, <4>1
    <3>4. j.stage = "verify" /\ j.mode = job[w].mode /\ j.from = job[w].from
      <4> HIDE DEF frame
      <4> QED BY <2>2, <3>2 DEF Job
    <3>5. Decided(j)
      BY <2>1, <3>4 DEF Decided, DecidedInv
    <3> QED BY <1>1, <3>3, <3>5, DecidedJob
  <2> QED BY <2>3, <2>4
<1>4. CASE Verify(w)
  <2>1. job[w] # NoJob /\ job[w].stage = "verify"
    BY <1>4 DEF Verify, NoJob
  <2>2. PICK i \in DOMAIN log : i = job[w].to /\ i \in Nat
    BY <2>1, Working
  <2>3. Min(InFrameOf(i)) \in 1..i
    BY FrameBegins DEF AccountingInv
  <2>4. PICK to : to \in Nat /\ to <= i /\ Settle(w, to)
    <3>1. CASE FrameIsComplete(i, job[w].boundary)
      BY <1>4, <2>2, <3>1 DEF Verify
    <3>2. CASE ~FrameIsComplete(i, job[w].boundary)
      <4>1. Settle(w, Min(InFrameOf(i)) - 1)
        BY <1>4, <2>2, <3>2, Zenon DEF Verify
      <4>2. Min(InFrameOf(i)) - 1 \in Nat /\ Min(InFrameOf(i)) - 1 <= i
        BY <2>2, <2>3
      <4> QED BY <4>1, <4>2
    <3> QED BY <3>1, <3>2
  <2> QED BY <1>1, <2>1, <2>2, <2>4, SettlesDecided
<1>5. CASE GivesUp(w)
  <2>1. job' = [job EXCEPT ![w] = NoJob] /\ Decided(NoJob)
    BY <1>5 DEF GivesUp, Done, Decided
  <2> QED BY <1>1, <2>1, DecidedJob
<1> QED BY <1>2, <1>3, <1>4, <1>5

LEMMA CommitDecided ==
  ASSUME AccountingInv, DecidedInv, NEW w \in Worker, Commit(w)
  PROVE  DecidedInv'
<1>1. /\ Still /\ job[w] # NoJob /\ job[w].stage = "ready" /\ job[w].mode = "active"
      /\ job' = [job EXCEPT ![w] = NoJob] /\ Decided(NoJob)
      /\ gen' = IF Untouched(w) THEN Published(job[w].from, job[w].to, job[w].plan) ELSE gen
  BY DEF Commit, Done, Ready, Still, NoJob, Decided
<1>2. CASE ~Untouched(w)
  BY <1>1, <1>2, DecidedJob
<1>3. CASE Untouched(w)
  <2>0. PICK plan : plan = job[w].plan
    OBVIOUS
  <2>1. PICK from \in Nat, to \in Nat :
          /\ from = job[w].from /\ to = job[w].to /\ from < to
          /\ from = gen.published /\ gen.id = job[w].gen
    <3>1. job[w].from \in Nat /\ job[w].to \in Nat /\ job[w].from < job[w].to
      BY <1>1, Working
    <3> QED BY <1>3, <3>1 DEF Untouched
  <2>2. PICK conns : conns = Planned(After(log, gen.conns, from, to), plan)
    OBVIOUS
  <2>3. ClassesRight(conns)
    BY <1>1, <2>0, <2>1, <2>2 DEF DecidedInv, Decided
  <2>4. gen'.conns = conns /\ gen'.published = to
    <3>1. PICK rows, g : rows = NewRows(from, to, plan) /\ g = Correct(gen, plan)
      OBVIOUS
    <3>2. DOMAIN g = DOMAIN gen
      <4>1. PICK rows2, exact, estimated, counted :
              g = [gen EXCEPT !.rows = rows2, !.exact = exact, !.estimated = estimated, !.counted = counted]
        BY <3>1, Zenon DEF Correct
      <4> QED BY <4>1
    <3>3. DOMAIN Insert(g, rows) = DOMAIN gen
      <4>1. PICK rows2, exact, estimated, counted :
              Insert(g, rows) =
                [g EXCEPT !.rows = rows2, !.exact = exact, !.estimated = estimated, !.counted = counted]
        BY Zenon DEF Insert
      <4> QED BY <3>2, <4>1
    <3>4. MergeRange(gen.conns, from, to) = After(log, gen.conns, from, to)
      BY MergeIsAfter
    <3>5. conns = Planned(MergeRange(gen.conns, from, to), plan)
      BY <2>2, <3>4
    <3>6. PICK i : /\ i = Insert(g, rows)
                   /\ gen' = [i EXCEPT !.conns = conns, !.published = to,
                                       !.raw = @ + AddedBytes(rows),
                                       !.acc = @ + AddedAccounted(rows) + Total(Corrections(gen, plan))]
      BY <1>1, <1>3, <2>0, <2>1, <3>1, <3>5, Zenon DEF Published, Planned
    <3>7. "conns" \in DOMAIN i /\ "published" \in DOMAIN i
      BY <3>3, <3>6, Before DEF Generation
    <3> QED BY <3>6, <3>7
  <2>5. ASSUME NEW v \in Worker PROVE Decided(job[v])'
    <3>1. PICK j : j = job'[v] /\ (j = NoJob \/ j = job[v])
      BY <1>1, Before
    <3>2. j # NoJob /\ j.mode = "active" => j.from \in Nat /\ j.from <= gen.published
      BY <3>1, Working DEF DecidedInv, Decided
    <3>3. j # NoJob /\ j.mode = "active" => j.from <= gen'.published /\ gen'.published # j.from
      BY <2>1, <2>4, <3>2
    <3>4. Decided(j)'
      BY <3>3 DEF Decided
    <3> QED BY <3>1, <3>4 DEF Decided
  <2> QED BY <2>3, <2>4, <2>5 DEF DecidedInv
<1> QED BY <1>2, <1>3

\* A classified state has the classes of the bytes.
LEMMA ClassifiedRight ==
  ASSUME NEW conns, IsState(conns), NEW to, Timely(conns, to)
  PROVE  ClassesRight(Classified(conns, to))
<1> DEFINE new == Classified(conns, to)
<1>1. new = [k \in DOMAIN conns |-> [conns[k] EXCEPT !.class = ClassIn(conns, k, to)]]
  BY Zenon DEF Classified
<1>2. DOMAIN new = DOMAIN conns
  BY <1>1
<1>3. ASSUME NEW k \in DOMAIN conns
      PROVE  /\ new[k].class = ClassIn(conns, k, to)
             /\ new[k].bytes = conns[k].bytes /\ EndOf(new[k]) = EndOf(conns[k])
  <2>1. PICK row \in Row : row = conns[k]
    BY DEF IsState
  <2>2. PICK c : c = ClassIn(conns, k, to) /\ new[k] = [row EXCEPT !.class = c]
    BY <1>1, <2>1
  <2> HIDE DEF new
  <2> QED BY <2>1, <2>2 DEF Row, EndOf
<1> HIDE DEF new
<1>4. Alike(conns, new)
  BY <1>2, <1>3 DEF Alike
<1>5. ASSUME NEW k \in DOMAIN new, Decisive(new, k) PROVE new[k].class = ByteClass(new, k)
  <2>1. k \in DOMAIN conns /\ Decisive(conns, k) /\ ByteClass(new, k) = ByteClass(conns, k)
    BY <1>2, <1>4, <1>5, AlikeDecide
  <2>2. ClassIn(conns, k, to) = ByteClass(conns, k)
    BY <2>1, ClassifiedByBytes
  <2> QED BY <1>3, <2>1, <2>2
<1>6. ClassesRight(new)
  BY <1>5 DEF ClassesRight
<1> QED BY <1>6 DEF new

LEMMA IdleDecided == Idle' => \A w \in Worker : Decided(job[w])'
BY DEF Idle, Decided

LEMMA SeedDecided ==
  ASSUME AccountingInv, DecidedInv, NEW w \in Worker,
         \/ CreateSeed(w) \/ SeedChunk(w) \/ ClassifySeed(w) \/ MaterializeChunk(w)
         \/ Activate(w) \/ ActivationFails(w)
  PROVE  DecidedInv'
<1> USE Before
<1>1. CASE CreateSeed(w)
  <2>1. Idle' /\ gen'.status = "seeding"
    BY <1>1 DEF CreateSeed, Alone, Idle, NewGen
  <2> QED BY <2>1, IdleDecided DEF DecidedInv, Classed, Serving
<1>2. CASE SeedChunk(w)
  <2>1. gen.status = "seeding" /\ Idle'
    BY <1>2, SeedWork DEF SeedChunk
  <2>2. gen'.status = gen.status
    BY <1>2 DEF SeedChunk, Generation
  <2> QED BY <2>1, <2>2, IdleDecided DEF DecidedInv, Classed, Serving
<1>3. CASE ClassifySeed(w)
  <2>1. Idle' /\ gen.seedLast = gen.boundary /\ Covered = gen.boundary
    BY <1>3 DEF ClassifySeed, Alone, Idle, Covered
  <2>2. PICK conns : conns = Classified(gen.conns, gen.boundary)
    OBVIOUS
  <2>3. gen'.conns = conns
    BY <1>3, <2>2 DEF ClassifySeed, Generation
  <2>4. Timely(gen.conns, gen.boundary)
    BY <2>1, JournalIsTimely
  <2>5. ClassesRight(conns)
    BY <2>2, <2>4, ClassifiedRight
  <2> QED BY <2>1, <2>3, <2>5, IdleDecided DEF DecidedInv
<1>4. CASE MaterializeChunk(w)
  <2>1. gen.status = "materializing" /\ Idle'
    BY <1>4, SeedWork DEF MaterializeChunk
  <2>2. gen'.conns = gen.conns
    <3>1. PICK rows, to : gen' = [Insert(gen, rows) EXCEPT !.matLast = to]
      BY <1>4, Zenon DEF MaterializeChunk
    <3>2. PICK rows2, exact, estimated, counted :
            Insert(gen, rows) =
              [gen EXCEPT !.rows = rows2, !.exact = exact, !.estimated = estimated, !.counted = counted]
      BY Zenon DEF Insert
    <3> QED BY <3>1, <3>2 DEF Generation
  <2> QED BY <2>1, <2>2, IdleDecided DEF DecidedInv, Classed
<1>5. CASE Activate(w)
  <2>1. Idle' /\ gen.status = "materializing" /\ gen'.conns = gen.conns
    BY <1>5 DEF Activate, Materialized, Alone, Idle, Generation
  <2> QED BY <2>1, IdleDecided DEF DecidedInv, Classed
<1>6. CASE ActivationFails(w)
  <2>1. Idle' /\ gen'.status = "failed"
    BY <1>6 DEF ActivationFails, Materialized, Alone, Idle, Generation
  <2> QED BY <2>1, IdleDecided DEF DecidedInv, Classed, Serving
<1> QED BY <1>1, <1>2, <1>3, <1>4, <1>5, <1>6

LEMMA ClassesKept == AccountingInv /\ DecidedInv /\ [Next]_vars => DecidedInv'
<1> SUFFICES ASSUME AccountingInv, DecidedInv, [Next]_vars PROVE DecidedInv'
  OBVIOUS
<1>1. CASE Grows
  BY <1>1, DecidedGrows
<1>2. ASSUME NEW w \in Worker, Work(w) \/ GivesUp(w) \/ ActivationFails(w) PROVE DecidedInv'
  BY <1>2, ChunksDecided, CommitDecided, SeedDecided DEF Work
<1>3. CASE Supersede \/ UNCHANGED vars
  <2>1. /\ log' = log /\ job' = job /\ gen'.conns = gen.conns /\ gen'.published = gen.published
        /\ gen'.id = gen.id
        /\ Classed' => Classed
    BY <1>3, Before DEF Supersede, vars, growthVars, Generation, Classed, Serving
  <2>2. ASSUME NEW w \in Worker PROVE Decided(job[w])'
    <3>1. PICK j : j = job[w] /\ Decided(j)
      BY DEF DecidedInv
    <3>2. /\ After(log', gen'.conns, j.from, j.to) = After(log, gen.conns, j.from, j.to)
          /\ gen'.published = gen.published /\ gen'.id = gen.id
      BY <2>1
    <3>3. Decided(j)'
      BY <3>1, <3>2 DEF Decided
    <3> QED BY <2>1, <3>1, <3>3 DEF Decided
  <2>3. Classed' => ClassesRight(gen.conns)'
    <3>1. Classed => ClassesRight(gen.conns)
      BY DEF DecidedInv
    <3>2. PICK c : c = gen.conns /\ c = gen'.conns
      BY <2>1
    <3> QED BY <2>1, <3>1, <3>2
  <2> QED BY <2>2, <2>3 DEF DecidedInv
<1> QED BY <1>1, <1>2, <1>3 DEF Next, Grows

\* Where partners end together, a generation that only ever looked at the
\* connections near a chunk has the state and the classes a rebuild would give.
THEOREM ClosureDecides == Spec => []ClosureIsEnough
<1>1. Init => DecidedInv
  BY DEF Init, NewGen, DecidedInv, Classed, Serving, Decided
<1>2. AccountingInv /\ DecidedInv => ClosureIsEnough
  <2> SUFFICES ASSUME AccountingInv, DecidedInv, Active, PairsEndTogether
               PROVE  gen.conns = FromScratch
    BY DEF ClosureIsEnough
  <2> USE Before
  <2>1. PICK n \in Nat : n = gen.published /\ n <= Len(log)
    OBVIOUS
  <2>2. PICK base : /\ base = Plain(gen.conns) /\ base = MergeRange(<< >>, 0, n)
                    /\ base = After(log, << >>, 0, n)
    <3>1. Covered = n
      BY <2>1 DEF Covered, Active
    <3>2. MergeRange(<< >>, 0, n) = After(log, << >>, 0, n)
      BY MergeIsAfter
    <3> QED BY <3>1, <3>2
  <2>3. /\ IsState(base) /\ DOMAIN base = DOMAIN gen.conns
        /\ \A k \in DOMAIN gen.conns : base[k] = [gen.conns[k] EXCEPT !.class = "unique"]
    BY <2>1, <2>2, FromStart DEF Plain
  <2>4. Timely(base, n)
    <3>1. Timely(gen.conns, n)
      BY <2>1, <2>2, JournalIsTimely
    <3>2. ASSUME NEW k \in DOMAIN gen.conns
          PROVE  base[k].first = gen.conns[k].first /\ base[k].last = gen.conns[k].last
      <4>1. PICK row \in Row : row = gen.conns[k] /\ base[k] = [row EXCEPT !.class = "unique"]
        BY <2>3 DEF IsState
      <4> QED BY <4>1 DEF Row
    <3> QED BY <2>3, <3>1, <3>2 DEF Timely
  <2>5. Alike(gen.conns, base)
    <3>1. ASSUME NEW k \in DOMAIN gen.conns
          PROVE  base[k].bytes = gen.conns[k].bytes /\ EndOf(base[k]) = EndOf(gen.conns[k])
      <4>1. PICK row \in Row : row = gen.conns[k] /\ base[k] = [row EXCEPT !.class = "unique"]
        BY <2>3 DEF IsState
      <4> QED BY <4>1 DEF Row, EndOf
    <3> QED BY <2>3, <3>1 DEF Alike
  <2>6. ASSUME NEW k \in DOMAIN gen.conns
        PROVE  [base[k] EXCEPT !.class = ClassIn(base, k, n)] = gen.conns[k]
    <3>1. Decisive(gen.conns, k)
      BY DEF Decisive, Together, PairsEndTogether, Pairs, SameGroup
    <3>2. ClassIn(base, k, n) = ByteClass(base, k)
      BY <2>3, <2>4, <2>5, <3>1, AlikeDecide, ClassifiedByBytes
    <3>3. ByteClass(base, k) = ByteClass(gen.conns, k)
      BY <2>5, AlikeDecide
    <3>4. gen.conns[k].class = ByteClass(gen.conns, k)
      BY <3>1 DEF DecidedInv, Classed, Serving, Active, ClassesRight
    <3>5. PICK row \in Row : row = gen.conns[k] /\ base[k] = [row EXCEPT !.class = "unique"]
      BY <2>3 DEF IsState
    <3>6. [[row EXCEPT !.class = "unique"] EXCEPT !.class = row.class] = row
      BY DEF Row
    <3> QED BY <3>2, <3>3, <3>4, <3>5, <3>6
  <2>7. FromScratch = [k \in DOMAIN base |-> [base[k] EXCEPT !.class = ClassIn(base, k, n)]]
    BY <2>1, <2>2, Zenon DEF FromScratch, Classified
  <2>8. gen.conns = [k \in DOMAIN gen.conns |-> gen.conns[k]]
    BY DEF IsState
  <2> QED BY <2>3, <2>6, <2>7, <2>8
<1>3. AccountingInv /\ DecidedInv /\ [Next]_vars => DecidedInv'
  BY ClassesKept
<1> QED BY <1>1, <1>2, <1>3, Accounts, PTL DEF Spec

=============================================================================
