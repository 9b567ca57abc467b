-------------------------- MODULE Classification --------------------------
(***************************************************************************)
(* The operators accounting is computed with: the state of a connection    *)
(* summed up from the journal, which connections are a relay's copy of an  *)
(* application's, and how bytes spread over hours (accounting_classify.go, *)
(* allocator.go, accounting_v2.go).                                        *)
(*                                                                         *)
(* A connection is an application's (it names process and rule), a relay   *)
(* candidate, or neither.  Candidates and applications share their first   *)
(* hop, and traffic within five per cent is the same number of bytes, each *)
(* of which stands for more than 500.  A frame has one time, its number.   *)
(***************************************************************************)
EXTENDS JournalGrowth, Integers, FiniteSetsExt

CONSTANTS App, Relay, FramesPerHour

ASSUME RolesAssumption == /\ App \cap Relay = {}
                          /\ FramesPerHour \in Nat \ {0}

NoFrame == 0
Classes == {"unique", "missing", "ambiguous", "confirmed"}

\* The key of the connection an event names: session, epoch and connection ID.
KeyOf(e) == <<e.session, e.epoch, e.conn>>
SameGroup(k, j) == k[1] = j[1] /\ k[2] = j[2]

-----------------------------------------------------------------------------
(* Connection state: a function from keys to rows.                         *)

NewRow(e) ==
  [first |-> e.frame, last |-> e.frame, gone |-> NoFrame, bytes |-> 0,
   class |-> "unique"]

\* A function where it is defined, and another elsewhere.
With(new, old) ==
  [x \in DOMAIN new \cup DOMAIN old |-> IF x \in DOMAIN new THEN new[x] ELSE old[x]]

\* "New" opens again what was gone.
GoneAfter(e, gone) ==
  CASE e.type = "Gone" -> e.frame
    [] e.type = "New"  -> NoFrame
    [] OTHER           -> gone

Advanced(row, e) ==
  [row EXCEPT !.last = e.frame, !.bytes = @ + e.bytes, !.gone = GoneAfter(e, @)]

\* mergeEvent and the upsert.
Merge(conns, e) ==
  IF ~NamesConn(e) THEN conns
  ELSE With([k \in {KeyOf(e)} |->
               Advanced(IF k \in DOMAIN conns THEN conns[k] ELSE NewRow(e), e)], conns)

\* The state after the events of the journal range (from, to].
MergeRange(conns, from, to) ==
  LET state[n \in from..to] == IF n = from THEN conns ELSE Merge(state[n - 1], log[n])
  IN  state[to]

\* boundaryFrameTimeForGroup: the last frame of the key's group on record.
BoundaryFrame(k, to) ==
  LET mine == {i \in 1..to : /\ SameGroup(k, <<log[i].session, log[i].epoch>>)
                             /\ log[i].type # "Other"}
  IN  IF mine = {} THEN NoFrame ELSE log[Max(mine)].frame

\* The frame a connection ended in; one seen after that has not ended.
EndOf(row) == IF row.gone >= row.last THEN row.gone ELSE NoFrame

\* A connection that has not ended was there in the group's last frame.
EffectiveLastObs(row, boundary) ==
  IF EndOf(row) # NoFrame THEN EndOf(row)
  ELSE IF boundary = NoFrame THEN row.last
  ELSE boundary

-----------------------------------------------------------------------------
(* classifyConnectionGroup, for every group among the keys of `conns`.     *)

Pairs(k, j) == \/ k[3] \in Relay /\ j[3] \in App
               \/ k[3] \in App /\ j[3] \in Relay

SameTraffic(a, b) == a > 0 /\ a = b

Overlap(conns, k, j, to) ==
  /\ conns[k].first <= EffectiveLastObs(conns[j], BoundaryFrame(j, to))
  /\ conns[j].first <= EffectiveLastObs(conns[k], BoundaryFrame(k, to))

Matches(conns, k, to) ==
  {j \in DOMAIN conns : /\ SameGroup(k, j) /\ Pairs(k, j)
                        /\ SameTraffic(conns[k].bytes, conns[j].bytes)
                        /\ Overlap(conns, k, j, to)}

\* A candidate is a copy only of an application connection it alone matches.
ClassIn(conns, k, to) ==
  LET matched == Matches(conns, k, to)
  IN  IF k[3] \in App THEN "unique"
      ELSE IF matched = {} THEN "missing"
      ELSE IF \E j \in matched : matched = {j} /\ Matches(conns, j, to) = {k}
        THEN "confirmed"
      ELSE "ambiguous"

Classified(conns, to) ==
  [k \in DOMAIN conns |-> [conns[k] EXCEPT !.class = ClassIn(conns, k, to)]]

\* The sum of `amount`, a function of journal sequences.
Total(amount) ==
  LET sum[n \in 0..Len(log)] ==
        IF n = 0 THEN 0
        ELSE IF n \in DOMAIN amount THEN sum[n - 1] + amount[n] ELSE sum[n - 1]
  IN  sum[Len(log)]

Accounted(bytes, class) == IF class = "confirmed" THEN 0 ELSE bytes

-----------------------------------------------------------------------------
(* Hours, of frames.                                                       *)

HourOf(frame) == frame \div FramesPerHour

\* IntervalAllocator.F and Allocate, for `total` spread over [start, end).
Cumulative(t, start, end, total) ==
  CASE t <= start -> 0
    [] t >= end   -> total
    [] total <= 0 -> 0
    [] OTHER      -> (total * (t - start)) \div (end - start)

Share(from, to, start, end, total) ==
  Max({0, Cumulative(to, start, end, total) - Cumulative(from, start, end, total)})

IsExact(e) == e.from = NoFrame

HoursOf(e) ==
  IF IsExact(e) THEN {HourOf(e.frame)}
  ELSE {HourOf(t) : t \in e.from .. (e.frame - 1)}

\* allocateAccountedRowBuckets: how much of `total`, which a correction makes
\* negative, falls into `hour`.
InHour(e, hour, total) ==
  IF IsExact(e) THEN total
  ELSE Share(Max({e.from, hour * FramesPerHour}),
             Min({e.frame, (hour + 1) * FramesPerHour}), e.from, e.frame, total)
=============================================================================
