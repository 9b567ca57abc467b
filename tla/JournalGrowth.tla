--------------------------- MODULE JournalGrowth ---------------------------
(***************************************************************************)
(* What the collector promises to those who read its journal while it      *)
(* writes: in which order the events of a session, a frame and a           *)
(* connection follow each other, and that sessions do not overlap.         *)
(* Accounting is written against this; Collector is shown to keep it.      *)
(*                                                                         *)
(* An event is a record with at least                                      *)
(*   session, epoch, frame                                                 *)
(*   type   "New" (also a bootstrap), "Gone", "Seen" (any other event that *)
(*          names a connection), "Residual", or "Other"                    *)
(*   conn   for the first three                                            *)
(***************************************************************************)
EXTENDS Naturals, Sequences, SequencesExt

VARIABLES
  log,      \* the journal, in the order of journal_sequence
  running   \* session -> whether its status is "running"

growthVars == <<log, running>>

ConnTypes == {"New", "Seen", "Gone"}
NamesConn(e) == e.type \in ConnTypes

Current == Len(running)
Events(l, s) == {i \in DOMAIN l : l[i].session = s}
Latest(l, s, field) ==
  LET mine == Events(l, s)
  IN  IF mine = {} THEN 0 ELSE l[CHOOSE i \in mine : \A j \in mine : j <= i][field]

\* Where a connection of one session and epoch begins or ends.
Life(l, e) ==
  {i \in Events(l, e.session) :
     l[i].epoch = e.epoch /\ l[i].type \in {"New", "Gone"} /\ l[i].conn = e.conn}
Known(l, e) == Life(l, e) # {}
Live(l, e) == \E i \in Life(l, e) : l[i].type = "New" /\ \A j \in Life(l, e) : j <= i

InFrame(l, s, n, type) ==
  \E i \in Events(l, s) : l[i].frame = n /\ l[i].type = type
Finished(l, s, n) == InFrame(l, s, n, "Residual")

\* A frame is complete with its residual, and only then does the next begin;
\* what happens between two frames carries the number of the last.  Within a
\* frame the connections there are come before those that are gone.
InFrameOrder(e) ==
  LET n == Latest(log, e.session, "frame")
  IN  \/ /\ e.frame = n
         /\ e.type # "Other" => n > 0 /\ ~Finished(log, e.session, n)
         /\ e.type \in {"New", "Seen"} => ~InFrame(log, e.session, n, "Gone")
      \/ e.frame = n + 1 /\ (n = 0 \/ Finished(log, e.session, n))

\* A connection is new before it is anything else, and gone only once.
InLifeOrder(e) ==
  CASE e.type = "New"  -> ~Live(log, e)
    [] e.type = "Seen" -> Known(log, e)
    [] e.type = "Gone" -> Live(log, e)
    [] OTHER -> TRUE

MayFollow(e) ==
  /\ Current > 0 /\ running[Current] /\ e.session = Current
  /\ e.epoch >= Latest(log, e.session, "epoch")
  /\ InFrameOrder(e)
  /\ InLifeOrder(e)

Appends(e) == MayFollow(e) /\ log' = Append(log, e) /\ UNCHANGED running

\* A new session ends what the one before it left running.
Begins == running' = Append([s \in DOMAIN running |-> FALSE], TRUE) /\ UNCHANGED log

Ends ==
  /\ Current > 0 /\ running[Current]
  /\ running' = [running EXCEPT ![Current] = FALSE]
  /\ UNCHANGED log

GrowthInit == log = << >> /\ running = << >>
GrowthNext ==
  \/ Len(log') = Len(log) + 1 /\ Appends(Last(log'))
  \/ Begins
  \/ Ends

GrowthSpec == GrowthInit /\ [][GrowthNext]_growthVars
=============================================================================
