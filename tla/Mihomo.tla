------------------------------- MODULE Mihomo -------------------------------
(***************************************************************************)
(* The proxy core as the collector sees it through the controller stream:  *)
(* connections with an ID, a start, monotone byte counters, metadata and   *)
(* chains, and global totals that start again from zero with the process.  *)
(* External: written from how collector/pkg/client and pkg/state use it.   *)
(***************************************************************************)
EXTENDS Connections

CONSTANTS MaxCounter, MaxStarts, MaxTotal   \* bounds

ASSUME BoundsAssumption == {MaxCounter, MaxStarts, MaxTotal} \subseteq Nat

VARIABLES
  conns,   \* connection ID -> its current or last incarnation
  total    \* bytes carried since Mihomo started

mihomoVars == <<conns, total>>

MihomoInit ==
  /\ conns \in [Conn -> [live : {FALSE}, start : {0}, ctr : {[d \in Dir |-> 0]},
                         meta : Meta]]
  /\ total = [d \in Dir |-> 0]

LiveConns == {id \in Conn : conns[id].live}

Open(id, m) ==
  /\ ~conns[id].live /\ conns[id].start < MaxStarts
  /\ conns' = [conns EXCEPT ![id] = [live |-> TRUE, start |-> @.start + 1,
                                     ctr |-> [d \in Dir |-> 0], meta |-> m]]
  /\ UNCHANGED total

Carry(id, d) ==
  /\ conns[id].live /\ conns[id].ctr[d] < MaxCounter /\ total[d] < MaxTotal
  /\ conns' = [conns EXCEPT ![id].ctr[d] = @ + 1]
  /\ total' = [total EXCEPT ![d] = @ + 1]

\* Rules and chains of a live connection may be re-evaluated.
Reroute(id, m) ==
  /\ conns[id].live /\ conns[id].meta # m
  /\ conns' = [conns EXCEPT ![id].meta = m]
  /\ UNCHANGED total

Shut(id) ==
  /\ conns[id].live
  /\ conns' = [conns EXCEPT ![id].live = FALSE]
  /\ UNCHANGED total

Restart ==
  /\ total # [d \in Dir |-> 0]
  /\ conns' = [id \in Conn |-> [conns[id] EXCEPT !.live = FALSE]]
  /\ total' = [d \in Dir |-> 0]

\* A snapshot may leave live connections out for a frame.
Snapshot(missing) ==
  [id \in LiveConns \ missing |->
     [start |-> conns[id].start, ctr |-> conns[id].ctr, meta |-> conns[id].meta]]
=============================================================================
