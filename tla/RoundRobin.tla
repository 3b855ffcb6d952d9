----------------------------- MODULE RoundRobin -----------------------------
(***************************************************************************)
(* internal/balancer/round_robin.go: concurrent GetServer calls over a     *)
(* pool that changes meanwhile.  A call lists the pool, draws a ticket     *)
(* with one atomic Add on a 32-bit counter, and reads one health flag      *)
(* after the other from the ticket's place on.                             *)
(***************************************************************************)
EXTENDS BackendPool

CONSTANTS
  Caller,       \* the goroutines that select a backend
  NoPick,       \* no backend was picked
  CounterMod    \* the counter's modulus: 2^32 in the code

ASSUME RoundRobinAssumption ==
  /\ NoPick \notin Backend
  /\ CounterMod \in Nat \ {0}

VARIABLES
  current,    \* rrs.current
  pc,         \* "idle", "draw", "scan", "done" (returned)
  list,       \* the caller's ListBackends
  start,      \* its ticket
  i,          \* its loop index
  picked,     \* what it returned: a backend, or NoPick for ErrNoBackends
  steady,     \* history: the flags that have been up since the call's listing
  later       \* history: how many tickets were drawn after the call's own

callVars == <<pc, list, start, i, picked>>
vars     == <<poolVars, current, callVars, steady, later>>

\* Mutant: the loop forgets its index.
SlotStuck(s, k, n) == s % n

\* backends[(start+i)%n]: the sum is a uint32 and wraps before the remainder
Slot(s, k, n) == ((s + k) % CounterMod) % n

Probed(c, k) == list[c][Slot(start[c], k, Len(list[c])) + 1]

Goto(c, l) == pc' = [pc EXCEPT ![c] = l]

----------------------------------------------------------------------------

RRInit ==
  /\ Init
  /\ current = 0
  /\ pc = [c \in Caller |-> "idle"]
  /\ list = [c \in Caller |-> << >>]
  /\ start = [c \in Caller |-> 0]
  /\ i = [c \in Caller |-> 0]
  /\ picked = [c \in Caller |-> NoPick]
  /\ steady = [c \in Caller |-> {}]
  /\ later = [c \in Caller |-> 0]

\* backends := rrs.reg.ListBackends(); an empty pool draws no ticket
List(c) ==
  /\ pc[c] = "idle"
  /\ list' = [list EXCEPT ![c] = pool]
  /\ Goto(c, IF pool = << >> THEN "done" ELSE "draw")
  /\ UNCHANGED <<current, start, i, picked>>

\* Mutants: the new value is the ticket; the loop starts behind the ticket's
\* place.
TicketAfter == (current + 1) % CounterMod

SecondTurn == 1

Ticket == current

FirstTurn == 0

\* start := rrs.current.Add(1) - 1
Draw(c) ==
  /\ pc[c] = "draw"
  /\ start' = [start EXCEPT ![c] = Ticket]
  /\ current' = (current + 1) % CounterMod
  /\ i' = [i EXCEPT ![c] = FirstTurn]
  /\ Goto(c, "scan")
  /\ UNCHANGED <<list, picked>>

\* one turn of the loop, or ErrNoBackends after the last
Scan(c) ==
  /\ pc[c] = "scan"
  /\ \/ /\ i[c] < Len(list[c]) /\ healthy[Probed(c, i[c])]
        /\ picked' = [picked EXCEPT ![c] = Probed(c, i[c])]
        /\ Goto(c, "done")
        /\ UNCHANGED i
     \/ /\ i[c] < Len(list[c]) /\ ~healthy[Probed(c, i[c])]
        /\ i' = [i EXCEPT ![c] = @ + 1]
        /\ UNCHANGED <<pc, picked>>
     \/ /\ i[c] = Len(list[c])
        /\ Goto(c, "done")
        /\ UNCHANGED <<i, picked>>
  /\ UNCHANGED <<current, list, start>>

Return(c) ==
  /\ pc[c] = "done"
  /\ Goto(c, "idle")
  /\ list' = [list EXCEPT ![c] = << >>]
  /\ start' = [start EXCEPT ![c] = 0]
  /\ i' = [i EXCEPT ![c] = 0]
  /\ picked' = [picked EXCEPT ![c] = NoPick]
  /\ UNCHANGED current

Call(c) == List(c) \/ Draw(c) \/ Scan(c) \/ Return(c)

\* The history covers a call from its listing to its return; later counts
\* modulo CounterMod.
Track ==
  LET Up == { b \in Backend : healthy'[b] }
      drawn == Cardinality({ c \in Caller : pc[c] = "draw" /\ pc'[c] = "scan" })
  IN  /\ steady' = [c \in Caller |->
           CASE pc'[c] = "idle" -> {}
             [] pc[c] = "idle"  -> Up
             [] pc[c] = "done"  -> steady[c]
             [] OTHER           -> steady[c] \cap Up]
      /\ later' = [c \in Caller |->
           IF pc[c] = "scan" /\ pc'[c] = "scan"
             THEN (later[c] + drawn) % CounterMod ELSE 0]

RRNext ==
  /\ \/ Next /\ UNCHANGED <<current, callVars>>
     \/ (\E c \in Caller : Call(c)) /\ UNCHANGED poolVars
  /\ Track

RRSpec == RRInit /\ [][RRNext]_vars

----------------------------------------------------------------------------

InCall(c) == pc[c] \in {"scan", "done"} /\ list[c] # << >>

Wraps(c) == start[c] + Len(list[c]) > CounterMod

\* Types; a scan never indexes outside the list it holds.
RRTypeOK ==
  /\ TypeOK
  /\ current \in 0..(CounterMod - 1)
  /\ pc \in [Caller -> {"idle", "draw", "scan", "done"}]
  /\ list \in [Caller -> Seq(Backend)]
  /\ start \in [Caller -> 0..(CounterMod - 1)]
  /\ i \in [Caller -> Nat]
  /\ \A c \in Caller : i[c] <= Len(list[c])
  /\ picked \in [Caller -> Backend \cup {NoPick}]
  /\ steady \in [Caller -> SUBSET Backend]
  /\ later \in [Caller -> 0..(CounterMod - 1)]

\* No ticket of the rotation is lost or given to two calls, however listings
\* and draws interleave: between a call's ticket and the counter lie exactly
\* the tickets the others drew since.
TicketsExact ==
  \A c \in Caller : pc[c] = "scan" =>
    current = (start[c] + 1 + later[c]) % CounterMod

\* A selection passes a backend over only if that backend was seen down during
\* the call: among the backends that stayed up, the one whose turn it is goes
\* first.
TurnKept ==
  \A c \in Caller : InCall(c) =>
    \A k \in 0..(i[c] - 1) : Probed(c, k) \notin steady[c]

\* As long as the counter does not wrap inside the scan, ErrNoBackends means
\* that no backend of the listed pool stayed up through the call.  When it does
\* wrap and the pool's size does not divide 2^32, the indices jump, one backend
\* is probed twice and another never: the reservation is needed.
MissMeansAllDown ==
  \A c \in Caller :
    InCall(c) /\ pc[c] = "done" /\ picked[c] = NoPick /\ ~Wraps(c)
      => Members(list[c]) \cap steady[c] = {}

\* A call that returns ErrNoBackends has been round once.
RoundInv(c) ==
  /\ pc[c] \in {"idle", "draw"} => i[c] = 0
  /\ pc[c] = "draw" => list[c] # << >>
  /\ pc[c] # "done" => picked[c] = NoPick
  /\ pc[c] = "done" /\ picked[c] = NoPick => i[c] = Len(list[c])

\* The inductive invariant behind the properties above.
RRInv ==
  /\ RRTypeOK
  /\ TicketsExact
  /\ TurnKept
  /\ \A c \in Caller : RoundInv(c)

============================================================================
