----------------------------- MODULE ActorCalls -----------------------------
(***************************************************************************)
(* What an ActorHandle promises its callers, without channels, tasks, locks *)
(* or joins: accepted calls of an actor are executed one at a time, in the  *)
(* order they were accepted and at most once; a request to stop takes its   *)
(* place in the same line, and nothing is executed after on_stop; a caller  *)
(* is told "answered" only of a call that was completed, "lost" only of one *)
(* that was not and never will be, and "refused" only of one that was never *)
(* accepted.                                                                *)
(***************************************************************************)
EXTENDS Integers, Sequences

CONSTANTS Actors,     \* resource ids
          Calls,      \* uses of an actor handle
          Stoppers,   \* those who ask actors to stop
          None

VARIABLES
  caller,   \* caller[c]: what the caller of c knows
  effect,   \* effect[c]: how far c was executed
  line,     \* line[a]: calls and stops that a accepted, in order, and has yet to begin
  at,       \* at[a]: what a executes
  over      \* actors that execute nothing any more

vars == <<caller, effect, line, at, over>>

Init ==
  /\ caller = [c \in Calls |-> "new"]
  /\ effect = [c \in Calls |-> "none"]
  /\ line = [a \in Actors |-> <<>>]
  /\ at = [a \in Actors |-> None]
  /\ over = {}

-----------------------------------------------------------------------------
(* The caller asks and waits for capacity, *)
Ask(c) ==
  /\ caller[c] = "new"
  /\ caller' = [caller EXCEPT ![c] = "asking"]
  /\ UNCHANGED <<effect, line, at, over>>

(* is admitted, at once or after its wait, *)
Accept(c, a) ==
  /\ caller[c] \in {"new", "asking"}
  /\ caller' = [caller EXCEPT ![c] = "accepted"]
  /\ line' = [line EXCEPT ![a] = Append(@, c)]
  /\ UNCHANGED <<effect, at, over>>

(* or is not, or gives up. *)
Refuse(c) ==
  /\ caller[c] \in {"new", "asking"}
  /\ caller' = [caller EXCEPT ![c] = "refused"]
  /\ UNCHANGED <<effect, line, at, over>>

(* A stop is accepted like a call. *)
AskStop(n, a) ==
  /\ line' = [line EXCEPT ![a] = Append(@, n)]
  /\ UNCHANGED <<caller, effect, at, over>>

(* The actor takes the first of its line, a call that was never executed *)
Execute(a) ==
  LET t == Head(line[a])
  IN /\ a \notin over /\ at[a] = None /\ line[a] # <<>>
     /\ at' = [at EXCEPT ![a] = t]
     /\ line' = [line EXCEPT ![a] = Tail(@)]
     /\ \/ /\ t \in Calls /\ effect[t] = "none"
           /\ effect' = [effect EXCEPT ![t] = "running"]
        \/ /\ t \in Stoppers
           /\ UNCHANGED effect
     /\ UNCHANGED <<caller, over>>

(* and completes it; *)
Complete(a) ==
  /\ at[a] \in Calls
  /\ at' = [at EXCEPT ![a] = None]
  /\ effect' = [effect EXCEPT ![at[a]] = "done"]
  /\ UNCHANGED <<caller, line, over>>

(* on_stop is its last. *)
Stop(a) ==
  /\ at[a] \in Stoppers
  /\ at' = [at EXCEPT ![a] = None]
  /\ over' = over \cup {a}
  /\ UNCHANGED <<caller, effect, line>>

(* It ends, by itself, by a panic or by an abort. *)
Discard(a) ==
  /\ over' = over \cup {a}
  /\ line' = [line EXCEPT ![a] = <<>>]
  /\ at' = [at EXCEPT ![a] = None]
  /\ effect' = [c \in Calls |-> IF at[a] = c THEN "lost" ELSE effect[c]]
  /\ UNCHANGED caller

(* The caller learns what became of its call, or goes away. *)
Pending(c) == \E a \in Actors : at[a] = c \/ \E i \in 1 .. Len(line[a]) : line[a][i] = c

Tell(c) ==
  /\ caller[c] = "accepted"
  /\ \/ effect[c] = "done" /\ caller' = [caller EXCEPT ![c] = "answered"]
     \/ effect[c] # "done" /\ ~Pending(c) /\ caller' = [caller EXCEPT ![c] = "lost"]
     \/ caller' = [caller EXCEPT ![c] = "gone"]
  /\ UNCHANGED <<effect, line, at, over>>

Next ==
  \/ \E c \in Calls : Ask(c) \/ Refuse(c) \/ Tell(c) \/ \E a \in Actors : Accept(c, a)
  \/ \E n \in Stoppers, a \in Actors : AskStop(n, a)
  \/ \E a \in Actors : Execute(a) \/ Complete(a) \/ Stop(a) \/ Discard(a)

Spec == Init /\ [][Next]_vars
=============================================================================
