---------------------------- MODULE ActorExecutor ----------------------------
(***************************************************************************)
(* Actors (runtime/executor.rs) and the node that registers and stops      *)
(* them (runtime/node.rs, runtime/directory.rs).  An actor is one task     *)
(* fed by a bounded channel of commands; callers hold a handle and wait    *)
(* for a reply slot that travels with the command; Node::shutdown sends    *)
(* Stop to the actors in registration order, joins their tasks and aborts  *)
(* the ones that overstay.                                                 *)
(*                                                                         *)
(* A call is one use of a handle (transition, try_transition or snapshot)  *)
(* and makes one command.  Every step below is what happens between two    *)
(* await points.  A handler may finish, panic, or never return; a caller   *)
(* may go away while it waits.  The node keeps every handle, so the        *)
(* channel of a live actor never closes from the sending side.             *)
(***************************************************************************)
EXTENDS Integers, Sequences, SequencesExt

CONSTANTS Actors,          \* resource ids
          Calls,           \* uses of an actor handle
          Stoppers,        \* calls of Node::shutdown
          QueueCapacity,   \* NodePolicy.actor_queue_capacity
          None             \* no actor, no task

ASSUME ExecutorAssumption ==
  /\ QueueCapacity \in Nat
  /\ Calls \cap Stoppers = {}
  /\ None \notin Actors \cup Calls \cup Stoppers

VARIABLES
  directory,   \* ids in registration order
  task,        \* task[a]: where the actor's task is
  serving,     \* serving[a]: the sender of the command being handled
  mailbox,     \* mailbox[a]: senders of the queued commands
  waiting,     \* waiting[a]: senders awaiting capacity, in order
  aborted,     \* actors whose abort handle was fired
  joinLock,    \* joinLock[a]: the shutdown holding the entry's task mutex
  joinTaken,   \* actors whose JoinHandle was taken
  pc,          \* pc[t]: where the call or the shutdown is
  target,      \* target[t]: the actor addressed
  reply,       \* reply[t]: state of the reply slot
  entries,     \* entries[n]: the entries the shutdown read from the directory
  pos,         \* pos[n]: the one it is at
  ran,         \* ran[c]: history, how far the actor got with the command
  stopRan      \* stopRan[a]: history, on_stop completed

taskVars == <<task, serving, mailbox, waiting, ran, stopRan>>
joinVars == <<aborted, joinLock, joinTaken>>
callVars == <<target, entries, pos>>
vars == <<directory, task, serving, mailbox, waiting, aborted, joinLock, joinTaken,
          pc, target, reply, entries, pos, ran, stopRan>>

Senders == Calls \cup Stoppers
Answers == {"outcome", "busy", "terminated", "dropped", "withdrawn", "cancelled"}
CallStates == {"new", "sending", "waiting"} \cup Answers
StopStates == {"new", "next", "sending", "waiting", "locking", "joining", "done"}
TaskStates == {"absent", "starting", "idle", "busy", "stopping", "exiting", "ended"}

TypeOK ==
  /\ directory \in Seq(Actors)
  /\ task \in [Actors -> TaskStates]
  /\ serving \in [Actors -> Senders \cup {None}]
  /\ mailbox \in [Actors -> Seq(Senders)]
  /\ waiting \in [Actors -> Seq(Senders)]
  /\ aborted \subseteq Actors
  /\ joinLock \in [Actors -> Stoppers \cup {None}]
  /\ joinTaken \subseteq Actors
  /\ pc \in [Senders -> CallStates \cup StopStates]
  /\ \A c \in Calls : pc[c] \in CallStates
  /\ \A n \in Stoppers : pc[n] \in StopStates
  /\ target \in [Senders -> Actors \cup {None}]
  /\ reply \in [Senders -> {"pending", "sent", "gone"}]
  /\ entries \in [Stoppers -> Seq(Actors)]
  /\ pos \in [Stoppers -> Nat \ {0}]
  /\ ran \in [Calls -> {"no", "begun", "done"}]
  /\ stopRan \in [Actors -> BOOLEAN]

Init ==
  /\ directory = <<>>
  /\ task = [a \in Actors |-> "absent"]
  /\ serving = [a \in Actors |-> None]
  /\ mailbox = [a \in Actors |-> <<>>]
  /\ waiting = [a \in Actors |-> <<>>]
  /\ aborted = {}
  /\ joinLock = [a \in Actors |-> None]
  /\ joinTaken = {}
  /\ pc = [t \in Senders |-> "new"]
  /\ target = [t \in Senders |-> None]
  /\ reply = [t \in Senders |-> "pending"]
  /\ entries = [n \in Stoppers |-> <<>>]
  /\ pos = [n \in Stoppers |-> 1]
  /\ ran = [c \in Calls |-> "no"]
  /\ stopRan = [a \in Actors |-> FALSE]

-----------------------------------------------------------------------------
(* The command channel: capacity.max(1); a permit freed while senders wait *)
(* is theirs, in order, so nobody else gets in before them.                *)
Capacity == IF QueueCapacity = 0 THEN 1 ELSE QueueCapacity
Closed(a) == task[a] = "ended"
HasRoom(a) == Len(mailbox[a]) + Len(waiting[a]) < Capacity
Push(t, a) == mailbox' = [mailbox EXCEPT ![a] = Append(@, t)]

(* A command carries the slot its sender waits on; a shutdown that timed   *)
(* out on one actor waits on another slot by the time the first answers.   *)
Slots(a, ts) == {t \in ts \cap Senders : target[t] = a}
Answer(a, ts, how) == reply' = [t \in Senders |-> IF t \in Slots(a, ts) THEN how ELSE reply[t]]

(* The task is over: its receiver is dropped, and with it every reply slot *)
(* still queued or in hand.                                                *)
End(a) ==
  /\ task' = [task EXCEPT ![a] = "ended"]
  /\ Answer(a, Range(mailbox[a]) \cup {serving[a]}, "gone")
  /\ mailbox' = [mailbox EXCEPT ![a] = <<>>]
  /\ serving' = [serving EXCEPT ![a] = None]

-----------------------------------------------------------------------------
(* Node::register_with_id: check, spawn and insert under the directory's   *)
(* write lock; a taken id changes nothing.                                 *)
Register(a) ==
  /\ task[a] = "absent"
  /\ directory' = Append(directory, a)
  /\ task' = [task EXCEPT ![a] = "starting"]
  /\ UNCHANGED <<serving, mailbox, waiting, ran, stopRan, joinVars, pc, callVars, reply>>

(* The actor task: on_start, then one command at a time. *)
OnStart(a) ==
  /\ task[a] = "starting"
  /\ task' = [task EXCEPT ![a] = "idle"]
  /\ UNCHANGED <<directory, serving, mailbox, waiting, ran, stopRan, joinVars, pc, callVars, reply>>

BeginPeek(a) ==   \* faulty: the command stays in the channel until it is answered
  LET t == Head(mailbox[a])
  IN /\ task[a] = "idle" /\ mailbox[a] # <<>>
     /\ serving' = [serving EXCEPT ![a] = t]
     /\ task' = [task EXCEPT ![a] = IF t \in Stoppers THEN "stopping" ELSE "busy"]
     /\ ran' = IF t \in Calls THEN [ran EXCEPT ![t] = "begun"] ELSE ran
     /\ UNCHANGED <<directory, mailbox, waiting, stopRan, joinVars, pc, callVars, reply>>

Begin(a) ==
  LET t == Head(mailbox[a])
  IN /\ task[a] = "idle" /\ mailbox[a] # <<>>
     /\ serving' = [serving EXCEPT ![a] = t]
     /\ mailbox' = [mailbox EXCEPT ![a] = Tail(@)]
     /\ task' = [task EXCEPT ![a] = IF t \in Stoppers THEN "stopping" ELSE "busy"]
     /\ ran' = IF t \in Calls THEN [ran EXCEPT ![t] = "begun"] ELSE ran
     /\ UNCHANGED <<directory, waiting, stopRan, joinVars, pc, callVars, reply>>

Finish(a) ==
  /\ task[a] = "busy"
  /\ task' = [task EXCEPT ![a] = "idle"]
  /\ ran' = [ran EXCEPT ![serving[a]] = "done"]
  /\ Answer(a, {serving[a]}, "sent")
  /\ serving' = [serving EXCEPT ![a] = None]
  /\ UNCHANGED <<directory, mailbox, waiting, stopRan, joinVars, pc, callVars>>

FinishStopAndServe(a) ==   \* faulty: no break after on_stop
  /\ task[a] = "stopping"
  /\ task' = [task EXCEPT ![a] = "idle"]
  /\ stopRan' = [stopRan EXCEPT ![a] = TRUE]
  /\ Answer(a, {serving[a]}, "sent")
  /\ serving' = [serving EXCEPT ![a] = None]
  /\ UNCHANGED <<directory, mailbox, waiting, ran, joinVars, pc, callVars>>

FinishStop(a) ==
  /\ task[a] = "stopping"
  /\ task' = [task EXCEPT ![a] = "exiting"]
  /\ stopRan' = [stopRan EXCEPT ![a] = TRUE]
  /\ Answer(a, {serving[a]}, "sent")
  /\ serving' = [serving EXCEPT ![a] = None]
  /\ UNCHANGED <<directory, mailbox, waiting, ran, joinVars, pc, callVars>>

Exit(a) ==
  /\ task[a] = "exiting"
  /\ End(a)
  /\ UNCHANGED <<directory, waiting, ran, stopRan, joinVars, pc, callVars>>

(* A hook or a handler panics, or a fired abort takes effect.              *)
Panic(a) ==
  /\ task[a] \in {"starting", "busy", "stopping"}
  /\ End(a)
  /\ UNCHANGED <<directory, waiting, ran, stopRan, joinVars, pc, callVars>>

Aborted(a) ==
  /\ a \in aborted /\ task[a] # "ended"
  /\ End(a)
  /\ UNCHANGED <<directory, waiting, ran, stopRan, joinVars, pc, callVars>>

-----------------------------------------------------------------------------
(* tx.send().await: in at once, or in line; closed is an error.            *)
SendStart(t, a) ==
  /\ target' = [target EXCEPT ![t] = a]
  /\ \/ /\ Closed(a)
        /\ pc' = [pc EXCEPT ![t] = IF t \in Stoppers THEN "locking" ELSE "terminated"]
        /\ UNCHANGED <<mailbox, waiting>>
     \/ /\ ~Closed(a) /\ HasRoom(a)
        /\ pc' = [pc EXCEPT ![t] = "waiting"]
        /\ Push(t, a)
        /\ UNCHANGED waiting
     \/ /\ ~Closed(a) /\ ~HasRoom(a)
        /\ pc' = [pc EXCEPT ![t] = "sending"]
        /\ waiting' = [waiting EXCEPT ![a] = Append(@, t)]
        /\ UNCHANGED mailbox

(* A sender is in line once: dropping its future takes that place away. *)
LeaveLine(t) ==
  \E i \in DOMAIN waiting[target[t]] :
     /\ waiting[target[t]][i] = t
     /\ waiting' = [waiting EXCEPT ![target[t]] = RemoveAt(@, i)]

SendAdmitted(t) ==
  LET a == target[t]
  IN /\ pc[t] = "sending" /\ ~Closed(a)
     /\ \E i \in 1 .. (Capacity - Len(mailbox[a])) : i <= Len(waiting[a]) /\ waiting[a][i] = t
     /\ Push(t, a)
     /\ LeaveLine(t)
     /\ pc' = [pc EXCEPT ![t] = "waiting"]
     /\ UNCHANGED <<directory, task, serving, joinVars, callVars, reply, ran, stopRan>>

SendClosedAsCall(t) ==   \* faulty: a shutdown gives up instead of joining the task
  /\ pc[t] = "sending" /\ Closed(target[t])
  /\ LeaveLine(t)
  /\ pc' = [pc EXCEPT ![t] = "terminated"]
  /\ UNCHANGED <<directory, task, serving, mailbox, joinVars, callVars, reply, ran, stopRan>>

SendClosedNever(t) ==   \* faulty: a sender in line does not see the channel close
  FALSE /\ UNCHANGED vars

SendClosed(t) ==
  /\ pc[t] = "sending" /\ Closed(target[t])
  /\ LeaveLine(t)
  /\ pc' = [pc EXCEPT ![t] = IF t \in Stoppers THEN "locking" ELSE "terminated"]
  /\ UNCHANGED <<directory, task, serving, mailbox, joinVars, callVars, reply, ran, stopRan>>

-----------------------------------------------------------------------------
(* ActorHandle::transition_with_ctx and snapshot, which differ only in the *)
(* command they carry and the error they return.                           *)
Call(c, a) ==
  /\ pc[c] = "new" /\ task[a] # "absent"
  /\ SendStart(c, a)
  /\ UNCHANGED <<directory, task, serving, joinVars, entries, pos, reply, ran, stopRan>>

(* ActorHandle::try_transition. *)
TryTransition(c, a) ==
  /\ pc[c] = "new" /\ task[a] # "absent"
  /\ target' = [target EXCEPT ![c] = a]
  /\ \/ /\ Closed(a)
        /\ pc' = [pc EXCEPT ![c] = "terminated"]
        /\ UNCHANGED mailbox
     \/ /\ ~Closed(a) /\ HasRoom(a)
        /\ pc' = [pc EXCEPT ![c] = "waiting"]
        /\ Push(c, a)
     \/ /\ ~Closed(a) /\ ~HasRoom(a)
        /\ pc' = [pc EXCEPT ![c] = "busy"]
        /\ UNCHANGED mailbox
  /\ UNCHANGED <<directory, task, serving, waiting, joinVars, entries, pos, reply, ran, stopRan>>

(* rrx.await, and await_outcome of a PendingTransition. *)
TakeReplyAny(c) ==   \* faulty: a dropped slot counts as an outcome
  /\ pc[c] = "waiting" /\ reply[c] # "pending"
  /\ pc' = [pc EXCEPT ![c] = "outcome"]
  /\ UNCHANGED <<directory, taskVars, joinVars, callVars, reply>>

TakeReply(c) ==
  /\ pc[c] = "waiting" /\ reply[c] # "pending"
  /\ pc' = [pc EXCEPT ![c] = IF reply[c] = "sent" THEN "outcome" ELSE "dropped"]
  /\ UNCHANGED <<directory, taskVars, joinVars, callVars, reply>>

(* The caller's future is dropped: a queued command stays queued. *)
CancelCall(c) ==
  /\ pc[c] \in {"sending", "waiting"}
  /\ IF pc[c] = "sending" THEN LeaveLine(c) ELSE UNCHANGED waiting
  /\ pc' = [pc EXCEPT ![c] = IF pc[c] = "sending" THEN "withdrawn" ELSE "cancelled"]
  /\ UNCHANGED <<directory, task, serving, mailbox, ran, stopRan, joinVars, callVars, reply>>

-----------------------------------------------------------------------------
(* Node::shutdown: the entries as they are now, one after the other. *)
ShutdownStart(n) ==
  /\ pc[n] = "new"
  /\ entries' = [entries EXCEPT ![n] = directory]
  /\ pc' = [pc EXCEPT ![n] = "next"]
  /\ UNCHANGED <<directory, taskVars, joinVars, target, pos, reply>>

(* ActorHandle::shutdown. *)
SendStop(n) ==
  /\ pc[n] = "next" /\ pos[n] <= Len(entries[n])
  /\ SendStart(n, entries[n][pos[n]])
  /\ reply' = [reply EXCEPT ![n] = "pending"]
  /\ UNCHANGED <<directory, task, serving, joinVars, entries, pos, ran, stopRan>>

StopAnswered(n) ==
  /\ pc[n] = "waiting" /\ reply[n] # "pending"
  /\ pc' = [pc EXCEPT ![n] = "locking"]
  /\ UNCHANGED <<directory, taskVars, joinVars, callVars, reply>>

StopTimeout(n) ==
  /\ pc[n] = "waiting" /\ reply[n] = "pending"
  /\ pc' = [pc EXCEPT ![n] = "locking"]
  /\ UNCHANGED <<directory, taskVars, joinVars, callVars, reply>>

(* The task mutex is held while the task is joined. *)
LockTask(n) ==
  LET a == target[n]
  IN /\ pc[n] = "locking" /\ joinLock[a] = None
     /\ IF a \in joinTaken
        THEN /\ pc' = [pc EXCEPT ![n] = "next"]
             /\ pos' = [pos EXCEPT ![n] = @ + 1]
             /\ UNCHANGED <<joinLock, joinTaken>>
        ELSE /\ pc' = [pc EXCEPT ![n] = "joining"]
             /\ joinLock' = [joinLock EXCEPT ![a] = n]
             /\ joinTaken' = joinTaken \cup {a}
             /\ UNCHANGED pos
     /\ UNCHANGED <<directory, taskVars, aborted, target, entries, reply>>

JoinedHolding(n) ==   \* faulty: keeps the task mutex
  /\ pc[n] = "joining" /\ task[target[n]] = "ended"
  /\ pc' = [pc EXCEPT ![n] = "next"]
  /\ pos' = [pos EXCEPT ![n] = @ + 1]
  /\ UNCHANGED <<directory, taskVars, aborted, joinLock, joinTaken, target, entries, reply>>

Joined(n) ==
  /\ pc[n] = "joining" /\ task[target[n]] = "ended"
  /\ joinLock' = [joinLock EXCEPT ![target[n]] = None]
  /\ pc' = [pc EXCEPT ![n] = "next"]
  /\ pos' = [pos EXCEPT ![n] = @ + 1]
  /\ UNCHANGED <<directory, taskVars, aborted, joinTaken, target, entries, reply>>

JoinTimeoutDetach(n) ==   \* faulty: drops the JoinHandle without aborting
  /\ pc[n] = "joining" /\ task[target[n]] # "ended"
  /\ joinLock' = [joinLock EXCEPT ![target[n]] = None]
  /\ pc' = [pc EXCEPT ![n] = "next"]
  /\ pos' = [pos EXCEPT ![n] = @ + 1]
  /\ UNCHANGED <<directory, taskVars, aborted, joinTaken, target, entries, reply>>

JoinTimeout(n) ==
  /\ pc[n] = "joining" /\ task[target[n]] # "ended"
  /\ aborted' = aborted \cup {target[n]}
  /\ joinLock' = [joinLock EXCEPT ![target[n]] = None]
  /\ pc' = [pc EXCEPT ![n] = "next"]
  /\ pos' = [pos EXCEPT ![n] = @ + 1]
  /\ UNCHANGED <<directory, taskVars, joinTaken, target, entries, reply>>

ShutdownDone(n) ==
  /\ pc[n] = "next" /\ pos[n] > Len(entries[n])
  /\ pc' = [pc EXCEPT ![n] = "done"]
  /\ UNCHANGED <<directory, taskVars, joinVars, callVars, reply>>

-----------------------------------------------------------------------------
(* Progress the runtime makes by itself, by who makes it. *)
HandlerReturns(a) == OnStart(a) \/ Finish(a) \/ FinishStop(a)
TaskStep(a) == Begin(a) \/ Exit(a) \/ Aborted(a)
CallStep(c) == SendAdmitted(c) \/ SendClosed(c) \/ TakeReply(c)
StopStep(n) ==
  \/ SendStop(n) \/ SendAdmitted(n) \/ SendClosed(n) \/ StopAnswered(n) \/ StopTimeout(n)
  \/ LockTask(n) \/ Joined(n) \/ JoinTimeout(n) \/ ShutdownDone(n)

Next ==
  \/ \E a \in Actors : Register(a) \/ HandlerReturns(a) \/ TaskStep(a) \/ Panic(a)
  \/ \E c \in Calls : \/ \E a \in Actors : Call(c, a) \/ TryTransition(c, a)
                      \/ CallStep(c) \/ CancelCall(c)
  \/ \E n \in Stoppers : ShutdownStart(n) \/ StopStep(n)

Spec == Init /\ [][Next]_vars
-----------------------------------------------------------------------------
(* A caller that got an outcome got it from a handler that ran its command  *)
(* to the end; a caller whose reply slot was dropped knows that it did not. *)
OutcomeMeansRan ==
  \A c \in Calls : /\ pc[c] = "outcome" => ran[c] = "done"
                   /\ pc[c] = "dropped" => ran[c] # "done"

(* After on_stop no command of the actor begins, however many shutdowns    *)
(* and callers raced: what was queued behind Stop is only dropped.         *)
StopIsFinal ==
  [][\A c \in Calls : ran[c] = "no" /\ ran'[c] = "begun" => ~stopRan[target[c]]]_vars

(* The refinement: mailboxes and what is in hand, without the rest of the  *)
(* task's state, and what callers know.                                    *)
CallerKnows(c) ==
  CASE pc[c] = "new" -> "new" [] pc[c] = "sending" -> "asking" [] pc[c] = "waiting" -> "accepted"
    [] pc[c] \in {"busy", "terminated", "withdrawn"} -> "refused"
    [] pc[c] = "outcome" -> "answered" [] pc[c] = "dropped" -> "lost" [] pc[c] = "cancelled" -> "gone"

EffectOf(c) ==
  CASE ran[c] = "no" -> "none" [] ran[c] = "done" -> "done"
    [] ran[c] = "begun" -> IF \E a \in Actors : serving[a] = c THEN "running" ELSE "lost"

callerBar == [c \in Calls |-> CallerKnows(c)]
effectBar == [c \in Calls |-> EffectOf(c)]
overBar == {a \in Actors : stopRan[a] \/ task[a] = "ended"}

Promise == INSTANCE ActorCalls WITH
  caller <- callerBar, effect <- effectBar, line <- mailbox, at <- serving, over <- overBar

(* The executor keeps the promise of ActorCalls: whatever callers,         *)
(* shutdowns, panics, aborts and abandoned futures do, each of its steps   *)
(* is one of the promise's or changes nothing that a caller could see.     *)
KeepsPromise == Promise!Spec

(* When a Node::shutdown returns, the task of every actor registered when  *)
(* it began has ended or has been aborted; none is left running detached.  *)
ShutdownLeavesNone ==
  \A n \in Stoppers : pc[n] = "done" =>
     \A a \in Range(entries[n]) : task[a] = "ended" \/ a \in aborted

-----------------------------------------------------------------------------
(* The runtime polls tasks that can run and timers fire; whether a handler  *)
(* returns is the actor author's business.                                  *)
Fairness ==
  /\ \A a \in Actors : WF_vars(TaskStep(a))
  /\ \A c \in Calls : WF_vars(CallStep(c))
  /\ \A n \in Stoppers : WF_vars(StopStep(n))

FairSpec == Spec /\ Fairness

(* ... and the specification in which every handler and hook returns. *)
LiveSpec == FairSpec /\ \A a \in Actors : WF_vars(HandlerReturns(a))

(* Every call comes back, whatever is stopped, aborted or panics meanwhile. *)
CallsReturn == \A c \in Calls : pc[c] \in {"sending", "waiting"} ~> pc[c] \in Answers

(* Node::shutdown comes back. *)
ShutdownReturns == \A n \in Stoppers : pc[n] = "next" ~> pc[n] = "done"
=============================================================================
