------------------------- MODULE ActorExecutorProofs -------------------------
(***************************************************************************)
(* Proofs about ActorExecutor for every set of actors, callers and         *)
(* shutdowns and every queue capacity.                                     *)
(***************************************************************************)
EXTENDS ActorExecutor, TLAPS

-----------------------------------------------------------------------------
(* What the actor has in hand follows from where its task is; a task that   *)
(* ran on_stop is on its way out.                                           *)
HandInv ==
  \A a \in Actors :
    /\ task[a] = "busy" => serving[a] \in Calls
    /\ task[a] = "stopping" => serving[a] \in Stoppers
    /\ task[a] \notin {"busy", "stopping"} => serving[a] = None
    /\ stopRan[a] => task[a] \in {"exiting", "ended"}

(* A call that waits for an answer its actor has not given: its command is  *)
(* queued and untouched ...                                                 *)
Unserved(c, a) == target[c] = a /\ reply[c] = "pending" /\ pc[c] \in {"waiting", "cancelled"}

QueuedInv ==
  \A a \in Actors : \A i \in 1 .. Len(mailbox[a]) : mailbox[a][i] \in Calls =>
    /\ Unserved(mailbox[a][i], a)
    /\ ran[mailbox[a][i]] = "no"

(* ... in one place of the queue ... *)
OnceInv ==
  \A a \in Actors : \A i, j \in 1 .. Len(mailbox[a]) :
    mailbox[a][i] \in Calls /\ mailbox[a][i] = mailbox[a][j] => i = j

(* ... or in hand and begun. *)
HeldInv ==
  \A a \in Actors : serving[a] \in Calls =>
    /\ Unserved(serving[a], a)
    /\ ran[serving[a]] = "begun"

(* The reply slot says whether the command was completed, and the caller    *)
(* knows what the slot said.                                                *)
SlotInv ==
  \A c \in Calls :
    /\ reply[c] = "sent" <=> ran[c] = "done"
    /\ pc[c] \in {"new", "sending"} => reply[c] = "pending" /\ ran[c] = "no"
    /\ pc[c] = "outcome" => reply[c] = "sent"
    /\ pc[c] = "dropped" => reply[c] = "gone"

(* Whoever is in line is in the line of an actor. *)
LineInv == \A t \in Senders : pc[t] = "sending" => target[t] \in Actors

(* A shutdown that deals with an actor deals with the entry it is at; the   *)
(* ones before it are over, and it returns after the last.                  *)
Over(a) == task[a] = "ended" \/ a \in aborted

ShutdownAt(n) ==
  /\ pc[n] = "new" => pos[n] = 1
  /\ pc[n] \in {"sending", "waiting", "locking", "joining"} =>
       pos[n] <= Len(entries[n]) /\ target[n] = entries[n][pos[n]]
  /\ pc[n] = "done" => pos[n] > Len(entries[n])
  /\ \A i \in 1 .. Len(entries[n]) : i < pos[n] => Over(entries[n][i])

ShutdownInv == \A n \in Stoppers : ShutdownAt(n)

(* Whoever took the JoinHandle and let the mutex go saw the task end or     *)
(* aborted it.                                                              *)
JoinInv == \A a \in joinTaken : joinLock[a] = None => Over(a)

IInv ==
  /\ TypeOK /\ HandInv /\ QueuedInv /\ OnceInv /\ HeldInv /\ SlotInv
  /\ LineInv /\ ShutdownInv /\ JoinInv

-----------------------------------------------------------------------------
(* Leaving the line leaves a line of senders. *)
LEMMA LeaveLineType ==
  ASSUME TypeOK, NEW t \in Senders, LeaveLine(t)
  PROVE  waiting' \in [Actors -> Seq(Senders)]
<1>1. PICK i \in DOMAIN waiting[target[t]] :
        waiting' = [waiting EXCEPT ![target[t]] = RemoveAt(@, i)]
  BY DEF LeaveLine
<1>2. ASSUME NEW q \in Seq(Senders), NEW k \in DOMAIN q
      PROVE  RemoveAt(q, k) \in Seq(Senders)
  BY <1>2 DEF RemoveAt
<1>3. ASSUME target[t] \in Actors
      PROVE  RemoveAt(waiting[target[t]], i) \in Seq(Senders)
  <2>1. waiting[target[t]] \in Seq(Senders)
    BY <1>3 DEF TypeOK
  <2> QED
    BY <1>2, <2>1
<1> QED
  BY <1>1, <1>3 DEF TypeOK

(* A sender at the end of a line or of a queue. *)
LEMMA AppendType ==
  ASSUME NEW f \in [Actors -> Seq(Senders)], NEW a \in Actors, NEW t \in Senders
  PROVE  [f EXCEPT ![a] = Append(@, t)] \in [Actors -> Seq(Senders)]
<1>1. Append(f[a], t) \in Seq(Senders)
  OBVIOUS
<1> QED
  BY <1>1

(* What a send does to the types. *)
LEMMA SendStartType ==
  ASSUME TypeOK, NEW t \in Senders, NEW a \in Actors, SendStart(t, a)
  PROVE  /\ target' \in [Senders -> Actors \cup {None}]
         /\ mailbox' \in [Actors -> Seq(Senders)]
         /\ waiting' \in [Actors -> Seq(Senders)]
         /\ \/ pc' = [pc EXCEPT ![t] = "sending"]
            \/ pc' = [pc EXCEPT ![t] = "waiting"]
            \/ t \in Stoppers /\ pc' = [pc EXCEPT ![t] = "locking"]
            \/ t \notin Stoppers /\ pc' = [pc EXCEPT ![t] = "terminated"]
<1>1. target' \in [Senders -> Actors \cup {None}]
  BY DEF SendStart, TypeOK
<1>2. mailbox' \in [Actors -> Seq(Senders)]
  <2>1. mailbox \in [Actors -> Seq(Senders)]
    BY DEF TypeOK
  <2>2. [mailbox EXCEPT ![a] = Append(@, t)] \in [Actors -> Seq(Senders)]
    BY <2>1, AppendType
  <2> QED
    BY <2>1, <2>2 DEF SendStart, Push
<1>3. waiting' \in [Actors -> Seq(Senders)]
  <2>1. waiting \in [Actors -> Seq(Senders)]
    BY DEF TypeOK
  <2>2. [waiting EXCEPT ![a] = Append(@, t)] \in [Actors -> Seq(Senders)]
    BY <2>1, AppendType
  <2> QED
    BY <2>1, <2>2 DEF SendStart
<1>4. \/ pc' = [pc EXCEPT ![t] = "sending"]
      \/ pc' = [pc EXCEPT ![t] = "waiting"]
      \/ t \in Stoppers /\ pc' = [pc EXCEPT ![t] = "locking"]
      \/ t \notin Stoppers /\ pc' = [pc EXCEPT ![t] = "terminated"]
  BY DEF SendStart
<1> QED
  BY <1>1, <1>2, <1>3, <1>4

(* A sender in line gets in, or sees the channel close. *)
LEMMA SendAdmittedType ==
  ASSUME TypeOK, NEW t \in Senders, SendAdmitted(t)
  PROVE  TypeOK'
<1>1. mailbox' \in [Actors -> Seq(Senders)]
  <2>1. mailbox \in [Actors -> Seq(Senders)] /\ target \in [Senders -> Actors \cup {None}]
    BY DEF TypeOK
  <2>2. CASE target[t] \in Actors
    <3>1. [mailbox EXCEPT ![target[t]] = Append(@, t)] \in [Actors -> Seq(Senders)]
      BY <2>1, <2>2, AppendType
    <3> QED
      BY <3>1 DEF SendAdmitted, Push
  <2>3. CASE target[t] = None
    BY <2>1, <2>3, ExecutorAssumption DEF SendAdmitted, Push
  <2> QED
    BY <2>1, <2>2, <2>3
<1>2. waiting' \in [Actors -> Seq(Senders)]
  BY LeaveLineType DEF SendAdmitted
<1>3. /\ pc' \in [Senders -> CallStates \cup StopStates]
      /\ \A c \in Calls : pc'[c] \in CallStates
      /\ \A n \in Stoppers : pc'[n] \in StopStates
  BY DEF SendAdmitted, TypeOK, CallStates, StopStates, Senders
<1> QED
  BY <1>1, <1>2, <1>3 DEF SendAdmitted, TypeOK, joinVars, callVars

LEMMA SendClosedType ==
  ASSUME TypeOK, NEW t \in Senders, SendClosed(t)
  PROVE  TypeOK'
<1>1. waiting' \in [Actors -> Seq(Senders)]
  BY LeaveLineType DEF SendClosed
<1>2. /\ pc' \in [Senders -> CallStates \cup StopStates]
      /\ \A c \in Calls : pc'[c] \in CallStates
      /\ \A n \in Stoppers : pc'[n] \in StopStates
  BY ExecutorAssumption DEF SendClosed, TypeOK, CallStates, StopStates, Answers, Senders
<1> QED
  BY <1>1, <1>2 DEF SendClosed, TypeOK, joinVars, callVars

(* Every field starts with its type. *)
LEMMA InitType == Init => TypeOK
  BY ExecutorAssumption DEF Init, TypeOK, TaskStates, CallStates, StopStates, Answers, Senders

(* Every step keeps it: the task's steps, ... *)
LEMMA TaskStepType ==
  ASSUME TypeOK, NEW a \in Actors,
         Register(a) \/ HandlerReturns(a) \/ TaskStep(a) \/ Panic(a)
  PROVE  TypeOK'
<1>1. ASSUME NEW ts, NEW how \in {"sent", "gone"}, Answer(a, ts, how)
      PROVE  reply' \in [Senders -> {"pending", "sent", "gone"}]
  BY <1>1 DEF Answer, TypeOK
<1>2. ASSUME End(a)
      PROVE  /\ task' \in [Actors -> TaskStates]
             /\ serving' \in [Actors -> Senders \cup {None}]
             /\ mailbox' \in [Actors -> Seq(Senders)]
             /\ reply' \in [Senders -> {"pending", "sent", "gone"}]
  BY <1>1, <1>2 DEF End, TypeOK, TaskStates
<1>3. CASE Register(a)
  <2>1. directory' \in Seq(Actors) /\ task' \in [Actors -> TaskStates]
    BY <1>3 DEF Register, TypeOK, TaskStates
  <2> QED
    BY <1>3, <2>1 DEF Register, TypeOK, joinVars, callVars
<1>4. CASE OnStart(a)
  BY <1>4 DEF OnStart, TypeOK, TaskStates, joinVars, callVars
<1>5. CASE Begin(a)
  <2>1. Head(mailbox[a]) \in Senders /\ Tail(mailbox[a]) \in Seq(Senders)
    BY <1>5 DEF Begin, TypeOK
  <2>2. /\ serving' \in [Actors -> Senders \cup {None}]
        /\ mailbox' \in [Actors -> Seq(Senders)]
        /\ task' \in [Actors -> TaskStates]
        /\ ran' \in [Calls -> {"no", "begun", "done"}]
    BY <1>5, <2>1 DEF Begin, TypeOK, TaskStates
  <2> QED
    BY <1>5, <2>2 DEF Begin, TypeOK, joinVars, callVars
<1>6. CASE Finish(a)
  <2>1. /\ task' \in [Actors -> TaskStates]
        /\ serving' \in [Actors -> Senders \cup {None}]
        /\ ran' \in [Calls -> {"no", "begun", "done"}]
        /\ reply' \in [Senders -> {"pending", "sent", "gone"}]
    BY <1>1, <1>6 DEF Finish, TypeOK, TaskStates
  <2> QED
    BY <1>6, <2>1 DEF Finish, TypeOK, joinVars, callVars
<1>7. CASE FinishStop(a)
  <2>1. /\ task' \in [Actors -> TaskStates]
        /\ serving' \in [Actors -> Senders \cup {None}]
        /\ stopRan' \in [Actors -> BOOLEAN]
        /\ reply' \in [Senders -> {"pending", "sent", "gone"}]
    BY <1>1, <1>7 DEF FinishStop, TypeOK, TaskStates
  <2> QED
    BY <1>7, <2>1 DEF FinishStop, TypeOK, joinVars, callVars
<1>8. CASE Exit(a) \/ Panic(a) \/ Aborted(a)
  BY <1>2, <1>8 DEF Exit, Panic, Aborted, TypeOK, joinVars, callVars
<1> QED
  BY <1>3, <1>4, <1>5, <1>6, <1>7, <1>8 DEF HandlerReturns, TaskStep

(* ... the callers' ... *)
LEMMA CallStepType ==
  ASSUME TypeOK, NEW c \in Calls,
         \/ \E a \in Actors : Call(c, a) \/ TryTransition(c, a)
         \/ CallStep(c) \/ CancelCall(c)
  PROVE  TypeOK'
<1>0. c \in Senders /\ c \notin Stoppers
  BY ExecutorAssumption DEF Senders
<1>1. ASSUME NEW s \in CallStates, pc' = [pc EXCEPT ![c] = s]
      PROVE  /\ pc' \in [Senders -> CallStates \cup StopStates]
             /\ \A d \in Calls : pc'[d] \in CallStates
             /\ \A n \in Stoppers : pc'[n] \in StopStates
  BY <1>0, <1>1 DEF TypeOK
<1>2. {"sending", "waiting", "outcome", "busy", "terminated", "dropped", "withdrawn", "cancelled"}
        \subseteq CallStates
  BY DEF CallStates, Answers
<1>3. ASSUME NEW a \in Actors, Call(c, a)
      PROVE  TypeOK'
  <2>1. /\ target' \in [Senders -> Actors \cup {None}]
        /\ mailbox' \in [Actors -> Seq(Senders)]
        /\ waiting' \in [Actors -> Seq(Senders)]
    BY <1>0, <1>3, SendStartType DEF Call
  <2>2. /\ pc' \in [Senders -> CallStates \cup StopStates]
        /\ \A d \in Calls : pc'[d] \in CallStates
        /\ \A n \in Stoppers : pc'[n] \in StopStates
    BY <1>0, <1>1, <1>2, <1>3, SendStartType DEF Call
  <2> QED
    BY <1>3, <2>1, <2>2 DEF Call, TypeOK, joinVars
<1>4. ASSUME NEW a \in Actors, TryTransition(c, a)
      PROVE  TypeOK'
  <2>1. target' \in [Senders -> Actors \cup {None}]
    BY <1>0, <1>4 DEF TryTransition, TypeOK
  <2>2. mailbox' \in [Actors -> Seq(Senders)]
    <3>1. mailbox \in [Actors -> Seq(Senders)]
      BY DEF TypeOK
    <3>2. [mailbox EXCEPT ![a] = Append(@, c)] \in [Actors -> Seq(Senders)]
      BY <1>0, <3>1, AppendType
    <3> QED
      BY <1>4, <3>1, <3>2 DEF TryTransition, Push
  <2>3. /\ pc' \in [Senders -> CallStates \cup StopStates]
        /\ \A d \in Calls : pc'[d] \in CallStates
        /\ \A n \in Stoppers : pc'[n] \in StopStates
    BY <1>1, <1>2, <1>4 DEF TryTransition
  <2> QED
    BY <1>4, <2>1, <2>2, <2>3 DEF TryTransition, TypeOK, joinVars
<1>5. CASE TakeReply(c)
  <2>1. /\ pc' \in [Senders -> CallStates \cup StopStates]
        /\ \A d \in Calls : pc'[d] \in CallStates
        /\ \A n \in Stoppers : pc'[n] \in StopStates
    BY <1>1, <1>2, <1>5 DEF TakeReply
  <2> QED
    BY <1>5, <2>1 DEF TakeReply, TypeOK, taskVars, joinVars, callVars
<1>6. CASE CancelCall(c)
  <2>1. /\ pc' \in [Senders -> CallStates \cup StopStates]
        /\ \A d \in Calls : pc'[d] \in CallStates
        /\ \A n \in Stoppers : pc'[n] \in StopStates
    BY <1>1, <1>2, <1>6 DEF CancelCall
  <2>2. waiting' \in [Actors -> Seq(Senders)]
    <3>1. CASE pc[c] = "sending"
      BY <1>0, <1>6, <3>1, LeaveLineType DEF CancelCall
    <3>2. CASE pc[c] # "sending"
      BY <1>6, <3>2 DEF CancelCall, TypeOK
    <3> QED
      BY <3>1, <3>2
  <2> QED
    BY <1>6, <2>1, <2>2 DEF CancelCall, TypeOK, joinVars, callVars
<1>7. CASE SendAdmitted(c)
  BY <1>0, <1>7, SendAdmittedType
<1>8. CASE SendClosed(c)
  BY <1>0, <1>8, SendClosedType
<1> QED
  BY <1>3, <1>4, <1>5, <1>6, <1>7, <1>8 DEF CallStep

(* A shutdown that waits for an actor has one. *)
LEMMA ShutdownTarget ==
  ASSUME TypeOK, ShutdownInv, NEW n \in Stoppers, pc[n] \in {"sending", "waiting", "locking", "joining"}
  PROVE  target[n] \in Actors
<1>1. pos[n] <= Len(entries[n]) /\ target[n] = entries[n][pos[n]]
  BY DEF ShutdownInv, ShutdownAt
<1>2. entries[n] \in Seq(Actors) /\ pos[n] \in Nat \ {0}
  BY DEF TypeOK
<1> QED
  BY <1>1, <1>2

(* ... and the shutdowns'. *)
LEMMA StopStepType ==
  ASSUME TypeOK, ShutdownInv, NEW n \in Stoppers, ShutdownStart(n) \/ StopStep(n)
  PROVE  TypeOK'
<1>0. n \in Senders /\ n \notin Calls
  BY ExecutorAssumption DEF Senders
<1>1. ASSUME NEW s \in StopStates, pc' = [pc EXCEPT ![n] = s]
      PROVE  /\ pc' \in [Senders -> CallStates \cup StopStates]
             /\ \A c \in Calls : pc'[c] \in CallStates
             /\ \A m \in Stoppers : pc'[m] \in StopStates
  BY <1>0, <1>1 DEF TypeOK
<1>2. {"next", "sending", "waiting", "locking", "joining", "done"} \subseteq StopStates
  BY DEF StopStates
<1>3. CASE ShutdownStart(n)
  <2>1. /\ pc' \in [Senders -> CallStates \cup StopStates]
        /\ \A c \in Calls : pc'[c] \in CallStates
        /\ \A m \in Stoppers : pc'[m] \in StopStates
    BY <1>1, <1>2, <1>3 DEF ShutdownStart
  <2>2. entries' \in [Stoppers -> Seq(Actors)]
    BY <1>3 DEF ShutdownStart, TypeOK
  <2> QED
    BY <1>3, <2>1, <2>2 DEF ShutdownStart, TypeOK, taskVars, joinVars
<1>4. CASE SendStop(n)
  <2>1. entries[n][pos[n]] \in Actors
    BY <1>4 DEF SendStop, TypeOK
  <2>2. /\ target' \in [Senders -> Actors \cup {None}]
        /\ mailbox' \in [Actors -> Seq(Senders)]
        /\ waiting' \in [Actors -> Seq(Senders)]
    BY <1>0, <1>4, <2>1, SendStartType DEF SendStop
  <2>3. /\ pc' \in [Senders -> CallStates \cup StopStates]
        /\ \A c \in Calls : pc'[c] \in CallStates
        /\ \A m \in Stoppers : pc'[m] \in StopStates
    BY <1>0, <1>1, <1>2, <1>4, <2>1, SendStartType DEF SendStop
  <2>4. reply' \in [Senders -> {"pending", "sent", "gone"}]
    BY <1>4 DEF SendStop, TypeOK
  <2> QED
    BY <1>4, <2>2, <2>3, <2>4 DEF SendStop, TypeOK, joinVars
<1>5. CASE SendAdmitted(n)
  BY <1>0, <1>5, SendAdmittedType
<1>6. CASE SendClosed(n)
  BY <1>0, <1>6, SendClosedType
<1>7. CASE StopAnswered(n) \/ StopTimeout(n) \/ ShutdownDone(n)
  <2>1. /\ pc' \in [Senders -> CallStates \cup StopStates]
        /\ \A c \in Calls : pc'[c] \in CallStates
        /\ \A m \in Stoppers : pc'[m] \in StopStates
    BY <1>1, <1>2, <1>7 DEF StopAnswered, StopTimeout, ShutdownDone
  <2> QED
    BY <1>7, <2>1 DEF StopAnswered, StopTimeout, ShutdownDone, TypeOK, taskVars, joinVars, callVars
<1>8. CASE LockTask(n) \/ Joined(n) \/ JoinTimeout(n)
  <2>1. /\ pc' \in [Senders -> CallStates \cup StopStates]
        /\ \A c \in Calls : pc'[c] \in CallStates
        /\ \A m \in Stoppers : pc'[m] \in StopStates
    BY <1>1, <1>2, <1>8 DEF LockTask, Joined, JoinTimeout
  <2>2. pc[n] \in {"locking", "joining"} /\ target[n] \in Actors \cup {None}
    BY <1>0, <1>8 DEF LockTask, Joined, JoinTimeout, TypeOK
  <2>3. target[n] \in Actors
    BY <2>2, ShutdownTarget
  <2>4. pos' \in [Stoppers -> Nat \ {0}] /\ joinLock' \in [Actors -> Stoppers \cup {None}]
    <3>1. pos \in [Stoppers -> Nat \ {0}] /\ joinLock \in [Actors -> Stoppers \cup {None}]
      BY DEF TypeOK
    <3> QED
      BY <1>8, <3>1 DEF LockTask, Joined, JoinTimeout
  <2>5. aborted' \subseteq Actors /\ joinTaken' \subseteq Actors
    BY <1>8, <2>3 DEF LockTask, Joined, JoinTimeout, TypeOK
  <2> QED
    BY <1>8, <2>1, <2>4, <2>5 DEF LockTask, Joined, JoinTimeout, TypeOK, taskVars
<1> QED
  BY <1>3, <1>4, <1>5, <1>6, <1>7, <1>8 DEF StopStep

-----------------------------------------------------------------------------
(* The parts of the inductive invariant, each preserved by every step. *)
LEMMA HandStep ==
  ASSUME IInv, [Next]_vars
  PROVE  HandInv'
<1>0. /\ HandInv
      /\ task \in [Actors -> TaskStates] /\ serving \in [Actors -> Senders \cup {None}]
      /\ stopRan \in [Actors -> BOOLEAN]
  BY DEF IInv, TypeOK
<1>1. ASSUME NEW a \in Actors, Register(a) \/ OnStart(a)
      PROVE  HandInv'
  BY <1>0, <1>1 DEF Register, OnStart, HandInv
<1>2. ASSUME NEW a \in Actors, Begin(a)
      PROVE  HandInv'
  <2>1. Head(mailbox[a]) \in Senders
    BY <1>2 DEF Begin, IInv, TypeOK
  <2> QED
    BY <1>0, <1>2, <2>1 DEF Begin, HandInv, Senders
<1>3. ASSUME NEW a \in Actors, Finish(a) \/ FinishStop(a)
      PROVE  HandInv'
  BY <1>0, <1>3 DEF Finish, FinishStop, HandInv
<1>4. ASSUME NEW a \in Actors, Exit(a) \/ Panic(a) \/ Aborted(a)
      PROVE  HandInv'
  BY <1>0, <1>4 DEF Exit, Panic, Aborted, End, HandInv
<1>5. ASSUME UNCHANGED <<task, serving, stopRan>>
      PROVE  HandInv'
  BY <1>0, <1>5 DEF HandInv
<1> QED
  BY <1>1, <1>2, <1>3, <1>4, <1>5
     DEF Next, HandlerReturns, TaskStep, CallStep, StopStep, Call, TryTransition, SendAdmitted, SendClosed,
         TakeReply, CancelCall, ShutdownStart, SendStop, StopAnswered, StopTimeout, LockTask, Joined,
         JoinTimeout, ShutdownDone, taskVars, vars

(* Where the commands are after one is queued, ... *)
LEMMA PushPlaces ==
  ASSUME TypeOK, NEW t \in Senders, NEW a \in Actors, Push(t, a)
  PROVE  \A b \in Actors : \A i \in 1 .. Len(mailbox'[b]) :
           \/ i \in 1 .. Len(mailbox[b]) /\ mailbox'[b][i] = mailbox[b][i]
           \/ b = a /\ i = Len(mailbox[a]) + 1 /\ mailbox'[b][i] = t
<1>1. mailbox \in [Actors -> Seq(Senders)]
  BY DEF TypeOK
<1>2. mailbox' = [mailbox EXCEPT ![a] = Append(@, t)]
  BY DEF Push
<1>3. ASSUME NEW q \in Seq(Senders), NEW i \in 1 .. Len(Append(q, t))
      PROVE  \/ i \in 1 .. Len(q) /\ Append(q, t)[i] = q[i]
             \/ i = Len(q) + 1 /\ Append(q, t)[i] = t
  OBVIOUS
<1>4. mailbox[a] \in Seq(Senders) /\ mailbox'[a] = Append(mailbox[a], t)
  BY <1>1, <1>2
<1>5. \A b \in Actors : b # a => mailbox'[b] = mailbox[b]
  BY <1>1, <1>2
<1> QED
  BY <1>3, <1>4, <1>5

(* ... and after the first is taken. *)
LEMMA PopPlaces ==
  ASSUME NEW q \in Seq(Senders), q # <<>>
  PROVE  /\ Len(q) \in Nat /\ 1 \in 1 .. Len(q)
         /\ Head(q) = q[1] /\ Head(q) \in Senders
         /\ \A i \in 1 .. Len(Tail(q)) : i + 1 \in 1 .. Len(q) /\ Tail(q)[i] = q[i + 1]
  OBVIOUS

(* A call that is not accepted yet is nowhere and has nothing to show. *)
LEMMA NotAccepted ==
  ASSUME IInv, NEW c \in Calls, pc[c] \in {"new", "sending"}
  PROVE  /\ reply[c] = "pending" /\ ran[c] = "no"
         /\ \A a \in Actors : serving[a] # c
         /\ \A a \in Actors : \A i \in 1 .. Len(mailbox[a]) : mailbox[a][i] # c
<1>1. QueuedInv /\ HeldInv /\ SlotInv
  BY DEF IInv
<1>2. reply[c] = "pending" /\ ran[c] = "no"
  BY <1>1 DEF SlotInv
<1>3. \A a \in Actors : serving[a] # c
  BY <1>1 DEF HeldInv, Unserved
<1>4. \A a \in Actors : \A i \in 1 .. Len(mailbox[a]) : mailbox[a][i] # c
  BY <1>1 DEF QueuedInv, Unserved
<1> QED
  BY <1>2, <1>3, <1>4

(* What the following lemmas show of every kind of step. *)
CallInv == QueuedInv /\ OnceInv /\ HeldInv /\ SlotInv

(* The task takes the first command of its queue. *)
LEMMA BeginKeeps ==
  ASSUME IInv, NEW a \in Actors, Begin(a)
  PROVE  CallInv'
<1> DEFINE t == Head(mailbox[a])
<1>1. /\ mailbox \in [Actors -> Seq(Senders)] /\ serving \in [Actors -> Senders \cup {None}]
      /\ ran \in [Calls -> {"no", "begun", "done"}]
      /\ QueuedInv /\ OnceInv /\ HeldInv /\ SlotInv
  BY DEF IInv, TypeOK
<1>2. /\ mailbox[a] \in Seq(Senders) /\ mailbox[a] # <<>>
      /\ serving' = [serving EXCEPT ![a] = t]
      /\ mailbox' = [mailbox EXCEPT ![a] = Tail(mailbox[a])]
      /\ ran' = IF t \in Calls THEN [ran EXCEPT ![t] = "begun"] ELSE ran
      /\ UNCHANGED <<pc, target, reply>>
  BY <1>1 DEF Begin, callVars
<1>3. /\ Len(mailbox[a]) \in Nat /\ 1 \in 1 .. Len(mailbox[a])
      /\ t = mailbox[a][1] /\ t \in Senders
      /\ \A i \in 1 .. Len(Tail(mailbox[a])) :
            i + 1 \in 1 .. Len(mailbox[a]) /\ Tail(mailbox[a])[i] = mailbox[a][i + 1]
  BY <1>2, PopPlaces
<1>4. t \in Calls => Unserved(t, a) /\ ran[t] = "no"
  BY <1>1, <1>3 DEF QueuedInv
<1> HIDE DEF t
<1>5. ASSUME NEW b \in Actors, NEW i \in 1 .. Len(mailbox'[b]), mailbox'[b][i] \in Calls
      PROVE  /\ mailbox'[b][i] # t
             /\ Unserved(mailbox'[b][i], b) /\ ran[mailbox'[b][i]] = "no"
  <2>1. CASE b = a
    <3>1. mailbox'[b] = Tail(mailbox[a])
      BY <1>1, <1>2, <2>1
    <3>2. i + 1 \in 1 .. Len(mailbox[a]) /\ mailbox'[b][i] = mailbox[a][i + 1] /\ i + 1 # 1
      BY <1>3, <1>5, <3>1
    <3>3. mailbox'[b][i] # t
      BY <1>1, <1>3, <1>5, <3>2 DEF OnceInv
    <3> QED
      BY <1>1, <1>5, <2>1, <3>2, <3>3 DEF QueuedInv
  <2>2. CASE b # a
    <3>1. mailbox'[b] = mailbox[b]
      BY <1>1, <1>2, <2>2
    <3>2. Unserved(mailbox'[b][i], b) /\ ran[mailbox'[b][i]] = "no"
      BY <1>1, <1>5, <3>1 DEF QueuedInv
    <3> QED
      BY <1>4, <1>5, <2>2, <3>2 DEF Unserved
  <2> QED
    BY <2>1, <2>2
<1>6. QueuedInv'
  <2>1. ASSUME NEW b \in Actors, NEW i \in 1 .. Len(mailbox'[b]), mailbox'[b][i] \in Calls
        PROVE  Unserved(mailbox[b][i], b)' /\ ran'[mailbox'[b][i]] = "no"
    <3>1. mailbox'[b][i] # t /\ Unserved(mailbox'[b][i], b) /\ ran[mailbox'[b][i]] = "no"
      BY <1>5, <2>1
    <3>2. Unserved(mailbox[b][i], b)'
      BY <1>2, <3>1 DEF Unserved
    <3>3. ran'[mailbox'[b][i]] = "no"
      BY <1>1, <1>2, <2>1, <3>1
    <3> QED
      BY <3>2, <3>3
  <2> QED
    BY <2>1 DEF QueuedInv
<1>7. OnceInv'
  <2>1. ASSUME NEW b \in Actors, NEW i \in 1 .. Len(mailbox'[b]), NEW j \in 1 .. Len(mailbox'[b]),
               mailbox'[b][i] \in Calls, mailbox'[b][i] = mailbox'[b][j]
        PROVE  i = j
    <3>1. CASE b = a
      <4>1. mailbox'[b] = Tail(mailbox[a])
        BY <1>1, <1>2, <3>1
      <4>2. /\ i + 1 \in 1 .. Len(mailbox[a]) /\ mailbox'[b][i] = mailbox[a][i + 1]
            /\ j + 1 \in 1 .. Len(mailbox[a]) /\ mailbox'[b][j] = mailbox[a][j + 1]
        BY <1>3, <4>1
      <4>3. i + 1 = j + 1
        BY <1>1, <2>1, <4>2 DEF OnceInv
      <4> QED
        BY <4>3
    <3>2. CASE b # a
      BY <1>1, <1>2, <2>1, <3>2 DEF OnceInv
    <3> QED
      BY <3>1, <3>2
  <2> QED
    BY <2>1 DEF OnceInv
<1>8. HeldInv'
  BY <1>1, <1>2, <1>4 DEF HeldInv, Unserved
<1>9. SlotInv'
  BY <1>1, <1>2, <1>4 DEF SlotInv, Unserved
<1> QED
  BY <1>6, <1>7, <1>8, <1>9 DEF CallInv

(* An answer goes to the calls that wait for it and to no other. *)
LEMMA AnswerCalls ==
  ASSUME TypeOK, NEW a \in Actors, NEW ts, NEW how \in {"sent", "gone"}, Answer(a, ts, how), NEW c \in Calls
  PROVE  reply'[c] = IF c \in ts /\ target[c] = a THEN how ELSE reply[c]
  BY DEF Answer, Slots, TypeOK, Senders

(* The handler returns: the call in hand is answered, once. *)
LEMMA FinishKeeps ==
  ASSUME IInv, NEW a \in Actors, Finish(a)
  PROVE  CallInv'
<1> DEFINE t == serving[a]
<1>1. /\ TypeOK /\ QueuedInv /\ OnceInv /\ HeldInv /\ SlotInv
      /\ serving \in [Actors -> Senders \cup {None}]
      /\ ran \in [Calls -> {"no", "begun", "done"}]
  BY DEF IInv, TypeOK
<1>2. t \in Calls /\ Unserved(t, a) /\ ran[t] = "begun"
  BY DEF IInv, HandInv, HeldInv, Finish
<1>3. /\ ran' = [ran EXCEPT ![t] = "done"]
      /\ serving' = [serving EXCEPT ![a] = None]
      /\ UNCHANGED <<mailbox, pc, target>>
  BY DEF Finish, callVars
<1>4. \A c \in Calls : reply'[c] = IF c = t THEN "sent" ELSE reply[c]
  <2>1. Answer(a, {t}, "sent")
    BY DEF Finish
  <2> QED
    BY <1>1, <1>2, <2>1, AnswerCalls DEF Unserved
<1> HIDE DEF t
<1>5. QueuedInv'
  <2>1. ASSUME NEW b \in Actors, NEW i \in 1 .. Len(mailbox[b]), mailbox[b][i] \in Calls
        PROVE  Unserved(mailbox[b][i], b)' /\ ran'[mailbox[b][i]] = "no"
    <3>1. Unserved(mailbox[b][i], b) /\ ran[mailbox[b][i]] = "no" /\ mailbox[b][i] # t
      BY <1>1, <1>2, <2>1 DEF QueuedInv
    <3> QED
      BY <1>1, <1>3, <1>4, <2>1, <3>1 DEF Unserved
  <2> QED
    BY <1>3, <2>1 DEF QueuedInv
<1>6. OnceInv'
  BY <1>1, <1>3 DEF OnceInv
<1>7. HeldInv'
  <2>1. ASSUME NEW b \in Actors, serving'[b] \in Calls
        PROVE  b # a /\ serving'[b] = serving[b] /\ serving[b] # t
    BY <1>1, <1>2, <1>3, <2>1, ExecutorAssumption DEF HeldInv, Unserved
  <2> QED
    BY <1>1, <1>3, <1>4, <2>1 DEF HeldInv, Unserved
<1>8. SlotInv'
  BY <1>1, <1>2, <1>3, <1>4 DEF SlotInv, Unserved
<1> QED
  BY <1>5, <1>6, <1>7, <1>8 DEF CallInv

(* on_stop returns: the slot of a shutdown is answered, no call's. *)
LEMMA FinishStopKeeps ==
  ASSUME IInv, NEW a \in Actors, FinishStop(a)
  PROVE  CallInv'
<1>1. /\ TypeOK /\ QueuedInv /\ OnceInv /\ HeldInv /\ SlotInv
      /\ serving \in [Actors -> Senders \cup {None}]
  BY DEF IInv, TypeOK
<1>2. serving[a] \notin Calls
  BY ExecutorAssumption DEF IInv, HandInv, FinishStop
<1>3. /\ serving' = [serving EXCEPT ![a] = None]
      /\ UNCHANGED <<mailbox, ran, pc, target>>
  BY DEF FinishStop, callVars
<1>4. \A c \in Calls : reply'[c] = reply[c]
  <2>1. Answer(a, {serving[a]}, "sent")
    BY DEF FinishStop
  <2> QED
    BY <1>1, <1>2, <2>1, AnswerCalls
<1>5. QueuedInv'
  BY <1>1, <1>3, <1>4 DEF QueuedInv, Unserved
<1>6. OnceInv'
  BY <1>1, <1>3 DEF OnceInv
<1>7. HeldInv'
  BY <1>1, <1>3, <1>4, ExecutorAssumption DEF HeldInv, Unserved
<1>8. SlotInv'
  BY <1>1, <1>3, <1>4 DEF SlotInv
<1> QED
  BY <1>5, <1>6, <1>7, <1>8 DEF CallInv

(* The task ends: every slot it held is dropped, no other. *)
LEMMA EndKeeps ==
  ASSUME IInv, NEW a \in Actors, End(a), UNCHANGED <<ran, pc, target>>
  PROVE  CallInv'
<1>1. /\ TypeOK /\ QueuedInv /\ OnceInv /\ HeldInv /\ SlotInv
      /\ serving \in [Actors -> Senders \cup {None}] /\ mailbox \in [Actors -> Seq(Senders)]
  BY DEF IInv, TypeOK
<1>2. /\ serving' = [serving EXCEPT ![a] = None]
      /\ mailbox' = [mailbox EXCEPT ![a] = <<>>]
      /\ UNCHANGED <<ran, pc, target>>
  BY DEF End
<1>3. \A c \in Calls :
        \/ reply'[c] = reply[c]
        \/ target[c] = a /\ reply'[c] = "gone" /\ ran[c] # "done" /\ pc[c] \in {"waiting", "cancelled"}
  <2>1. ASSUME NEW c \in Calls, c \in Range(mailbox[a]) \cup {serving[a]}
        PROVE  Unserved(c, a) /\ ran[c] \in {"no", "begun"}
    <3>1. CASE c = serving[a]
      BY <1>1, <3>1 DEF HeldInv
    <3>2. CASE c \in Range(mailbox[a])
      <4>1. PICK i \in 1 .. Len(mailbox[a]) : mailbox[a][i] = c
        BY <1>1, <3>2 DEF Range
      <4> QED
        BY <1>1, <4>1 DEF QueuedInv
    <3> QED
      BY <2>1, <3>1, <3>2
  <2>2. Answer(a, Range(mailbox[a]) \cup {serving[a]}, "gone")
    BY DEF End
  <2> QED
    BY <1>1, <2>1, <2>2, AnswerCalls DEF Unserved
<1>4. QueuedInv'
  <2>1. ASSUME NEW b \in Actors, NEW i \in 1 .. Len(mailbox'[b]), mailbox'[b][i] \in Calls
        PROVE  Unserved(mailbox[b][i], b)' /\ ran'[mailbox'[b][i]] = "no"
    <3>1. b # a /\ mailbox'[b] = mailbox[b]
      BY <1>1, <1>2
    <3>2. Unserved(mailbox[b][i], b) /\ ran[mailbox[b][i]] = "no"
      BY <1>1, <2>1, <3>1 DEF QueuedInv
    <3> QED
      BY <1>2, <1>3, <2>1, <3>1, <3>2 DEF Unserved
  <2> QED
    BY <2>1 DEF QueuedInv
<1>5. OnceInv'
  <2>1. ASSUME NEW b \in Actors
        PROVE  mailbox'[b] = mailbox[b] \/ mailbox'[b] = <<>>
    BY <1>1, <1>2
  <2> QED
    BY <1>1, <2>1 DEF OnceInv
<1>6. HeldInv'
  <2>1. ASSUME NEW b \in Actors, serving'[b] \in Calls
        PROVE  b # a /\ serving'[b] = serving[b]
    BY <1>1, <1>2, <2>1, ExecutorAssumption
  <2> QED
    BY <1>1, <1>2, <1>3, <2>1 DEF HeldInv, Unserved
<1>7. SlotInv'
  BY <1>1, <1>2, <1>3 DEF SlotInv
<1> QED
  BY <1>4, <1>5, <1>6, <1>7 DEF CallInv

(* A command is queued: by a call that was not accepted before, or by a     *)
(* shutdown.                                                                *)
LEMMA PushKeeps ==
  ASSUME IInv, NEW t \in Senders, NEW a \in Actors, Push(t, a), UNCHANGED <<serving, ran>>,
         \A c \in Calls :
            /\ reply'[c] = reply[c]
            /\ IF c = t THEN pc[c] \in {"new", "sending"} /\ pc'[c] = "waiting" /\ target'[c] = a
                        ELSE pc'[c] = pc[c] /\ target'[c] = target[c]
  PROVE  CallInv'
<1>1. /\ TypeOK /\ QueuedInv /\ OnceInv /\ HeldInv /\ SlotInv
      /\ mailbox \in [Actors -> Seq(Senders)]
  BY DEF IInv, TypeOK
<1>2. t \in Calls =>
        /\ reply[t] = "pending" /\ ran[t] = "no"
        /\ \A b \in Actors : serving[b] # t
        /\ \A b \in Actors : \A i \in 1 .. Len(mailbox[b]) : mailbox[b][i] # t
  BY NotAccepted
<1>3. \A b \in Actors : \A i \in 1 .. Len(mailbox'[b]) :
        \/ i \in 1 .. Len(mailbox[b]) /\ mailbox'[b][i] = mailbox[b][i]
        \/ b = a /\ i = Len(mailbox[a]) + 1 /\ mailbox'[b][i] = t
  BY <1>1, PushPlaces
<1>4. QueuedInv'
  <2>1. ASSUME NEW b \in Actors, NEW i \in 1 .. Len(mailbox'[b]), mailbox'[b][i] \in Calls
        PROVE  Unserved(mailbox[b][i], b)' /\ ran'[mailbox'[b][i]] = "no"
    <3>1. CASE i \in 1 .. Len(mailbox[b]) /\ mailbox'[b][i] = mailbox[b][i]
      <4>1. Unserved(mailbox[b][i], b) /\ ran[mailbox[b][i]] = "no" /\ mailbox[b][i] # t
        BY <1>1, <1>2, <2>1, <3>1 DEF QueuedInv
      <4> QED
        BY <2>1, <3>1, <4>1 DEF Unserved
    <3>2. CASE b = a /\ mailbox'[b][i] = t
      BY <1>2, <2>1, <3>2 DEF Unserved
    <3> QED
      BY <1>3, <3>1, <3>2
  <2> QED
    BY <2>1 DEF QueuedInv
<1>5. OnceInv'
  <2>1. ASSUME NEW b \in Actors, NEW i \in 1 .. Len(mailbox'[b]), NEW j \in 1 .. Len(mailbox'[b]),
               mailbox'[b][i] \in Calls, mailbox'[b][i] = mailbox'[b][j]
        PROVE  i = j
    <3>1. CASE i \in 1 .. Len(mailbox[b]) /\ mailbox'[b][i] = mailbox[b][i]
      <4>1. CASE j \in 1 .. Len(mailbox[b]) /\ mailbox'[b][j] = mailbox[b][j]
        BY <1>1, <2>1, <3>1, <4>1 DEF OnceInv
      <4>2. CASE mailbox'[b][j] = t
        BY <1>2, <2>1, <3>1, <4>2
      <4> QED
        BY <1>3, <4>1, <4>2
    <3>2. CASE b = a /\ i = Len(mailbox[a]) + 1 /\ mailbox'[b][i] = t
      BY <1>2, <1>3, <2>1, <3>2
    <3> QED
      BY <1>3, <3>1, <3>2
  <2> QED
    BY <2>1 DEF OnceInv
<1>6. HeldInv'
  BY <1>1, <1>2 DEF HeldInv, Unserved
<1>7. SlotInv'
  BY <1>1, <1>2 DEF SlotInv
<1> QED
  BY <1>4, <1>5, <1>6, <1>7 DEF CallInv

(* Nothing is queued: calls are refused, wait, learn what their slot says   *)
(* or go away.                                                              *)
LEMMA QuietKeeps ==
  ASSUME IInv, UNCHANGED <<mailbox, serving, ran>>,
         \A c \in Calls :
            /\ reply'[c] = reply[c]
            /\ \/ pc'[c] = pc[c] /\ target'[c] = target[c]
               \/ /\ pc[c] \in {"new", "sending"}
                  /\ pc'[c] \in {"sending", "busy", "terminated", "withdrawn"}
               \/ /\ pc[c] = "waiting" /\ target'[c] = target[c]
                  /\ \/ pc'[c] = "cancelled"
                     \/ reply[c] = "sent" /\ pc'[c] = "outcome"
                     \/ reply[c] = "gone" /\ pc'[c] = "dropped"
  PROVE  CallInv'
<1>1. QueuedInv /\ OnceInv /\ HeldInv /\ SlotInv
  BY DEF IInv
<1>2. ASSUME NEW c \in Calls, NEW a \in Actors, Unserved(c, a)
      PROVE  Unserved(c, a)'
  BY <1>2 DEF Unserved
<1>3. QueuedInv'
  BY <1>1, <1>2 DEF QueuedInv
<1>4. OnceInv'
  BY <1>1 DEF OnceInv
<1>5. HeldInv'
  BY <1>1, <1>2 DEF HeldInv
<1>6. SlotInv'
  BY <1>1 DEF SlotInv
<1> QED
  BY <1>3, <1>4, <1>5, <1>6 DEF CallInv

(* A sender's step queues its command or leaves queues and slots alone. *)
LEMMA SenderKeeps ==
  ASSUME IInv, NEW t \in Senders,
         \/ t \in Calls /\ \E a \in Actors : Call(t, a) \/ TryTransition(t, a)
         \/ t \in Stoppers /\ SendStop(t)
         \/ SendAdmitted(t) \/ SendClosed(t)
  PROVE  CallInv'
<1>1. /\ pc \in [Senders -> CallStates \cup StopStates] /\ target \in [Senders -> Actors \cup {None}]
      /\ reply \in [Senders -> {"pending", "sent", "gone"}]
      /\ Calls \subseteq Senders /\ Calls \cap Stoppers = {} /\ Senders = Calls \cup Stoppers
  BY ExecutorAssumption DEF IInv, TypeOK, Senders
<1>2. ASSUME NEW a \in Actors, SendStart(t, a), UNCHANGED <<serving, ran>>,
             \A c \in Calls : reply'[c] = reply[c], t \in Calls => pc[t] = "new"
      PROVE  CallInv'
  <2>1. CASE Push(t, a) /\ pc' = [pc EXCEPT ![t] = "waiting"] /\ target' = [target EXCEPT ![t] = a]
    BY <1>1, <1>2, <2>1, PushKeeps
  <2>2. CASE /\ UNCHANGED mailbox /\ target' = [target EXCEPT ![t] = a]
             /\ \/ pc' = [pc EXCEPT ![t] = IF t \in Stoppers THEN "locking" ELSE "terminated"]
                \/ pc' = [pc EXCEPT ![t] = "sending"]
    <3>1. \A c \in Calls : \/ pc'[c] = pc[c] /\ target'[c] = target[c]
                           \/ pc[c] \in {"new", "sending"} /\ pc'[c] \in {"sending", "terminated"}
      BY <1>1, <1>2, <2>2
    <3> QED
      BY <1>2, <2>2, <3>1, QuietKeeps
  <2> QED
    BY <1>2, <2>1, <2>2 DEF SendStart
<1>3. ASSUME t \in Calls, NEW a \in Actors, Call(t, a)
      PROVE  CallInv'
  BY <1>2, <1>3 DEF Call
<1>4. ASSUME t \in Stoppers, SendStop(t)
      PROVE  CallInv'
  <2>1. entries[t][pos[t]] \in Actors
    BY <1>4 DEF SendStop, IInv, TypeOK
  <2>2. \A c \in Calls : reply'[c] = reply[c]
    BY <1>1, <1>4 DEF SendStop
  <2>3. t \notin Calls
    BY <1>1, <1>4
  <2> QED
    BY <1>2, <1>4, <2>1, <2>2, <2>3 DEF SendStop
<1>5. ASSUME t \in Calls, NEW a \in Actors, TryTransition(t, a)
      PROVE  CallInv'
  <2>1. CASE Push(t, a) /\ pc' = [pc EXCEPT ![t] = "waiting"]
    BY <1>1, <1>5, <2>1, PushKeeps DEF TryTransition
  <2>2. CASE UNCHANGED mailbox /\ (pc' = [pc EXCEPT ![t] = "terminated"] \/ pc' = [pc EXCEPT ![t] = "busy"])
    <3>1. \A c \in Calls : \/ pc'[c] = pc[c] /\ target'[c] = target[c]
                           \/ pc[c] \in {"new", "sending"} /\ pc'[c] \in {"busy", "terminated"}
      BY <1>1, <1>5, <2>2 DEF TryTransition
    <3> QED
      BY <1>5, <2>2, <3>1, QuietKeeps DEF TryTransition
  <2> QED
    BY <1>5, <2>1, <2>2 DEF TryTransition
<1>6. ASSUME SendAdmitted(t)
      PROVE  CallInv'
  <2>1. target[t] \in Actors
    BY <1>6 DEF IInv, LineInv, SendAdmitted
  <2> QED
    BY <1>1, <1>6, <2>1, PushKeeps DEF SendAdmitted, callVars
<1>7. ASSUME SendClosed(t)
      PROVE  CallInv'
  <2>1. \A c \in Calls : \/ pc'[c] = pc[c] /\ target'[c] = target[c]
                         \/ pc[c] = "sending" /\ pc'[c] = "terminated"
    BY <1>1, <1>7 DEF SendClosed, callVars
  <2> QED
    BY <1>7, <2>1, QuietKeeps DEF SendClosed, callVars
<1> QED
  BY <1>3, <1>4, <1>5, <1>6, <1>7

LEMMA CallStepKeeps ==
  ASSUME IInv, [Next]_vars
  PROVE  CallInv'
<1>1. /\ pc \in [Senders -> CallStates \cup StopStates] /\ target \in [Senders -> Actors \cup {None}]
      /\ reply \in [Senders -> {"pending", "sent", "gone"}]
      /\ Calls \subseteq Senders /\ Stoppers \subseteq Senders /\ Calls \cap Stoppers = {}
  BY ExecutorAssumption DEF IInv, TypeOK, Senders
<1>2. ASSUME NEW a \in Actors, Register(a) \/ HandlerReturns(a) \/ TaskStep(a) \/ Panic(a)
      PROVE  CallInv'
  <2>1. CASE Register(a) \/ OnStart(a)
    BY <2>1, QuietKeeps DEF Register, OnStart, callVars
  <2>2. CASE Exit(a) \/ Panic(a) \/ Aborted(a)
    BY <2>2, EndKeeps DEF Exit, Panic, Aborted, callVars
  <2> QED
    BY <1>2, <2>1, <2>2, BeginKeeps, FinishKeeps, FinishStopKeeps DEF HandlerReturns, TaskStep
<1>3. ASSUME NEW c \in Calls,
             \/ \E a \in Actors : Call(c, a) \/ TryTransition(c, a)
             \/ CallStep(c) \/ CancelCall(c)
      PROVE  CallInv'
  <2>1. CASE TakeReply(c)
    <3>1. reply[c] \in {"sent", "gone"} /\ pc[c] = "waiting"
      BY <1>1, <2>1 DEF TakeReply
    <3>2. \A d \in Calls :
            \/ pc'[d] = pc[d]
            \/ /\ pc[d] = "waiting"
               /\ \/ reply[d] = "sent" /\ pc'[d] = "outcome"
                  \/ reply[d] = "gone" /\ pc'[d] = "dropped"
      BY <1>1, <2>1, <3>1 DEF TakeReply
    <3> QED
      BY <2>1, <3>2, QuietKeeps DEF TakeReply, taskVars, callVars
  <2>2. CASE CancelCall(c)
    <3>1. \A d \in Calls :
            \/ pc'[d] = pc[d]
            \/ pc[d] = "sending" /\ pc'[d] = "withdrawn"
            \/ pc[d] = "waiting" /\ pc'[d] = "cancelled"
      BY <1>1, <2>2 DEF CancelCall
    <3> QED
      BY <2>2, <3>1, QuietKeeps DEF CancelCall, callVars
  <2> QED
    BY <1>1, <1>3, <2>1, <2>2, SenderKeeps DEF CallStep
<1>4. ASSUME NEW n \in Stoppers, ShutdownStart(n) \/ StopStep(n)
      PROVE  CallInv'
  <2>1. CASE \/ ShutdownStart(n) \/ StopAnswered(n) \/ StopTimeout(n) \/ LockTask(n)
             \/ Joined(n) \/ JoinTimeout(n) \/ ShutdownDone(n)
    <3>1. \A c \in Calls : pc'[c] = pc[c]
      BY <1>1, <2>1 DEF ShutdownStart, StopAnswered, StopTimeout, LockTask, Joined, JoinTimeout, ShutdownDone
    <3>2. UNCHANGED <<mailbox, serving, ran, reply, target>>
      BY <2>1 DEF ShutdownStart, StopAnswered, StopTimeout, LockTask, Joined, JoinTimeout, ShutdownDone,
                  taskVars, callVars
    <3> QED
      BY <3>1, <3>2, QuietKeeps
  <2> QED
    BY <1>1, <1>4, <2>1, SenderKeeps DEF StopStep
<1>5. CASE UNCHANGED vars
  BY <1>5, QuietKeeps DEF vars
<1> QED
  BY <1>2, <1>3, <1>4, <1>5 DEF Next

LEMMA LineStep ==
  ASSUME IInv, [Next]_vars
  PROVE  LineInv'
<1>1. /\ pc \in [Senders -> CallStates \cup StopStates] /\ target \in [Senders -> Actors \cup {None}]
      /\ LineInv /\ Calls \subseteq Senders /\ Stoppers \subseteq Senders
  BY DEF IInv, TypeOK, Senders
<1>2. ASSUME UNCHANGED target,
             \A t \in Senders : pc'[t] = pc[t] \/ pc'[t] # "sending"
      PROVE  LineInv'
  BY <1>1, <1>2 DEF LineInv
<1>3. ASSUME NEW t \in Senders, NEW a \in Actors, target' = [target EXCEPT ![t] = a],
             \A u \in Senders : u # t => pc'[u] = pc[u]
      PROVE  LineInv'
  BY <1>1, <1>3 DEF LineInv
<1>4. ASSUME NEW t \in Senders, NEW a \in Actors, SendStart(t, a)
      PROVE  LineInv'
  BY <1>1, <1>3, <1>4 DEF SendStart
<1>5. ASSUME NEW n \in Stoppers, SendStop(n)
      PROVE  LineInv'
  <2>1. entries[n][pos[n]] \in Actors
    BY <1>5 DEF SendStop, IInv, TypeOK
  <2> QED
    BY <1>1, <1>4, <1>5, <2>1 DEF SendStop
<1>6. ASSUME NEW c \in Calls, NEW a \in Actors, Call(c, a) \/ TryTransition(c, a)
      PROVE  LineInv'
  BY <1>1, <1>3, <1>4, <1>6 DEF Call, TryTransition
<1>7. ASSUME NEW a \in Actors, Register(a) \/ HandlerReturns(a) \/ TaskStep(a) \/ Panic(a)
      PROVE  LineInv'
  BY <1>2, <1>7 DEF HandlerReturns, TaskStep, Register, OnStart, Begin, Finish, FinishStop, Exit, Panic,
                    Aborted, callVars
<1>8. ASSUME NEW t \in Senders,
             \/ SendAdmitted(t) \/ SendClosed(t) \/ TakeReply(t) \/ CancelCall(t)
             \/ ShutdownStart(t) \/ StopAnswered(t) \/ StopTimeout(t) \/ LockTask(t)
             \/ Joined(t) \/ JoinTimeout(t) \/ ShutdownDone(t)
      PROVE  LineInv'
  BY <1>1, <1>2, <1>8 DEF SendAdmitted, SendClosed, TakeReply, CancelCall, ShutdownStart, StopAnswered,
                          StopTimeout, LockTask, Joined, JoinTimeout, ShutdownDone, callVars
<1>9. CASE UNCHANGED vars
  BY <1>2, <1>9 DEF vars
<1> QED
  BY <1>1, <1>5, <1>6, <1>7, <1>8, <1>9 DEF Next, CallStep, StopStep

(* A task that ended stays ended and a fired abort stays fired. *)
LEMMA OverStable ==
  ASSUME TypeOK, [Next]_vars, NEW a \in Actors, Over(a)
  PROVE  Over(a)'
<1>1. task \in [Actors -> TaskStates]
  BY DEF TypeOK
<1>2. CASE UNCHANGED task /\ aborted \subseteq aborted'
  BY <1>2 DEF Over
<1>3. ASSUME NEW b \in Actors, Register(b) \/ HandlerReturns(b) \/ TaskStep(b) \/ Panic(b)
      PROVE  Over(a)'
  BY <1>1, <1>3 DEF HandlerReturns, TaskStep, Register, OnStart, Begin, Finish, FinishStop, Exit, Panic,
                    Aborted, End, Over, joinVars
<1>4. ASSUME NEW c \in Calls,
             \/ \E b \in Actors : Call(c, b) \/ TryTransition(c, b)
             \/ CallStep(c) \/ CancelCall(c)
      PROVE  UNCHANGED <<task, aborted>>
  BY <1>4 DEF CallStep, Call, TryTransition, SendAdmitted, SendClosed, TakeReply, CancelCall, taskVars, joinVars
<1>5. ASSUME NEW n \in Stoppers, ShutdownStart(n) \/ StopStep(n)
      PROVE  UNCHANGED task /\ aborted \subseteq aborted'
  BY <1>5 DEF StopStep, ShutdownStart, SendStop, SendAdmitted, SendClosed, StopAnswered, StopTimeout, LockTask,
              Joined, JoinTimeout, ShutdownDone, taskVars, joinVars
<1>6. CASE UNCHANGED vars
  BY <1>2, <1>6 DEF vars
<1> QED
  BY <1>2, <1>3, <1>4, <1>5, <1>6 DEF Next

(* What lies behind a shutdown stays over. *)
LEMMA OverBehind ==
  ASSUME IInv, [Next]_vars, NEW n \in Stoppers
  PROVE  \A i \in 1 .. Len(entries[n]) :
           /\ entries[n][i] \in Actors
           /\ i < pos[n] => task'[entries[n][i]] = "ended" \/ entries[n][i] \in aborted'
<1>1. TypeOK /\ ShutdownInv
  BY DEF IInv
<1>2. \A i \in 1 .. Len(entries[n]) : entries[n][i] \in Actors
  BY <1>1 DEF TypeOK
<1>3. ASSUME NEW i \in 1 .. Len(entries[n]), i < pos[n]
      PROVE  task'[entries[n][i]] = "ended" \/ entries[n][i] \in aborted'
  <2>1. Over(entries[n][i]) /\ entries[n][i] \in Actors
    BY <1>1, <1>2, <1>3 DEF ShutdownInv, ShutdownAt
  <2> QED
    BY <1>1, <2>1, OverStable DEF Over
<1> QED
  BY <1>2, <1>3

(* A shutdown that does not move, ... *)
LEMMA ShutdownRests ==
  ASSUME IInv, [Next]_vars, NEW n \in Stoppers,
         pc'[n] = pc[n], pos'[n] = pos[n], entries'[n] = entries[n], target'[n] = target[n]
  PROVE  ShutdownAt(n)'
<1>1. ShutdownAt(n)
  BY DEF IInv, ShutdownInv
<1> QED
  BY <1>1, OverBehind DEF ShutdownAt, Over

(* ... one that starts, asks for a stop, learns the answer or gives up      *)
(* waiting for it, ...                                                      *)
LEMMA ShutdownAsks ==
  ASSUME IInv, [Next]_vars, NEW n \in Stoppers,
         \/ ShutdownStart(n) \/ SendStop(n) \/ SendAdmitted(n) \/ SendClosed(n)
         \/ StopAnswered(n) \/ StopTimeout(n) \/ ShutdownDone(n)
  PROVE  ShutdownAt(n)'
<1>1. /\ ShutdownAt(n)
      /\ pc \in [Senders -> CallStates \cup StopStates] /\ target \in [Senders -> Actors \cup {None}]
      /\ entries \in [Stoppers -> Seq(Actors)] /\ pos[n] \in Nat \ {0} /\ n \in Senders
  BY DEF IInv, ShutdownInv, TypeOK, Senders
<1>2. CASE ShutdownStart(n)
  BY <1>1, <1>2 DEF ShutdownStart, ShutdownAt
<1>3. CASE SendStop(n)
  <2>1. /\ pc'[n] \in {"sending", "waiting", "locking"}
        /\ target'[n] = entries[n][pos[n]] /\ pos[n] <= Len(entries[n])
        /\ UNCHANGED <<entries, pos>>
    BY <1>1, <1>3 DEF SendStop, SendStart
  <2> QED
    BY <2>1, OverBehind DEF ShutdownAt, Over
<1>4. CASE SendAdmitted(n) \/ SendClosed(n) \/ StopAnswered(n) \/ StopTimeout(n)
  <2>1. /\ pc[n] \in {"sending", "waiting"} /\ pc'[n] \in {"waiting", "locking"}
        /\ UNCHANGED <<target, entries, pos>>
    BY <1>1, <1>4 DEF SendAdmitted, SendClosed, StopAnswered, StopTimeout, callVars
  <2> QED
    BY <1>1, <2>1, OverBehind DEF ShutdownAt, Over
<1>5. CASE ShutdownDone(n)
  <2>1. pc'[n] = "done" /\ pos[n] > Len(entries[n]) /\ UNCHANGED <<entries, pos>>
    BY <1>1, <1>5 DEF ShutdownDone, callVars
  <2> QED
    BY <1>1, <2>1, OverBehind DEF ShutdownAt, Over
<1> QED
  BY <1>2, <1>3, <1>4, <1>5

(* ... and one that joins the task, or finds that another did.              *)
LEMMA ShutdownJoins ==
  ASSUME IInv, [Next]_vars, NEW n \in Stoppers, LockTask(n) \/ Joined(n) \/ JoinTimeout(n)
  PROVE  ShutdownAt(n)'
<1> DEFINE a == target[n]
<1>1. /\ ShutdownAt(n) /\ JoinInv
      /\ pc \in [Senders -> CallStates \cup StopStates]
      /\ entries \in [Stoppers -> Seq(Actors)] /\ pos \in [Stoppers -> Nat \ {0}] /\ n \in Senders
  BY DEF IInv, ShutdownInv, TypeOK, Senders
<1>2. pos[n] <= Len(entries[n]) /\ a = entries[n][pos[n]]
  BY <1>1 DEF LockTask, Joined, JoinTimeout, ShutdownAt
<1>3. UNCHANGED <<target, entries>>
  BY DEF LockTask, Joined, JoinTimeout
<1>4. CASE pc'[n] = "joining" /\ UNCHANGED pos
  BY <1>1, <1>2, <1>3, <1>4, OverBehind DEF ShutdownAt, Over
<1>5. CASE /\ pc'[n] = "next" /\ pos'[n] = pos[n] + 1
           /\ task'[a] = "ended" \/ a \in aborted'
  <2>1. ASSUME NEW i \in 1 .. Len(entries[n]), i < pos'[n]
        PROVE  task'[entries[n][i]] = "ended" \/ entries[n][i] \in aborted'
    <3>1. CASE i < pos[n]
      BY <3>1, OverBehind
    <3>2. CASE i = pos[n]
      BY <1>2, <1>5, <3>2
    <3> QED
      BY <1>1, <1>5, <2>1, <3>1, <3>2
  <2> QED
    BY <1>3, <1>5, <2>1 DEF ShutdownAt, Over
<1>6. CASE LockTask(n)
  <2>1. CASE a \in joinTaken
    <3>1. Over(a)
      BY <1>1, <1>6, <2>1 DEF LockTask, JoinInv
    <3>2. pc'[n] = "next" /\ pos'[n] = pos[n] + 1 /\ UNCHANGED <<task, aborted>>
      BY <1>1, <1>6, <2>1 DEF LockTask, taskVars
    <3> QED
      BY <1>5, <3>1, <3>2 DEF Over
  <2>2. CASE a \notin joinTaken
    BY <1>1, <1>4, <1>6, <2>2 DEF LockTask
  <2> QED
    BY <2>1, <2>2
<1>7. CASE Joined(n)
  BY <1>1, <1>5, <1>7 DEF Joined, taskVars
<1>8. CASE JoinTimeout(n)
  BY <1>1, <1>5, <1>8 DEF JoinTimeout
<1> QED
  BY <1>6, <1>7, <1>8

LEMMA ShutdownStep ==
  ASSUME IInv, [Next]_vars
  PROVE  ShutdownInv'
<1>1. /\ pc \in [Senders -> CallStates \cup StopStates] /\ target \in [Senders -> Actors \cup {None}]
      /\ pos \in [Stoppers -> Nat \ {0}] /\ entries \in [Stoppers -> Seq(Actors)]
      /\ Calls \subseteq Senders /\ Stoppers \subseteq Senders /\ Calls \cap Stoppers = {}
  BY ExecutorAssumption DEF IInv, TypeOK, Senders
<1>2. ASSUME NEW n \in Stoppers
      PROVE  ShutdownAt(n)'
  <2>1. CASE UNCHANGED <<pc, target, entries, pos>>
    BY <2>1, ShutdownRests
  <2>2. ASSUME NEW a \in Actors, Register(a) \/ HandlerReturns(a) \/ TaskStep(a) \/ Panic(a)
        PROVE  UNCHANGED <<pc, target, entries, pos>>
    BY <2>2 DEF HandlerReturns, TaskStep, Register, OnStart, Begin, Finish, FinishStop, Exit, Panic, Aborted,
                callVars
  <2>3. ASSUME NEW c \in Calls,
               \/ \E a \in Actors : Call(c, a) \/ TryTransition(c, a)
               \/ CallStep(c) \/ CancelCall(c)
        PROVE  pc'[n] = pc[n] /\ pos'[n] = pos[n] /\ entries'[n] = entries[n] /\ target'[n] = target[n]
    BY <1>1, <2>3 DEF CallStep, Call, SendStart, TryTransition, SendAdmitted, SendClosed, TakeReply, CancelCall,
                      callVars
  <2>4. ASSUME NEW m \in Stoppers, m # n, ShutdownStart(m) \/ StopStep(m)
        PROVE  pc'[n] = pc[n] /\ pos'[n] = pos[n] /\ entries'[n] = entries[n] /\ target'[n] = target[n]
    BY <1>1, <2>4 DEF StopStep, ShutdownStart, SendStop, SendStart, SendAdmitted, SendClosed, StopAnswered,
                      StopTimeout, LockTask, Joined, JoinTimeout, ShutdownDone, callVars
  <2>5. CASE ShutdownStart(n) \/ StopStep(n)
    BY <2>5, ShutdownAsks, ShutdownJoins DEF StopStep
  <2>6. CASE UNCHANGED vars
    BY <2>1, <2>6 DEF vars
  <2> QED
    BY <2>1, <2>2, <2>3, <2>4, <2>5, <2>6, ShutdownRests DEF Next
<1> QED
  BY <1>2 DEF ShutdownInv

(* Every step that lets the task mutex go leaves the task over. *)
LEMMA JoinStep ==
  ASSUME IInv, [Next]_vars
  PROVE  JoinInv'
<1>1. TypeOK /\ JoinInv /\ joinLock \in [Actors -> Stoppers \cup {None}] /\ joinTaken \subseteq Actors
  BY DEF IInv, TypeOK
<1>2. \A a \in Actors : Over(a) => task'[a] = "ended" \/ a \in aborted'
  BY <1>1, OverStable DEF Over
<1>3. CASE UNCHANGED <<joinLock, joinTaken>>
  BY <1>1, <1>2, <1>3 DEF JoinInv, Over
<1>4. ASSUME NEW n \in Stoppers, LockTask(n)
      PROVE  JoinInv'
  <2>1. CASE UNCHANGED <<joinLock, joinTaken>>
    BY <1>3, <2>1
  <2>2. CASE joinLock' = [joinLock EXCEPT ![target[n]] = n] /\ joinTaken' = joinTaken \cup {target[n]}
    <3>1. target[n] \in Actors
      BY <1>1, <1>4, ShutdownTarget DEF LockTask, IInv
    <3> QED
      BY <1>1, <1>2, <2>2, <3>1, ExecutorAssumption DEF JoinInv, Over
  <2> QED
    BY <1>4, <2>1, <2>2 DEF LockTask
<1>5. ASSUME NEW n \in Stoppers, Joined(n) \/ JoinTimeout(n)
      PROVE  JoinInv'
  <2>1. /\ joinLock' = [joinLock EXCEPT ![target[n]] = None] /\ UNCHANGED joinTaken
        /\ task'[target[n]] = "ended" \/ target[n] \in aborted'
    BY <1>5 DEF Joined, JoinTimeout, taskVars
  <2> QED
    BY <1>1, <1>2, <2>1 DEF JoinInv, Over
<1>6. CASE UNCHANGED vars
  BY <1>3, <1>6 DEF vars
<1> QED
  BY <1>3, <1>4, <1>5, <1>6
     DEF Next, HandlerReturns, TaskStep, CallStep, StopStep, Register, OnStart, Begin, Finish, FinishStop, Exit,
         Panic, Aborted, Call, TryTransition, SendAdmitted, SendClosed, TakeReply, CancelCall, ShutdownStart,
         SendStop, StopAnswered, StopTimeout, ShutdownDone, joinVars

-----------------------------------------------------------------------------
LEMMA InitInv == Init => IInv
<1> SUFFICES ASSUME Init PROVE IInv
  OBVIOUS
<1>1. TypeOK
  BY InitType
<1>2. HandInv
  BY DEF Init, HandInv
<1>3. QueuedInv /\ OnceInv
  BY DEF Init, QueuedInv, OnceInv
<1>4. HeldInv
  BY ExecutorAssumption DEF Init, HeldInv
<1>5. SlotInv /\ LineInv
  BY DEF Init, SlotInv, LineInv, Senders
<1>6. ShutdownInv
  BY DEF Init, ShutdownInv, ShutdownAt, Senders
<1>7. JoinInv
  BY DEF Init, JoinInv
<1> QED
  BY <1>1, <1>2, <1>3, <1>4, <1>5, <1>6, <1>7 DEF IInv

LEMMA StepInv == IInv /\ [Next]_vars => IInv'
<1> SUFFICES ASSUME IInv, [Next]_vars PROVE IInv'
  OBVIOUS
<1>1. TypeOK'
  <2>1. TypeOK /\ ShutdownInv
    BY DEF IInv
  <2>2. CASE UNCHANGED vars
    BY <2>1, <2>2 DEF vars, TypeOK
  <2> QED
    BY <2>1, <2>2, TaskStepType, CallStepType, StopStepType DEF Next
<1>2. CallInv'
  BY CallStepKeeps
<1> QED
  BY <1>1, <1>2, HandStep, LineStep, ShutdownStep, JoinStep DEF IInv, CallInv

(* The inductive invariant holds in every reachable state. *)
LEMMA Inductive == Spec => []IInv
  BY InitInv, StepInv, PTL DEF Spec

(* Tasks, queues, slots and shutdowns keep their types. *)
THEOREM TypeCorrect == Spec => []TypeOK
<1>1. IInv => TypeOK
  BY DEF IInv
<1> QED
  BY <1>1, Inductive, PTL

(* A caller is told "outcome" only of a command its actor completed, and    *)
(* "dropped" only of one it did not, for any number of callers, actors and  *)
(* shutdowns that race.                                                     *)
THEOREM OutcomeCorrect == Spec => []OutcomeMeansRan
<1>1. IInv => OutcomeMeansRan
  BY DEF IInv, SlotInv, OutcomeMeansRan
<1> QED
  BY <1>1, Inductive, PTL

(* However many shutdowns run next to each other, one that returns leaves   *)
(* no task of its entries running detached.                                 *)
THEOREM ShutdownCorrect == Spec => []ShutdownLeavesNone
<1>1. ASSUME IInv PROVE ShutdownLeavesNone
  <2>1. ASSUME NEW n \in Stoppers, pc[n] = "done", NEW a \in Range(entries[n])
        PROVE  task[a] = "ended" \/ a \in aborted
    <3>1. /\ entries[n] \in Seq(Actors) /\ pos[n] \in Nat /\ pos[n] > Len(entries[n])
          /\ \A i \in 1 .. Len(entries[n]) : i < pos[n] => Over(entries[n][i])
      BY <1>1, <2>1 DEF IInv, TypeOK, ShutdownInv, ShutdownAt
    <3>2. PICK i \in 1 .. Len(entries[n]) : entries[n][i] = a
      BY <3>1 DEF Range
    <3>3. i < pos[n]
      BY <3>1
    <3> QED
      BY <3>1, <3>2, <3>3 DEF Over
  <2> QED
    BY <2>1 DEF ShutdownLeavesNone
<1> QED
  BY <1>1, Inductive, PTL

(* No command begins after on_stop. *)
THEOREM StopFinal == Spec => StopIsFinal
<1>1. ASSUME IInv, [Next]_vars, NEW c \in Calls, ran[c] = "no", ran'[c] = "begun"
      PROVE  ~stopRan[target[c]]
  <2>1. ran \in [Calls -> {"no", "begun", "done"}] /\ mailbox \in [Actors -> Seq(Senders)]
    BY <1>1 DEF IInv, TypeOK
  <2>2. PICK a \in Actors : Begin(a)
    <3>1. ran' # ran
      BY <1>1
    <3>2. ASSUME NEW a \in Actors, Finish(a)
          PROVE  FALSE
      BY <1>1, <2>1, <3>2 DEF Finish
    <3> QED
      BY <1>1, <3>1, <3>2
         DEF Next, HandlerReturns, TaskStep, CallStep, StopStep, Register, OnStart, FinishStop, Exit, Panic,
             Aborted, Call, TryTransition, SendAdmitted, SendClosed, TakeReply, CancelCall, ShutdownStart,
             SendStop, StopAnswered, StopTimeout, LockTask, Joined, JoinTimeout, ShutdownDone, taskVars, vars
  <2>3. mailbox[a] \in Seq(Senders) /\ mailbox[a] # <<>> /\ task[a] = "idle"
    BY <2>1, <2>2 DEF Begin
  <2>4. 1 \in 1 .. Len(mailbox[a]) /\ Head(mailbox[a]) = mailbox[a][1]
    BY <2>3, PopPlaces
  <2>5. c = Head(mailbox[a])
    BY <1>1, <2>1, <2>2 DEF Begin
  <2>6. target[c] = a
    BY <1>1, <2>4, <2>5 DEF IInv, QueuedInv, Unserved
  <2> QED
    BY <1>1, <2>3, <2>6 DEF IInv, HandInv
<1>2. IInv /\ [Next]_vars =>
        [\A c \in Calls : ran[c] = "no" /\ ran'[c] = "begun" => ~stopRan[target[c]]]_vars
  BY <1>1
<1> QED
  BY <1>2, Inductive, PTL DEF StopIsFinal, Spec

-----------------------------------------------------------------------------
(* The refinement of ActorCalls.  What callers know and what was executed   *)
(* changes with the variables it is made of.                                *)
LEMMA CallerSame ==
  ASSUME \A c \in Calls : pc'[c] = pc[c]
  PROVE  callerBar' = callerBar
<1>1. \A c \in Calls : CallerKnows(c)' = CallerKnows(c)
  BY DEF CallerKnows
<1> QED
  BY <1>1 DEF callerBar

LEMMA CallerMoves ==
  ASSUME NEW c \in Calls, \A d \in Calls : d # c => pc'[d] = pc[d]
  PROVE  callerBar' = [callerBar EXCEPT ![c] = CallerKnows(c)']
<1>1. \A d \in Calls : d # c => CallerKnows(d)' = CallerKnows(d)
  BY DEF CallerKnows
<1> QED
  BY <1>1 DEF callerBar

LEMMA EffectSame ==
  ASSUME UNCHANGED <<ran, serving>>
  PROVE  effectBar' = effectBar
  BY DEF effectBar, EffectOf

LEMMA OverSame ==
  ASSUME UNCHANGED <<task, stopRan>>
  PROVE  overBar' = overBar
  BY DEF overBar

LEMMA PromiseInit == Init => Promise!Init
  BY DEF Init, Promise!Init, callerBar, effectBar, overBar, CallerKnows, EffectOf, Senders

(* Steps of the task. *)
LEMMA RefineRegister ==
  ASSUME IInv, NEW a \in Actors, Register(a) \/ OnStart(a)
  PROVE  UNCHANGED Promise!vars
<1>1. task \in [Actors -> TaskStates]
  BY DEF IInv, TypeOK
<1>2. UNCHANGED <<mailbox, serving, callerBar, effectBar>>
  BY CallerSame, EffectSame DEF Register, OnStart
<1>3. overBar' = overBar
  BY <1>1 DEF Register, OnStart, overBar
<1> QED
  BY <1>2, <1>3 DEF Promise!vars

LEMMA RefineBegin ==
  ASSUME IInv, NEW a \in Actors, Begin(a)
  PROVE  Promise!Execute(a)
<1> DEFINE t == Head(mailbox[a])
<1>1. /\ mailbox \in [Actors -> Seq(Senders)] /\ serving \in [Actors -> Senders \cup {None}]
      /\ ran \in [Calls -> {"no", "begun", "done"}] /\ task \in [Actors -> TaskStates]
      /\ HandInv /\ QueuedInv /\ HeldInv
  BY DEF IInv, TypeOK
<1>2. /\ mailbox[a] \in Seq(Senders) /\ mailbox[a] # <<>> /\ task[a] = "idle"
      /\ serving' = [serving EXCEPT ![a] = t]
      /\ mailbox' = [mailbox EXCEPT ![a] = Tail(mailbox[a])]
      /\ task' = [task EXCEPT ![a] = IF t \in Stoppers THEN "stopping" ELSE "busy"]
      /\ ran' = IF t \in Calls THEN [ran EXCEPT ![t] = "begun"] ELSE ran
      /\ UNCHANGED <<pc, stopRan>>
  BY <1>1 DEF Begin
<1>3. t = mailbox[a][1] /\ t \in Senders /\ 1 \in 1 .. Len(mailbox[a])
  BY <1>2, PopPlaces
<1>4. t \in Calls => ran[t] = "no"
  BY <1>1, <1>3 DEF QueuedInv
<1> HIDE DEF t
<1>5. a \notin overBar /\ serving[a] = None
  BY <1>1, <1>2 DEF HandInv, overBar
<1>6. UNCHANGED <<callerBar, overBar>>
  BY <1>1, <1>2, CallerSame DEF overBar
<1>7. ASSUME NEW c \in Calls, c # t
      PROVE  EffectOf(c)' = EffectOf(c)
  <2>1. ran'[c] = ran[c]
    BY <1>1, <1>2, <1>7
  <2>2. (\E b \in Actors : serving'[b] = c) <=> (\E b \in Actors : serving[b] = c)
    BY <1>1, <1>2, <1>5, <1>7, ExecutorAssumption
  <2> QED
    BY <2>1, <2>2 DEF EffectOf
<1>8. CASE t \in Calls
  <2>1. PICK c \in Calls : c = t
    BY <1>8
  <2>2. EffectOf(c)' = "running" /\ EffectOf(c) = "none"
    BY <1>1, <1>2, <1>4, <2>1 DEF EffectOf
  <2>3. effectBar' = [effectBar EXCEPT ![c] = "running"] /\ effectBar[c] = "none"
    BY <1>7, <2>1, <2>2 DEF effectBar
  <2> QED
    BY <1>2, <1>5, <1>6, <1>8, <2>1, <2>3 DEF Promise!Execute, t
<1>9. CASE t \in Stoppers
  <2>1. effectBar' = effectBar
    BY <1>7, <1>9, ExecutorAssumption DEF effectBar
  <2> QED
    BY <1>2, <1>5, <1>6, <1>9, <2>1 DEF Promise!Execute, t
<1> QED
  BY <1>3, <1>8, <1>9 DEF Senders

LEMMA RefineFinish ==
  ASSUME IInv, NEW a \in Actors, Finish(a)
  PROVE  Promise!Complete(a)
<1> DEFINE t == serving[a]
<1>1. /\ serving \in [Actors -> Senders \cup {None}]
      /\ ran \in [Calls -> {"no", "begun", "done"}] /\ task \in [Actors -> TaskStates]
      /\ HandInv /\ HeldInv
  BY DEF IInv, TypeOK
<1>2. /\ task[a] = "busy" /\ task' = [task EXCEPT ![a] = "idle"]
      /\ serving' = [serving EXCEPT ![a] = None]
      /\ ran' = [ran EXCEPT ![t] = "done"]
      /\ UNCHANGED <<pc, mailbox, stopRan>>
  BY DEF Finish
<1>3. t \in Calls
  BY <1>1, <1>2 DEF HandInv
<1>4. UNCHANGED <<callerBar, overBar>>
  BY <1>1, <1>2, CallerSame DEF overBar
<1>5. ASSUME NEW c \in Calls, c # t
      PROVE  EffectOf(c)' = EffectOf(c)
  <2>1. ran'[c] = ran[c]
    BY <1>1, <1>2, <1>5
  <2>2. (\E b \in Actors : serving'[b] = c) <=> (\E b \in Actors : serving[b] = c)
    BY <1>1, <1>2, <1>5, ExecutorAssumption
  <2> QED
    BY <2>1, <2>2 DEF EffectOf
<1>6. PICK c \in Calls : c = t
  BY <1>3
<1>7. EffectOf(c)' = "done"
  BY <1>1, <1>2, <1>6 DEF EffectOf
<1>8. effectBar' = [effectBar EXCEPT ![t] = "done"]
  BY <1>5, <1>6, <1>7 DEF effectBar
<1> QED
  BY <1>2, <1>3, <1>4, <1>8 DEF Promise!Complete

LEMMA RefineFinishStop ==
  ASSUME IInv, NEW a \in Actors, FinishStop(a)
  PROVE  Promise!Stop(a)
<1>1. /\ serving \in [Actors -> Senders \cup {None}] /\ task \in [Actors -> TaskStates]
      /\ stopRan \in [Actors -> BOOLEAN] /\ HandInv
  BY DEF IInv, TypeOK
<1>2. /\ task[a] = "stopping" /\ task' = [task EXCEPT ![a] = "exiting"]
      /\ stopRan' = [stopRan EXCEPT ![a] = TRUE]
      /\ serving' = [serving EXCEPT ![a] = None]
      /\ UNCHANGED <<pc, mailbox, ran>>
  BY DEF FinishStop
<1>3. serving[a] \in Stoppers
  BY <1>1, <1>2 DEF HandInv
<1>4. callerBar' = callerBar
  BY <1>2, CallerSame
<1>5. overBar' = overBar \cup {a}
  BY <1>1, <1>2 DEF overBar
<1>6. ASSUME NEW c \in Calls
      PROVE  EffectOf(c)' = EffectOf(c)
  <2>1. (\E b \in Actors : serving'[b] = c) <=> (\E b \in Actors : serving[b] = c)
    BY <1>1, <1>2, <1>3, ExecutorAssumption
  <2> QED
    BY <1>2, <2>1 DEF EffectOf
<1>7. effectBar' = effectBar
  BY <1>6 DEF effectBar
<1> QED
  BY <1>2, <1>3, <1>4, <1>5, <1>7 DEF Promise!Stop

LEMMA RefineEnd ==
  ASSUME IInv, NEW a \in Actors, Exit(a) \/ Panic(a) \/ Aborted(a)
  PROVE  Promise!Discard(a)
<1>1. /\ serving \in [Actors -> Senders \cup {None}] /\ task \in [Actors -> TaskStates]
      /\ ran \in [Calls -> {"no", "begun", "done"}] /\ HandInv /\ HeldInv
  BY DEF IInv, TypeOK
<1>2. /\ task' = [task EXCEPT ![a] = "ended"]
      /\ mailbox' = [mailbox EXCEPT ![a] = <<>>]
      /\ serving' = [serving EXCEPT ![a] = None]
      /\ UNCHANGED <<pc, ran, stopRan>>
  BY DEF Exit, Panic, Aborted, End
<1>3. callerBar' = callerBar
  BY <1>2, CallerSame
<1>4. overBar' = overBar \cup {a}
  BY <1>1, <1>2 DEF overBar
<1>5. ASSUME NEW c \in Calls
      PROVE  EffectOf(c)' = IF serving[a] = c THEN "lost" ELSE EffectOf(c)
  <2>1. CASE serving[a] = c
    <3>1. ran[c] = "begun" /\ \A b \in Actors : b # a => serving[b] # c
      BY <1>1, <2>1 DEF HeldInv, Unserved
    <3>2. \A b \in Actors : serving'[b] # c
      BY <1>1, <1>2, <3>1, ExecutorAssumption
    <3> QED
      BY <1>2, <2>1, <3>1, <3>2 DEF EffectOf
  <2>2. CASE serving[a] # c
    <3>1. (\E b \in Actors : serving'[b] = c) <=> (\E b \in Actors : serving[b] = c)
      BY <1>1, <1>2, <2>2, ExecutorAssumption
    <3>2. EffectOf(c)' = EffectOf(c)
      BY <1>2, <3>1 DEF EffectOf
    <3> QED
      BY <2>2, <3>2
  <2> QED
    BY <2>1, <2>2
<1>6. effectBar' = [c \in Calls |-> IF serving[a] = c THEN "lost" ELSE effectBar[c]]
  BY <1>5 DEF effectBar
<1> QED
  BY <1>2, <1>3, <1>4, <1>6 DEF Promise!Discard

(* Steps of a caller. *)
LEMMA RefineAsk ==
  ASSUME IInv, NEW c \in Calls, UNCHANGED <<serving, ran, task, stopRan>>,
         \A d \in Calls : d # c => pc'[d] = pc[d],
         pc[c] \in {"new", "sending"},
         \/ mailbox' = mailbox /\ pc[c] = "new" /\ pc'[c] = "sending"
         \/ mailbox' = mailbox /\ pc'[c] \in {"busy", "terminated", "withdrawn"}
         \/ (\E a \in Actors : Push(c, a)) /\ pc'[c] = "waiting"
  PROVE  Promise!Next
<1>1. callerBar[c] \in {"new", "asking"} /\ (pc[c] = "new" => callerBar[c] = "new")
  BY DEF callerBar, CallerKnows
<1>2. callerBar' = [callerBar EXCEPT ![c] = CallerKnows(c)']
  BY CallerMoves
<1>3. UNCHANGED <<effectBar, overBar>>
  BY EffectSame, OverSame
<1>4. CASE mailbox' = mailbox /\ pc[c] = "new" /\ pc'[c] = "sending"
  <2>1. CallerKnows(c)' = "asking"
    BY <1>4 DEF CallerKnows
  <2>2. Promise!Ask(c)
    BY <1>1, <1>2, <1>3, <1>4, <2>1 DEF Promise!Ask
  <2> QED
    BY <2>2 DEF Promise!Next
<1>5. CASE mailbox' = mailbox /\ pc'[c] \in {"busy", "terminated", "withdrawn"}
  <2>1. CallerKnows(c)' = "refused"
    BY <1>5 DEF CallerKnows
  <2>2. Promise!Refuse(c)
    BY <1>1, <1>2, <1>3, <1>5, <2>1 DEF Promise!Refuse
  <2> QED
    BY <2>2 DEF Promise!Next
<1>6. ASSUME NEW a \in Actors, Push(c, a), pc'[c] = "waiting"
      PROVE  Promise!Next
  <2>1. CallerKnows(c)' = "accepted"
    BY <1>6 DEF CallerKnows
  <2>2. Promise!Accept(c, a)
    BY <1>1, <1>2, <1>3, <1>6, <2>1 DEF Promise!Accept, Push
  <2> QED
    BY <2>2 DEF Promise!Next
<1> QED
  BY <1>4, <1>5, <1>6

LEMMA RefineTell ==
  ASSUME IInv, NEW c \in Calls, UNCHANGED <<mailbox, serving, ran, task, stopRan>>,
         \A d \in Calls : d # c => pc'[d] = pc[d],
         pc[c] = "waiting",
         \/ pc'[c] = "cancelled"
         \/ reply[c] = "sent" /\ pc'[c] = "outcome"
         \/ reply[c] = "gone" /\ pc'[c] = "dropped"
  PROVE  Promise!Next
<1>1. QueuedInv /\ HeldInv /\ SlotInv /\ ran[c] \in {"no", "begun", "done"}
  BY DEF IInv, TypeOK
<1>2. callerBar[c] = "accepted"
  BY DEF callerBar, CallerKnows
<1>3. callerBar' = [callerBar EXCEPT ![c] = CallerKnows(c)']
  BY CallerMoves
<1>4. UNCHANGED <<effectBar, overBar>>
  BY EffectSame, OverSame
<1>5. effectBar[c] = "done" <=> ran[c] = "done"
  BY <1>1 DEF effectBar, EffectOf
<1>6. CASE pc'[c] = "cancelled"
  <2>1. CallerKnows(c)' = "gone"
    BY <1>6 DEF CallerKnows
  <2>2. Promise!Tell(c)
    BY <1>2, <1>3, <1>4, <2>1 DEF Promise!Tell
  <2> QED
    BY <2>2 DEF Promise!Next
<1>7. CASE reply[c] = "sent" /\ pc'[c] = "outcome"
  <2>1. CallerKnows(c)' = "answered" /\ effectBar[c] = "done"
    BY <1>1, <1>5, <1>7 DEF CallerKnows, SlotInv
  <2>2. Promise!Tell(c)
    BY <1>2, <1>3, <1>4, <2>1 DEF Promise!Tell
  <2> QED
    BY <2>2 DEF Promise!Next
<1>8. CASE reply[c] = "gone" /\ pc'[c] = "dropped"
  <2>1. CallerKnows(c)' = "lost" /\ effectBar[c] # "done"
    BY <1>1, <1>5, <1>8 DEF CallerKnows, SlotInv
  <2>2. ~Promise!Pending(c)
    BY <1>1, <1>8 DEF Promise!Pending, QueuedInv, HeldInv, Unserved
  <2>3. Promise!Tell(c)
    BY <1>2, <1>3, <1>4, <2>1, <2>2 DEF Promise!Tell
  <2> QED
    BY <2>3 DEF Promise!Next
<1> QED
  BY <1>6, <1>7, <1>8

LEMMA RefineCall ==
  ASSUME IInv, NEW c \in Calls,
         \/ \E a \in Actors : Call(c, a) \/ TryTransition(c, a)
         \/ CallStep(c) \/ CancelCall(c)
  PROVE  Promise!Next
<1>1. /\ pc \in [Senders -> CallStates \cup StopStates] /\ c \in Senders /\ c \notin Stoppers
      /\ Calls \subseteq Senders /\ reply[c] \in {"pending", "sent", "gone"} /\ LineInv
  BY ExecutorAssumption DEF IInv, TypeOK, Senders
<1>2. UNCHANGED <<serving, ran, task, stopRan>>
  BY DEF CallStep, Call, TryTransition, SendAdmitted, SendClosed, TakeReply, CancelCall, taskVars
<1>3. \A d \in Calls : d # c => pc'[d] = pc[d]
  BY <1>1 DEF CallStep, Call, SendStart, TryTransition, SendAdmitted, SendClosed, TakeReply, CancelCall
<1>4. ASSUME NEW a \in Actors, Call(c, a) \/ TryTransition(c, a)
      PROVE  Promise!Next
  <2>1. /\ pc[c] = "new"
        /\ \/ mailbox' = mailbox /\ pc'[c] \in {"sending", "busy", "terminated"}
           \/ Push(c, a) /\ pc'[c] = "waiting"
    BY <1>1, <1>4 DEF Call, TryTransition, SendStart
  <2> QED
    BY <1>2, <1>3, <2>1, RefineAsk
<1>5. CASE SendAdmitted(c)
  <2>1. pc[c] = "sending" /\ target[c] \in Actors /\ Push(c, target[c]) /\ pc'[c] = "waiting"
    BY <1>1, <1>5 DEF SendAdmitted, LineInv
  <2> QED
    BY <1>2, <1>3, <2>1, RefineAsk
<1>6. CASE SendClosed(c)
  <2>1. pc[c] = "sending" /\ mailbox' = mailbox /\ pc'[c] = "terminated"
    BY <1>1, <1>6 DEF SendClosed
  <2> QED
    BY <1>2, <1>3, <2>1, RefineAsk
<1>7. CASE CancelCall(c)
  <2>1. /\ mailbox' = mailbox
        /\ \/ pc[c] = "sending" /\ pc'[c] = "withdrawn"
           \/ pc[c] = "waiting" /\ pc'[c] = "cancelled"
    BY <1>1, <1>7 DEF CancelCall
  <2> QED
    BY <1>2, <1>3, <2>1, RefineAsk, RefineTell
<1>8. CASE TakeReply(c)
  <2>1. /\ mailbox' = mailbox /\ pc[c] = "waiting"
        /\ \/ reply[c] = "sent" /\ pc'[c] = "outcome"
           \/ reply[c] = "gone" /\ pc'[c] = "dropped"
    BY <1>1, <1>8 DEF TakeReply, taskVars
  <2> QED
    BY <1>2, <1>3, <2>1, RefineTell
<1> QED
  BY <1>4, <1>5, <1>6, <1>7, <1>8 DEF CallStep

(* Steps of a shutdown. *)
LEMMA RefineShutdown ==
  ASSUME IInv, NEW n \in Stoppers, ShutdownStart(n) \/ StopStep(n)
  PROVE  Promise!Next \/ UNCHANGED Promise!vars
<1>1. /\ pc \in [Senders -> CallStates \cup StopStates] /\ n \in Senders
      /\ Calls \subseteq Senders /\ Calls \cap Stoppers = {} /\ LineInv
  BY ExecutorAssumption DEF IInv, TypeOK, Senders
<1>2. UNCHANGED <<serving, ran, task, stopRan>>
  BY DEF ShutdownStart, StopStep, SendStop, SendAdmitted, SendClosed, StopAnswered, StopTimeout, LockTask,
         Joined, JoinTimeout, ShutdownDone, taskVars
<1>3. \A c \in Calls : pc'[c] = pc[c]
  BY <1>1 DEF ShutdownStart, StopStep, SendStop, SendStart, SendAdmitted, SendClosed, StopAnswered, StopTimeout,
              LockTask, Joined, JoinTimeout, ShutdownDone
<1>4. UNCHANGED <<callerBar, effectBar, overBar>>
  BY <1>2, <1>3, CallerSame, EffectSame, OverSame
<1>5. mailbox' = mailbox \/ \E a \in Actors : Push(n, a)
  <2>1. CASE SendStop(n)
    <3>1. entries[n][pos[n]] \in Actors
      BY <2>1 DEF SendStop, IInv, TypeOK
    <3> QED
      BY <2>1, <3>1 DEF SendStop, SendStart
  <2>2. CASE SendAdmitted(n)
    BY <1>1, <2>2 DEF SendAdmitted, LineInv
  <2> QED
    BY <2>1, <2>2 DEF ShutdownStart, StopStep, SendClosed, StopAnswered, StopTimeout, LockTask, Joined,
                      JoinTimeout, ShutdownDone, taskVars
<1>6. CASE mailbox' = mailbox
  BY <1>2, <1>4, <1>6 DEF Promise!vars
<1>7. ASSUME NEW a \in Actors, Push(n, a)
      PROVE  Promise!Next
  <2>1. Promise!AskStop(n, a)
    BY <1>2, <1>4, <1>7 DEF Promise!AskStop, Push
  <2> QED
    BY <2>1 DEF Promise!Next
<1> QED
  BY <1>5, <1>6, <1>7

(* The executor implements ActorCalls: whatever callers, shutdowns, panics, *)
(* aborts and abandoned futures do, every step of the channel, the task and *)
(* the node is a step of the promise or changes nothing a caller could see. *)
THEOREM PromiseKept == Spec => KeepsPromise
<1>1. ASSUME IInv, [Next]_vars
      PROVE  [Promise!Next]_(Promise!vars)
  <2>1. ASSUME NEW a \in Actors, Register(a) \/ HandlerReturns(a) \/ TaskStep(a) \/ Panic(a)
        PROVE  [Promise!Next]_(Promise!vars)
    <3>1. CASE Register(a) \/ OnStart(a)
      BY <1>1, <3>1, RefineRegister
    <3>2. CASE Begin(a)
      <4>1. Promise!Execute(a)
        BY <1>1, <3>2, RefineBegin
      <4> QED
        BY <4>1 DEF Promise!Next
    <3>3. CASE Finish(a)
      <4>1. Promise!Complete(a)
        BY <1>1, <3>3, RefineFinish
      <4> QED
        BY <4>1 DEF Promise!Next
    <3>4. CASE FinishStop(a)
      <4>1. Promise!Stop(a)
        BY <1>1, <3>4, RefineFinishStop
      <4> QED
        BY <4>1 DEF Promise!Next
    <3>5. CASE Exit(a) \/ Panic(a) \/ Aborted(a)
      <4>1. Promise!Discard(a)
        BY <1>1, <3>5, RefineEnd
      <4> QED
        BY <4>1 DEF Promise!Next
    <3> QED
      BY <2>1, <3>1, <3>2, <3>3, <3>4, <3>5 DEF HandlerReturns, TaskStep
  <2>2. ASSUME NEW c \in Calls,
               \/ \E a \in Actors : Call(c, a) \/ TryTransition(c, a)
               \/ CallStep(c) \/ CancelCall(c)
        PROVE  [Promise!Next]_(Promise!vars)
    BY <1>1, <2>2, RefineCall
  <2>3. ASSUME NEW n \in Stoppers, ShutdownStart(n) \/ StopStep(n)
        PROVE  [Promise!Next]_(Promise!vars)
    BY <1>1, <2>3, RefineShutdown
  <2>4. CASE UNCHANGED vars
    <3>1. UNCHANGED <<callerBar, effectBar, overBar, mailbox, serving>>
      BY <2>4, CallerSame, EffectSame, OverSame DEF vars
    <3> QED
      BY <3>1 DEF Promise!vars
  <2> QED
    BY <1>1, <2>1, <2>2, <2>3, <2>4 DEF Next
<1> QED
  BY <1>1, PromiseInit, Inductive, PTL DEF KeepsPromise, Promise!Spec, Spec
=============================================================================
