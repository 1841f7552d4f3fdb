------------------------- MODULE WsConnectionProofs -------------------------
(***************************************************************************)
(* Proofs about WsConnection for every set of subscriptions and peer keys, *)
(* every capacity of the queues and every limit.                           *)
(***************************************************************************)
EXTENDS WsConnection, FiniteSetTheorems, TLAPS

(* Subscriptions that were ever started; only finitely many were.           *)
Started == {x \in Subs : task[x] # "none"}

StartedInv == IsFiniteSet(Started) /\ localSubs \subseteq Started /\ fwdSubs \subseteq Started

(* The books of the connection: typing needs the exact reference counts,    *)
(* which are decremented without a check.                                   *)
BInv == TypeOK /\ StartedInv /\ RefcountExact

On(S, k) == {r \in S : KeyOf[r] = k}

(* The sets counted on the way are finite. *)
LEMMA CountsFinite ==
  ASSUME BInv
  PROVE  /\ IsFiniteSet(fwdSubs)
         /\ Cardinality(Blocked) \in Nat
         /\ \A S \in SUBSET fwdSubs, k \in Keys :
              IsFiniteSet(On(S, k)) /\ Cardinality(On(S, k)) \in Nat
<1>1. Blocked \subseteq Started
  BY DEF Blocked, Started, Subs
<1>2. IsFiniteSet(Blocked) /\ IsFiniteSet(fwdSubs)
  BY <1>1, FS_Subset DEF BInv, StartedInv
<1>3. ASSUME NEW S \in SUBSET fwdSubs, NEW k \in Keys
      PROVE  IsFiniteSet(On(S, k)) /\ Cardinality(On(S, k)) \in Nat
  <2>1. On(S, k) \subseteq fwdSubs
    BY DEF On
  <2> QED
    BY <1>2, <2>1, FS_Subset, FS_CardinalityType
<1> QED
  BY <1>2, <1>3, FS_CardinalityType

-----------------------------------------------------------------------------
(* The hub.  A new reference is counted once. *)
LEMMA HubTake ==
  ASSUME BInv, NEW r \in Forwards, r \notin fwdSubs, HubJoin(r) \/ HubOpen(r),
         fwdSubs' = fwdSubs \cup {r}
  PROVE  HubTypeOK' /\ RefcountExact'
<1> DEFINE key == KeyOf[r]
<1>0. key \in Keys
  BY HubAssumption
<1>1. /\ hubEntry \in [Keys -> 0 .. MaxStreams] /\ refcount \in [Keys -> Nat]
      /\ upstream \in [Streams -> {"none", "running", "over"}] /\ opened \in 0 .. MaxStreams
      /\ chan \in [Forwards -> 0 .. MaxStreams] /\ MaxStreams \in Nat
  BY HubAssumption DEF BInv, TypeOK, HubTypeOK
<1>2. \A k \in Keys : /\ refcount[k] = Cardinality(On(fwdSubs, k))
                      /\ hubEntry[k] # 0 <=> refcount[k] > 0
  BY DEF BInv, RefcountExact, On
<1>3. /\ On(fwdSubs', key) = On(fwdSubs, key) \cup {r} /\ r \notin On(fwdSubs, key)
      /\ \A k \in Keys : k # key => On(fwdSubs', k) = On(fwdSubs, k)
  BY DEF On
<1>4. IsFiniteSet(On(fwdSubs, key)) /\ Cardinality(On(fwdSubs, key)) \in Nat
  BY <1>0, CountsFinite
<1>5. Cardinality(On(fwdSubs', key)) = Cardinality(On(fwdSubs, key)) + 1
  BY <1>3, <1>4, FS_AddElement
<1> HIDE DEF key
<1>6. CASE HubJoin(r)
  <2>1. /\ hubEntry[key] # 0 /\ refcount' = [refcount EXCEPT ![key] = @ + 1]
        /\ chan' = [chan EXCEPT ![r] = hubEntry[key]]
        /\ UNCHANGED <<hubEntry, upstream, opened, unread, lagged>>
    BY <1>6 DEF HubJoin, key
  <2>2. HubTypeOK'
    BY <1>0, <1>1, <2>1 DEF BInv, TypeOK, HubTypeOK
  <2>3. \A k \in Keys : refcount'[k] = Cardinality(On(fwdSubs', k))
    BY <1>0, <1>1, <1>2, <1>3, <1>5, <2>1
  <2>4. \A k \in Keys : hubEntry'[k] # 0 <=> refcount'[k] > 0
    BY <1>0, <1>1, <1>2, <2>1
  <2> QED
    BY <2>2, <2>3, <2>4 DEF RefcountExact, On
<1>7. CASE HubOpen(r)
  <2> DEFINE g == opened + 1
  <2>1. /\ hubEntry[key] = 0 /\ opened < MaxStreams /\ opened' = g
        /\ upstream' = [upstream EXCEPT ![g] = "running"]
        /\ hubEntry' = [hubEntry EXCEPT ![key] = g] /\ refcount' = [refcount EXCEPT ![key] = 1]
        /\ chan' = [chan EXCEPT ![r] = g] /\ UNCHANGED <<unread, lagged>>
    BY <1>7 DEF HubOpen, key
  <2>2. g \in 0 .. MaxStreams /\ g # 0
    BY <1>1, <2>1
  <2> HIDE DEF g
  <2>3. HubTypeOK'
    BY <1>0, <1>1, <2>1, <2>2 DEF BInv, TypeOK, HubTypeOK
  <2>4. Cardinality(On(fwdSubs, key)) = 0
    BY <1>0, <1>1, <1>2, <1>4, <2>1
  <2>5. \A k \in Keys : refcount'[k] = Cardinality(On(fwdSubs', k))
    <3>1. refcount'[key] = 1 /\ \A k \in Keys : k # key => refcount'[k] = refcount[k]
      BY <1>0, <1>1, <2>1
    <3>2. Cardinality(On(fwdSubs', key)) = 1
      BY <1>5, <2>4
    <3> QED
      BY <1>2, <1>3, <3>1, <3>2
  <2>6. \A k \in Keys : hubEntry'[k] # 0 <=> refcount'[k] > 0
    BY <1>0, <1>1, <1>2, <2>1, <2>2
  <2> QED
    BY <2>3, <2>5, <2>6 DEF RefcountExact, On
<1> QED
  BY <1>6, <1>7

(* References given up together are each given up once; the last one        *)
(* forgets the stream.                                                      *)
LEMMA HubGive ==
  ASSUME BInv, NEW rs \in SUBSET fwdSubs, HubUnsubscribe(rs), fwdSubs' = fwdSubs \ rs
  PROVE  HubTypeOK' /\ RefcountExact'
<1> DEFINE gone(k) == hubEntry[k] # 0 /\ Cardinality(On(rs, k)) > 0
                        /\ refcount[k] <= Cardinality(On(rs, k))
<1>1. /\ hubEntry \in [Keys -> 0 .. MaxStreams] /\ refcount \in [Keys -> Nat]
      /\ upstream \in [Streams -> {"none", "running", "over"}] /\ opened \in 0 .. MaxStreams
      /\ chan \in [Forwards -> 0 .. MaxStreams] /\ MaxStreams \in Nat
      /\ unread \in [Forwards -> 0 .. BroadcastBuffer] /\ lagged \in [Forwards -> BOOLEAN]
      /\ BroadcastBuffer \in Nat
  BY HubAssumption DEF BInv, TypeOK, HubTypeOK
<1>2. \A k \in Keys : /\ refcount[k] = Cardinality(On(fwdSubs, k))
                      /\ hubEntry[k] # 0 <=> refcount[k] > 0
  BY DEF BInv, RefcountExact, On
<1>3. /\ refcount' = [k \in Keys |-> IF gone(k) THEN 0
                                     ELSE IF hubEntry[k] # 0
                                          THEN refcount[k] - Cardinality(On(rs, k))
                                          ELSE refcount[k]]
      /\ hubEntry' = [k \in Keys |-> IF gone(k) THEN 0 ELSE hubEntry[k]]
  BY DEF HubUnsubscribe, On
<1>4. /\ upstream' \in [Streams -> {"none", "running", "over"}]
      /\ chan' \in [Forwards -> 0 .. MaxStreams] /\ unread' \in [Forwards -> 0 .. BroadcastBuffer]
      /\ lagged' \in [Forwards -> BOOLEAN] /\ opened' = opened
  BY <1>1 DEF HubUnsubscribe
<1>5. ASSUME NEW k \in Keys
      PROVE  /\ refcount'[k] = Cardinality(On(fwdSubs', k)) /\ refcount'[k] \in Nat
             /\ hubEntry'[k] # 0 <=> refcount'[k] > 0
             /\ hubEntry'[k] \in 0 .. MaxStreams
  <2> DEFINE all == Cardinality(On(fwdSubs, k))
  <2> DEFINE out == Cardinality(On(rs, k))
  <2>1. On(fwdSubs', k) = On(fwdSubs, k) \ On(rs, k) /\ On(rs, k) \subseteq On(fwdSubs, k)
    BY DEF On
  <2>2. IsFiniteSet(On(fwdSubs, k)) /\ IsFiniteSet(On(rs, k)) /\ all \in Nat /\ out \in Nat
    BY CountsFinite
  <2>3. out <= all
    BY <2>1, <2>2, FS_Subset
  <2>4. Cardinality(On(fwdSubs', k)) = all - out
    <3>1. Cardinality(On(fwdSubs, k) \ On(rs, k))
            = all - Cardinality(On(fwdSubs, k) \cap On(rs, k))
      BY <2>2, FS_Difference
    <3>2. On(fwdSubs, k) \cap On(rs, k) = On(rs, k)
      BY <2>1
    <3> QED
      BY <2>1, <3>1, <3>2
  <2>5. /\ refcount[k] = all /\ (hubEntry[k] # 0 <=> all > 0)
        /\ hubEntry[k] \in 0 .. MaxStreams
    BY <1>1, <1>2
  <2>6. /\ refcount'[k] = IF hubEntry[k] # 0 /\ out > 0 /\ refcount[k] <= out THEN 0
                          ELSE IF hubEntry[k] # 0 THEN refcount[k] - out ELSE refcount[k]
        /\ hubEntry'[k] = IF hubEntry[k] # 0 /\ out > 0 /\ refcount[k] <= out THEN 0 ELSE hubEntry[k]
    BY <1>3
  <2> DEFINE left == Cardinality(On(fwdSubs', k))
  <2> HIDE DEF all, out, left
  <2>7. left = all - out
    BY <2>4 DEF left
  <2>8. CASE hubEntry[k] # 0 /\ out > 0 /\ refcount[k] <= out
    <3>1. refcount'[k] = 0 /\ hubEntry'[k] = 0
      BY <2>6, <2>8
    <3>2. left = 0
      BY <2>2, <2>3, <2>5, <2>7, <2>8
    <3> QED
      BY <1>1, <3>1, <3>2 DEF left
  <2>9. CASE ~(hubEntry[k] # 0 /\ out > 0 /\ refcount[k] <= out)
    <3>1. refcount'[k] = left
      BY <2>2, <2>3, <2>5, <2>6, <2>7, <2>9
    <3>2. hubEntry'[k] = hubEntry[k]
      BY <2>6, <2>9
    <3>3. left \in Nat /\ (hubEntry[k] # 0 <=> left > 0)
      BY <2>2, <2>3, <2>5, <2>7, <2>9
    <3> QED
      BY <2>5, <3>1, <3>2, <3>3 DEF left
  <2> QED
    BY <2>8, <2>9
<1>6. refcount' \in [Keys -> Nat] /\ hubEntry' \in [Keys -> 0 .. MaxStreams]
  BY <1>3, <1>5
<1>7. HubTypeOK'
  BY <1>1, <1>4, <1>6 DEF HubTypeOK
<1>8. RefcountExact'
  BY <1>5 DEF RefcountExact, On
<1> QED
  BY <1>7, <1>8

-----------------------------------------------------------------------------
(* The outbound channels.  Events of local subscriptions are the frames     *)
(* whose order matters; a step keeps the outbound queue when it only        *)
(* appends other frames.                                                    *)
LocalEvent(f) == f.kind = "event" /\ f.sub \in Locals

OutKept ==
  /\ \A i \in DOMAIN outq : i \in DOMAIN outq' /\ outq'[i] = outq[i]
  /\ \A i \in DOMAIN outq' : i \in DOMAIN outq \/ ~LocalEvent(outq'[i])

OutOK == /\ outq \in Seq(Frames) /\ Len(outq) <= OutboundCapacity
         /\ terminal \in Seq(Frames) /\ Len(terminal) <= 1

(* The terminal channel takes one frame, and no event. *)
NoEventIn(q) == \A i \in DOMAIN q : q[i].kind # "event"
TermKept == NoEventIn(terminal) => NoEventIn(terminal')

LEMMA FrameTypes ==
  /\ ControlFrame \in Frames /\ ControlFrame.kind = "control"
  /\ \A kind \in {"event", "gap", "closed"}, x \in Subs, n \in Nat :
       /\ Frame(kind, x, n) \in Frames /\ Frame(kind, x, n).kind = kind
       /\ Frame(kind, x, n).sub = x /\ Frame(kind, x, n).n = n
  BY DEF ControlFrame, Frames, Frame

LEMMA TerminalShape ==
  ASSUME BInv, NEW f \in Frames, f.kind # "event", TryTerminal(f)
  PROVE  terminal' \in Seq(Frames) /\ Len(terminal') <= 1 /\ TermKept
<1>1. terminal \in Seq(Frames) /\ Len(terminal) <= 1
  BY DEF BInv, TypeOK
<1>2. <<f>> \in Seq(Frames) /\ Len(<<f>>) = 1 /\ NoEventIn(<<f>>)
  BY DEF NoEventIn
<1>3. CASE terminal' = <<f>>
  BY <1>2, <1>3 DEF TermKept
<1>4. CASE terminal' = terminal
  BY <1>1, <1>4 DEF TermKept
<1> QED
  BY <1>3, <1>4 DEF TryTerminal

(* Appending one frame to the outbound queue. *)
LEMMA AppendShape ==
  ASSUME BInv, NEW f \in Frames, outq' = Append(outq, f), Len(outq) < OutboundCapacity
  PROVE  /\ outq' \in Seq(Frames) /\ Len(outq') <= OutboundCapacity
         /\ DOMAIN outq' = 1 .. Len(outq) + 1 /\ outq'[Len(outq) + 1] = f
         /\ \A i \in DOMAIN outq : i \in DOMAIN outq' /\ outq'[i] = outq[i]
         /\ \A i \in DOMAIN outq' : i \in DOMAIN outq \/ i = Len(outq) + 1
         /\ ~LocalEvent(f) => OutKept
<1>1. outq \in Seq(Frames) /\ OutboundCapacity \in Nat
  BY WsAssumption DEF BInv, TypeOK
<1>2. /\ outq' \in Seq(Frames) /\ Len(outq') = Len(outq) + 1
      /\ DOMAIN outq' = 1 .. Len(outq) + 1 /\ outq'[Len(outq) + 1] = f
      /\ \A i \in DOMAIN outq : i \in DOMAIN outq' /\ outq'[i] = outq[i]
      /\ \A i \in DOMAIN outq' : i \in DOMAIN outq \/ i = Len(outq) + 1
      /\ Len(outq) \in Nat
  BY <1>1
<1>3. Len(outq') <= OutboundCapacity
  BY <1>1, <1>2
<1>4. ~LocalEvent(f) => OutKept
  BY <1>2 DEF OutKept
<1> QED
  BY <1>2, <1>3, <1>4

(* A request's control frames go into the outbound queue as far as there is *)
(* room, and the first that does not fit tries the terminal channel.        *)
LEMMA SendShape ==
  ASSUME BInv, NEW fs \in {<<ControlFrame>>, <<ControlFrame, ControlFrame>>}, SendOrTerminate(fs)
  PROVE  OutOK' /\ OutKept /\ TermKept
<1> DEFINE c == OutboundCapacity
<1> DEFINE b == Cardinality(Blocked)
<1> DEFINE room == OutboundCapacity - Len(outq) - Cardinality(Blocked)
<1> DEFINE fit == IF writer = "ended" \/ room <= 0 THEN 0 ELSE IF room < Len(fs) THEN room ELSE Len(fs)
<1>1. /\ outq \in Seq(Frames) /\ Len(outq) <= c /\ c \in Nat /\ b \in Nat
      /\ terminal \in Seq(Frames) /\ Len(terminal) <= 1
  BY WsAssumption, CountsFinite DEF BInv, TypeOK
<1>2. /\ outq' = outq \o SubSeq(fs, 1, fit)
      /\ IF fit < Len(fs) THEN TryTerminal(fs[fit + 1]) ELSE UNCHANGED terminal
  BY DEF SendOrTerminate
<1>3. fs \in Seq(Frames) /\ Len(fs) \in {1, 2} /\ \A i \in 1 .. Len(fs) : fs[i] = ControlFrame
  <2>1. CASE fs = <<ControlFrame>>
    BY <2>1, FrameTypes
  <2>2. CASE fs = <<ControlFrame, ControlFrame>>
    BY <2>2, FrameTypes
  <2> QED
    BY <2>1, <2>2
<1>4. fit \in 0 .. Len(fs) /\ Len(outq) + fit <= c
  <2> DEFINE n == Len(outq)
  <2> DEFINE l == Len(fs)
  <2>1. n \in Nat /\ n <= c /\ l \in {1, 2} /\ room = c - n - b
    BY <1>1, <1>3
  <2> HIDE DEF n, l, room, c, b
  <2> QED
    BY <1>1, <2>1 DEF n, l, c
<1> HIDE DEF fit, room, b
<1> DEFINE s == SubSeq(fs, 1, fit)
<1>5. /\ s \in Seq(Frames) /\ Len(s) = fit /\ \A i \in 1 .. fit : s[i] = ControlFrame
  <2>1. CASE fit = 0
    BY <1>3, <2>1
  <2>2. CASE fit # 0
    BY <1>3, <1>4, <2>2
  <2> QED
    BY <2>1, <2>2
<1> HIDE DEF s
<1>6. /\ outq' \in Seq(Frames) /\ Len(outq') = Len(outq) + fit
      /\ \A i \in 1 .. Len(outq) : outq'[i] = outq[i]
      /\ \A i \in 1 .. Len(outq) + fit : i > Len(outq) => outq'[i] = s[i - Len(outq)]
  <2>1. outq' = outq \o s
    BY <1>2 DEF s
  <2>2. outq \in Seq(Frames) /\ s \in Seq(Frames) /\ Len(s) = fit
    BY <1>1, <1>5
  <2>3. outq \o s \in Seq(Frames) /\ Len(outq \o s) = Len(outq) + Len(s)
    BY <2>2
  <2>4. \A i \in 1 .. Len(outq) + Len(s) :
          (outq \o s)[i] = IF i <= Len(outq) THEN outq[i] ELSE s[i - Len(outq)]
    BY <2>2
  <2>5. Len(outq) \in Nat /\ Len(s) \in Nat
    BY <2>2
  <2>6. \A i \in 1 .. Len(outq) : i \in 1 .. Len(outq) + Len(s) /\ i <= Len(outq)
    BY <2>5
  <2>7. \A i \in 1 .. Len(outq) + Len(s) : i > Len(outq) => ~(i <= Len(outq))
    BY <2>5
  <2> QED
    BY <2>1, <2>2, <2>3, <2>4, <2>6, <2>7
<1>7. Len(outq') <= OutboundCapacity
  BY <1>4, <1>6
<1>8. OutKept
  <2> DEFINE n == Len(outq)
  <2>1. n \in Nat /\ DOMAIN outq = 1 .. n /\ DOMAIN outq' = 1 .. n + fit /\ fit \in Nat
    BY <1>1, <1>3, <1>4, <1>6
  <2>2. \A i \in 1 .. n + fit : i > n => i - n \in 1 .. fit
    BY <2>1
  <2>3. \A i \in 1 .. n + fit : i > n => outq'[i] = ControlFrame
    BY <1>5, <1>6, <2>2
  <2>4. ~LocalEvent(ControlFrame)
    BY FrameTypes DEF LocalEvent
  <2>5. \A i \in 1 .. n : i \in 1 .. n + fit
    BY <2>1
  <2>6. \A i \in 1 .. n + fit : i \in 1 .. n \/ i > n
    BY <2>1
  <2> QED
    BY <1>6, <2>1, <2>3, <2>4, <2>5, <2>6 DEF OutKept
<1>9. terminal' \in Seq(Frames) /\ Len(terminal') <= 1 /\ TermKept
  <2>1. CASE fit < Len(fs)
    <3>1. fs[fit + 1] = ControlFrame
      BY <1>3, <1>4, <2>1
    <3>2. TryTerminal(ControlFrame)
      BY <1>2, <2>1, <3>1
    <3> QED
      BY <3>2, TerminalShape, FrameTypes
  <2>2. CASE ~(fit < Len(fs))
    BY <1>1, <1>2, <2>2 DEF TermKept
  <2> QED
    BY <2>1, <2>2
<1> QED
  BY <1>6, <1>7, <1>8, <1>9 DEF OutOK

-----------------------------------------------------------------------------
(* The parts of the type invariant. *)
ConnOK ==
  /\ client \in {"up", "gone"} /\ dispatcher \in {"loop", "joining", "returned"}
  /\ writer \in {"run", "ended"} /\ localSubs \subseteq Locals /\ fwdSubs \subseteq Forwards
  /\ fwdEvents \in Seq(Subs) /\ controls \in Nat
TaskOK ==
  task \in [Subs -> {"none", "select", "polling", "got", "sending", "blocked", "retrying", "exited"}]
BusOK ==
  /\ bus \in [Locals -> {"none", "active", "exhausted", "removed"}]
  /\ oneshot \in [Locals -> {"open", "fired", "reported", "dropped", "taken"}]
FlowOK ==
  /\ wire \in [Locals -> Seq(Nat)] /\ hold \in [Locals -> Nat]
  /\ queue \in [Locals -> Seq(Nat)] /\ published \in [Locals -> Nat]
  /\ refused \in [Locals -> BOOLEAN]
  /\ refusals \in [Locals -> SUBSET Nat] /\ discarded \in [Locals -> SUBSET Nat]

LEMMA TypeParts ==
  ASSUME BInv
  PROVE  HubTypeOK /\ ConnOK /\ OutOK /\ TaskOK /\ BusOK /\ FlowOK
  BY DEF BInv, TypeOK, ConnOK, OutOK, TaskOK, BusOK, FlowOK

LEMMA PartsType ==
  ASSUME HubTypeOK', ConnOK', OutOK', TaskOK', BusOK', FlowOK', StartedInv', RefcountExact'
  PROVE  BInv'
  BY DEF BInv, TypeOK, ConnOK, OutOK, TaskOK, BusOK, FlowOK

(* Steps that start no forwarder and give up no reference. *)
LEMMA BooksKept ==
  ASSUME BInv, UNCHANGED <<hubEntry, refcount, fwdSubs>>, localSubs' \subseteq localSubs,
         \A y \in Subs : task'[y] = "none" <=> task[y] = "none"
  PROVE  StartedInv' /\ RefcountExact'
<1>1. Started' = Started
  BY DEF Started
<1> QED
  BY <1>1 DEF BInv, StartedInv, RefcountExact

(* A step that starts the forwarder of x. *)
LEMMA StartedMore ==
  ASSUME BInv, NEW x \in Subs, task' = [task EXCEPT ![x] = "select"],
         localSubs' \subseteq localSubs \cup {x}, fwdSubs' \subseteq fwdSubs \cup {x}
  PROVE  StartedInv' /\ TaskOK'
<1>1. TaskOK
  BY TypeParts
<1>2. TaskOK' /\ Started' = Started \cup {x}
  BY <1>1 DEF TaskOK, Started
<1>3. IsFiniteSet(Started \cup {x})
  BY FS_AddElement DEF BInv, StartedInv
<1> QED
  BY <1>2, <1>3 DEF BInv, StartedInv

(* What the bus and the oneshot of y see of a removal. *)
Untouched(y) == bus'[y] = bus[y] /\ oneshot'[y] = oneshot[y]
Removed(y) == bus'[y] = "removed" /\ oneshot'[y] # "open"

LEMMA BusRemoveShape ==
  ASSUME BInv, NEW xs \in SUBSET Locals, BusRemove(xs)
  PROVE  BusOK' /\ \A y \in Locals : IF y \in xs THEN Removed(y) ELSE Untouched(y)
<1>1. BusOK
  BY TypeParts
<1> QED
  BY <1>1 DEF BusOK, BusRemove, Removed, Untouched

(* Removing the entry of x, by whoever asks. *)
LEMMA ForgetShape ==
  ASSUME BInv, NEW x \in Subs, Forget(x)
  PROVE  /\ HubTypeOK' /\ TaskOK' /\ BusOK' /\ StartedInv' /\ RefcountExact'
         /\ localSubs' = localSubs \ {x} /\ fwdSubs' = fwdSubs \ {x}
         /\ \A y \in Subs : y # x \/ y \in Locals => task'[y] = task[y]
         /\ \A y \in Locals : IF y = x /\ x \in localSubs THEN Removed(y) ELSE Untouched(y)
<1>1. HubTypeOK /\ ConnOK /\ TaskOK /\ BusOK
  BY TypeParts
<1>2. Locals \cap Forwards = {} /\ localSubs \subseteq Locals /\ fwdSubs \subseteq Forwards
  BY <1>1, WsAssumption DEF ConnOK
<1>3. CASE ForgetLocal(x)
  <2>1. /\ x \in localSubs /\ localSubs' = localSubs \ {x} /\ BusRemove({x})
        /\ UNCHANGED <<hubVars, fwdSubs, task>> /\ x \in Locals
    BY <1>2, <1>3 DEF ForgetLocal
  <2>2. BusOK' /\ \A y \in Locals : IF y \in {x} THEN Removed(y) ELSE Untouched(y)
    BY <2>1, BusRemoveShape
  <2>3. StartedInv' /\ RefcountExact'
    BY <2>1, BooksKept DEF hubVars
  <2>4. HubTypeOK' /\ TaskOK'
    BY <1>1, <2>1 DEF HubTypeOK, TaskOK, hubVars
  <2>5. fwdSubs' = fwdSubs \ {x}
    BY <1>2, <2>1
  <2> QED
    BY <2>1, <2>2, <2>3, <2>4, <2>5
<1>4. CASE ForgetPeer(x)
  <2>1. /\ x \in fwdSubs /\ fwdSubs' = fwdSubs \ {x} /\ HubUnsubscribe({x})
        /\ task' = [task EXCEPT ![x] = "exited"] /\ UNCHANGED <<localSubs, bus, oneshot>>
        /\ x \notin Locals
    BY <1>2, <1>4 DEF ForgetPeer
  <2>2. HubTypeOK' /\ RefcountExact'
    BY <2>1, HubGive
  <2>3. TaskOK' /\ \A y \in Subs : y # x \/ y \in Locals => task'[y] = task[y]
    BY <1>1, <2>1 DEF TaskOK
  <2>4. Started' = Started
    BY <1>1, <2>1 DEF Started, TaskOK, BInv, StartedInv
  <2>5. StartedInv'
    BY <2>1, <2>4 DEF BInv, StartedInv
  <2>6. localSubs' = localSubs \ {x}
    BY <1>2, <2>1
  <2>7. BusOK' /\ \A y \in Locals : Untouched(y) /\ y # x
    BY <1>1, <2>1 DEF BusOK, Untouched
  <2> QED
    BY <2>1, <2>2, <2>3, <2>5, <2>6, <2>7
<1>5. CASE ForgetNothing(x)
  <2>1. /\ x \notin localSubs \cup fwdSubs
        /\ UNCHANGED <<hubVars, localSubs, fwdSubs, task, bus, oneshot>>
    BY <1>5 DEF ForgetNothing
  <2>2. StartedInv' /\ RefcountExact'
    BY <2>1, BooksKept DEF hubVars
  <2>3. HubTypeOK' /\ TaskOK' /\ BusOK'
    BY <1>1, <2>1 DEF HubTypeOK, TaskOK, BusOK, hubVars
  <2> QED
    BY <2>1, <2>2, <2>3 DEF Untouched
<1> QED
  BY <1>3, <1>4, <1>5 DEF Forget

(* The teardown of the connection. *)
LEMMA CleanupShape ==
  ASSUME BInv, Cleanup
  PROVE  /\ HubTypeOK' /\ TaskOK' /\ BusOK' /\ StartedInv' /\ RefcountExact'
         /\ localSubs' = {} /\ fwdSubs' = {}
         /\ \A y \in Locals : task'[y] = task[y]
         /\ \A y \in Locals : IF y \in localSubs THEN Removed(y) ELSE Untouched(y)
<1>1. HubTypeOK /\ ConnOK /\ TaskOK /\ BusOK
  BY TypeParts
<1>2. Locals \cap Forwards = {} /\ localSubs \subseteq Locals /\ fwdSubs \subseteq Forwards
  BY <1>1, WsAssumption DEF ConnOK
<1>3. /\ BusRemove(localSubs) /\ HubUnsubscribe(fwdSubs) /\ localSubs' = {} /\ fwdSubs' = {}
      /\ task' = [y \in Subs |-> IF y \in fwdSubs THEN "exited" ELSE task[y]]
  BY DEF Cleanup
<1>4. BusOK' /\ \A y \in Locals : IF y \in localSubs THEN Removed(y) ELSE Untouched(y)
  BY <1>2, <1>3, BusRemoveShape
<1>5. fwdSubs' = fwdSubs \ fwdSubs
  BY <1>3
<1>6. HubTypeOK' /\ RefcountExact'
  BY <1>3, <1>5, HubGive
<1>7. TaskOK' /\ \A y \in Locals : task'[y] = task[y]
  BY <1>1, <1>2, <1>3 DEF TaskOK, Subs
<1>8. Started' = Started
  BY <1>3 DEF Started, BInv, StartedInv
<1>9. StartedInv'
  BY <1>3, <1>8 DEF BInv, StartedInv
<1> QED
  BY <1>3, <1>4, <1>6, <1>7, <1>9

-----------------------------------------------------------------------------
(* The books: the client's requests. *)
LEMMA RequestBooks ==
  ASSUME BInv, Control \/ \E x \in Subs : Request(x)
  PROVE  BInv' /\ OutKept /\ TermKept
<1>1. HubTypeOK /\ ConnOK /\ OutOK /\ TaskOK /\ BusOK /\ FlowOK
  BY TypeParts
<1>2. CASE Control
  <2>1. OutOK' /\ OutKept /\ TermKept
    BY <1>2, SendShape DEF Control
  <2>2. /\ UNCHANGED <<hubVars, client, dispatcher, writer, wire, localSubs, fwdSubs, fwdEvents,
                       task, hold, discarded, busVars, oneshot>>
        /\ controls' = controls + 1
    BY <1>2 DEF Control
  <2>3. StartedInv' /\ RefcountExact'
    BY <2>2, BooksKept DEF hubVars
  <2>4. HubTypeOK' /\ ConnOK' /\ TaskOK' /\ BusOK' /\ FlowOK'
    BY <1>1, <2>2 DEF HubTypeOK, ConnOK, TaskOK, BusOK, FlowOK, hubVars, busVars
  <2> QED
    BY <2>1, <2>3, <2>4, PartsType
<1>3. ASSUME NEW x \in Subs, Unsubscribe(x)
      PROVE  BInv' /\ OutKept /\ TermKept
  <2>1. OutOK' /\ OutKept /\ TermKept
    BY <1>3, SendShape DEF Unsubscribe
  <2>2. /\ HubTypeOK' /\ TaskOK' /\ BusOK' /\ StartedInv' /\ RefcountExact'
        /\ localSubs' = localSubs \ {x} /\ fwdSubs' = fwdSubs \ {x}
    BY <1>3, ForgetShape DEF Unsubscribe
  <2>3. ConnOK' /\ FlowOK'
    BY <1>1, <1>3, <2>2 DEF Unsubscribe, ConnOK, FlowOK
  <2> QED
    BY <2>1, <2>2, <2>3, PartsType
<1>4. ASSUME NEW x \in Locals, SubscribeLocal(x)
      PROVE  BInv' /\ OutKept /\ TermKept
  <2>1. OutOK' /\ OutKept /\ TermKept
    BY <1>4, SendShape DEF SubscribeLocal
  <2>2. /\ bus' = [bus EXCEPT ![x] = "active"] /\ localSubs' = localSubs \cup {x}
        /\ task' = [task EXCEPT ![x] = "select"] /\ x \in Subs /\ task[x] = "none"
        /\ UNCHANGED <<hubVars, client, dispatcher, writer, wire, fwdSubs, fwdEvents,
                       hold, discarded, queue, published, refused, refusals, refusals, oneshot, controls>>
    BY <1>4 DEF SubscribeLocal, Subs
  <2>3. StartedInv' /\ TaskOK'
    BY <2>2, StartedMore
  <2>4. HubTypeOK' /\ RefcountExact'
    BY <1>1, <2>2 DEF HubTypeOK, hubVars, BInv, RefcountExact
  <2>5. ConnOK' /\ BusOK' /\ FlowOK'
    BY <1>1, <2>2 DEF ConnOK, BusOK, FlowOK
  <2> QED
    BY <2>1, <2>3, <2>4, <2>5, PartsType
<1>5. ASSUME NEW x \in Forwards, SubscribePeer(x)
      PROVE  BInv' /\ OutKept /\ TermKept
  <2>1. OutOK' /\ OutKept /\ TermKept
    BY <1>5, SendShape DEF SubscribePeer
  <2>2. UNCHANGED <<client, dispatcher, writer, wire, localSubs, fwdEvents, hold, discarded, busVars, oneshot>>
    BY <1>5 DEF SubscribePeer
  <2>3. BusOK' /\ FlowOK'
    BY <1>1, <2>2 DEF BusOK, FlowOK, busVars
  <2>4. CASE /\ HubJoin(x) \/ HubOpen(x)
             /\ fwdSubs' = fwdSubs \cup {x} /\ task' = [task EXCEPT ![x] = "select"]
             /\ UNCHANGED controls
    <3>1. x \in Subs /\ x \notin fwdSubs
      BY <1>5 DEF SubscribePeer, Subs, BInv, StartedInv, Started
    <3>2. HubTypeOK' /\ RefcountExact'
      BY <2>4, <3>1, HubTake
    <3>3. StartedInv' /\ TaskOK'
      BY <2>2, <2>4, <3>1, StartedMore
    <3>4. ConnOK'
      BY <1>1, <2>2, <2>4 DEF ConnOK
    <3> QED
      BY <2>1, <2>3, <3>2, <3>3, <3>4, PartsType
  <2>5. CASE HubUnknownPeer(x) /\ controls' = controls + 1 /\ UNCHANGED <<fwdSubs, task>>
    <3>1. UNCHANGED hubVars
      BY <2>5 DEF HubUnknownPeer
    <3>2. StartedInv' /\ RefcountExact'
      BY <2>2, <2>5, <3>1, BooksKept DEF hubVars
    <3>3. HubTypeOK' /\ ConnOK' /\ TaskOK'
      BY <1>1, <2>2, <2>5, <3>1 DEF HubTypeOK, ConnOK, TaskOK, hubVars
    <3> QED
      BY <2>1, <2>3, <3>2, <3>3, PartsType
  <2> QED
    BY <1>5, <2>4, <2>5 DEF SubscribePeer
<1> QED
  BY <1>2, <1>3, <1>4, <1>5 DEF Request

(* The books: the dispatcher's other branches and the end of the client. *)
LEMMA DispatcherBooks ==
  ASSUME BInv, ClientGone \/ DispatcherStep
  PROVE  BInv' /\ UNCHANGED outVars
<1>1. HubTypeOK /\ ConnOK /\ OutOK /\ TaskOK /\ BusOK /\ FlowOK
  BY TypeParts
<1>2. CASE ClientGone \/ LeaveLoop
  <2>1. /\ UNCHANGED <<hubVars, writer, outVars, wire, localSubs, fwdSubs, fwdEvents,
                       task, hold, discarded, busVars, oneshot, controls>>
        /\ client' \in {"up", "gone"} /\ dispatcher' \in {"loop", "joining", "returned"}
    BY <1>1, <1>2 DEF ClientGone, LeaveLoop, ConnOK
  <2>2. StartedInv' /\ RefcountExact'
    BY <2>1, BooksKept DEF hubVars
  <2>3. HubTypeOK' /\ ConnOK' /\ OutOK' /\ TaskOK' /\ BusOK' /\ FlowOK'
    BY <1>1, <2>1 DEF HubTypeOK, ConnOK, OutOK, TaskOK, BusOK, FlowOK, hubVars, busVars, outVars
  <2> QED
    BY <2>1, <2>2, <2>3, PartsType
<1>3. CASE OnForwarderEvent
  <2>1. fwdEvents \in Seq(Subs) /\ fwdEvents # <<>> /\ Forget(Head(fwdEvents))
    BY <1>1, <1>3 DEF OnForwarderEvent, ConnOK
  <2>2. Head(fwdEvents) \in Subs /\ Tail(fwdEvents) \in Seq(Subs)
    BY <2>1
  <2>3. PICK x \in Subs : x = Head(fwdEvents)
    BY <2>2
  <2>4. /\ HubTypeOK' /\ TaskOK' /\ BusOK' /\ StartedInv' /\ RefcountExact'
        /\ localSubs' = localSubs \ {x} /\ fwdSubs' = fwdSubs \ {x}
    BY <2>1, <2>3, ForgetShape
  <2>5. UNCHANGED outVars
    BY <1>3 DEF OnForwarderEvent
  <2>6. ConnOK' /\ FlowOK' /\ OutOK'
    BY <1>1, <1>3, <2>2, <2>4, <2>5 DEF OnForwarderEvent, ConnOK, FlowOK, OutOK, outVars
  <2> QED
    BY <2>4, <2>5, <2>6, PartsType
<1>4. CASE Cleanup
  <2>1. /\ HubTypeOK' /\ TaskOK' /\ BusOK' /\ StartedInv' /\ RefcountExact'
        /\ localSubs' = {} /\ fwdSubs' = {}
    BY <1>4, CleanupShape
  <2>2. ConnOK' /\ FlowOK' /\ OutOK' /\ UNCHANGED outVars
    BY <1>1, <1>4, <2>1 DEF Cleanup, ConnOK, FlowOK, OutOK, outVars
  <2> QED
    BY <2>1, <2>2, PartsType
<1> QED
  BY <1>2, <1>3, <1>4 DEF DispatcherStep

(* What the writer puts on the wire. *)
LEMMA WireShape ==
  ASSUME BInv, NEW f \in Frames, Write(f)
  PROVE  /\ wire' \in [Locals -> Seq(Nat)] /\ writer' \in {"run", "ended"}
         /\ \A x \in Locals : ~(f.kind = "event" /\ f.sub = x) => wire'[x] = wire[x]
         /\ writer' = "run" => \A x \in Locals :
              f.kind = "event" /\ f.sub = x => wire'[x] = Append(wire[x], f.n)
         /\ f.kind = "event" => f.n \in Nat
<1>1. wire \in [Locals -> Seq(Nat)] /\ writer \in {"run", "ended"}
  BY TypeParts DEF FlowOK, ConnOK
<1>2. f.kind = "event" => f.n \in Nat
  BY FrameTypes DEF Frames
<1>3. \A x \in Locals : f.kind = "event" => Append(wire[x], f.n) \in Seq(Nat)
  BY <1>1, <1>2
<1>4. CASE /\ UNCHANGED writer
           /\ wire' = [x \in Locals |-> IF f.kind = "event" /\ f.sub = x
                                         THEN Append(wire[x], f.n) ELSE wire[x]]
  BY <1>1, <1>2, <1>3, <1>4
<1>5. CASE writer' = "ended" /\ UNCHANGED wire
  BY <1>1, <1>2, <1>5
<1> QED
  BY <1>4, <1>5 DEF Write

(* The books: the writer. *)
LEMMA WriterBooks ==
  ASSUME BInv, WriterStep
  PROVE  BInv'
<1>1. HubTypeOK /\ ConnOK /\ OutOK /\ TaskOK /\ BusOK /\ FlowOK
  BY TypeParts
<1>2. UNCHANGED <<hubVars, connVars, fwdEvents, task, hold, discarded, busVars, oneshot>>
  BY DEF WriterStep, WriteTerminal, WriteOut, WriterDone
<1>3. StartedInv' /\ RefcountExact'
  BY <1>2, BooksKept DEF hubVars, connVars
<1>4. HubTypeOK' /\ TaskOK' /\ BusOK'
  BY <1>1, <1>2 DEF HubTypeOK, TaskOK, BusOK, hubVars, busVars
<1>5. OutOK' /\ wire' \in [Locals -> Seq(Nat)] /\ writer' \in {"run", "ended"}
  <2>1. CASE WriteTerminal
    <3>1. /\ terminal \in Seq(Frames) /\ terminal # <<>> /\ Write(Head(terminal))
          /\ terminal' = Tail(terminal) /\ outq' = outq /\ Len(terminal) <= 1
      BY <1>1, <2>1 DEF WriteTerminal, OutOK
    <3>2. /\ Head(terminal) \in Frames /\ terminal' \in Seq(Frames)
          /\ Len(terminal') = Len(terminal) - 1
      BY <3>1
    <3>3. Len(terminal') <= 1
      BY <3>1, <3>2
    <3> QED
      BY <1>1, <3>1, <3>2, <3>3, WireShape DEF OutOK
  <2>2. CASE WriteOut
    <3>1. /\ outq \in Seq(Frames) /\ outq # <<>> /\ Write(Head(outq))
          /\ outq' = Tail(outq) /\ terminal' = terminal /\ Len(outq) <= OutboundCapacity
      BY <1>1, <2>2 DEF WriteOut, OutOK
    <3>2. Head(outq) \in Frames /\ outq' \in Seq(Frames) /\ Len(outq') = Len(outq) - 1
      BY <3>1
    <3>3. Len(outq') <= OutboundCapacity
      BY <3>1, <3>2, WsAssumption
    <3> QED
      BY <1>1, <3>1, <3>2, <3>3, WireShape DEF OutOK
  <2>3. CASE WriterDone
    BY <1>1, <2>3 DEF WriterDone, OutOK, FlowOK, outVars
  <2> QED
    BY <2>1, <2>2, <2>3 DEF WriterStep
<1>6. ConnOK' /\ FlowOK'
  BY <1>1, <1>2, <1>5 DEF ConnOK, FlowOK, connVars, busVars
<1> QED
  BY <1>3, <1>4, <1>5, <1>6, PartsType

(* Steps that change one forwarder and what it reads. *)
LEMMA TaskBooks ==
  ASSUME BInv, NEW x \in Subs, task[x] # "none",
         NEW o \in {"select", "polling", "got", "sending", "blocked", "retrying", "exited"}, task' = [task EXCEPT ![x] = o],
         UNCHANGED <<hubEntry, refcount, connVars>>, HubTypeOK', OutOK',
         fwdEvents' = fwdEvents \/ fwdEvents' = Append(fwdEvents, x),
         UNCHANGED <<writer, wire>>, BusOK', FlowOK'
  PROVE  BInv'
<1>1. ConnOK /\ TaskOK
  BY TypeParts
<1>2. TaskOK' /\ \A y \in Subs : task'[y] = "none" <=> task[y] = "none"
  BY <1>1 DEF TaskOK
<1>3. StartedInv' /\ RefcountExact'
  BY <1>2, BooksKept DEF connVars
<1>4. fwdEvents' \in Seq(Subs)
  BY <1>1 DEF ConnOK
<1>5. ConnOK'
  BY <1>1, <1>4 DEF ConnOK, connVars
<1> QED
  BY <1>2, <1>3, <1>5, PartsType

(* Which of its events a local forwarder sends. *)
Sends(x) ==
  /\ outq' = Append(outq, Frame("event", x, hold[x])) /\ Len(outq) < OutboundCapacity
  /\ task[x] \in {"sending", "retrying"} /\ task' = [task EXCEPT ![x] = "select"]
  /\ UNCHANGED fwdEvents

LEMMA SendInHandShape ==
  ASSUME BInv, NEW x \in Locals, SendInHand(x)
  PROVE  /\ task[x] \in {"sending", "retrying"}
         /\ UNCHANGED <<hubVars, connVars, terminal, writer, wire, hold, discarded, busVars, oneshot>>
         /\ \/ Sends(x) /\ writer = "run"
            \/ task' = [task EXCEPT ![x] = "blocked"] /\ UNCHANGED <<outq, fwdEvents>>
            \/ Exit(x) /\ UNCHANGED outq
<1>1. Cardinality(Blocked) \in Nat /\ outq \in Seq(Frames) /\ OutboundCapacity \in Nat
  BY CountsFinite, WsAssumption DEF BInv, TypeOK
<1>2. OutRoom => Len(outq) < OutboundCapacity
  BY <1>1 DEF OutRoom
<1>3. Room(x) => Len(outq) < OutboundCapacity
  BY <1>2 DEF Room
<1> QED
  BY <1>3 DEF SendInHand, Sends

(* A poll that moves the forwarder and nothing else. *)
Advances(x) ==
  /\ Alive(x) /\ \E o \in {"select", "polling", "sending", "retrying"} : task' = [task EXCEPT ![x] = o]
  /\ task[x] \in {"got", "blocked"} => task'[x] \in {"sending", "retrying"}
  /\ task[x] \in {"select", "polling"} => task'[x] \in {"select", "polling"}
  /\ UNCHANGED <<hubVars, connVars, outVars, writer, wire, fwdEvents, hold, discarded, busVars, oneshot>>
  /\ task[x] \in {"select", "polling", "got", "blocked"}

LEMMA PollShape ==
  ASSUME BInv, NEW x \in Locals, NoNotice(x) \/ NothingQueued(x)
  PROVE  Advances(x)
<1>1. TaskOK /\ x \in Subs
  BY TypeParts DEF Subs
<1>2. CASE NoNotice(x)
  <2>1. /\ task[x] \in {"select", "got", "blocked"} /\ task' = [task EXCEPT ![x] = Polled[task[x]]]
        /\ UNCHANGED <<hubVars, connVars, outVars, writer, wire, fwdEvents, hold, discarded, busVars, oneshot>>
    BY <1>2 DEF NoNotice, AtNotice, Polled
  <2>2. /\ Polled.select = "polling" /\ Polled.got = "sending" /\ Polled.blocked = "retrying"
    BY DEF Polled
  <2>3. /\ task[x] = "select" => Polled[task[x]] = "polling"
        /\ task[x] = "got" => Polled[task[x]] = "sending"
        /\ task[x] = "blocked" => Polled[task[x]] = "retrying"
    BY <2>2
  <2>4. task'[x] = Polled[task[x]]
    BY <1>1, <2>1 DEF TaskOK
  <2> QED
    BY <2>1, <2>3, <2>4 DEF Advances, Alive
<1>3. CASE NothingQueued(x)
  BY <1>1, <1>3 DEF NothingQueued, Advances, Alive, TaskOK
<1> QED
  BY <1>2, <1>3

(* The books: the local forwarders. *)
LEMMA LocalBooks ==
  ASSUME BInv, NEW x \in Locals, LocalStep(x)
  PROVE  BInv'
<1>1. HubTypeOK /\ ConnOK /\ OutOK /\ TaskOK /\ BusOK /\ FlowOK
  BY TypeParts
<1>2. x \in Subs
  BY DEF Subs
<1> USE DEF HubTypeOK, OutOK, BusOK, FlowOK, hubVars, busVars, outVars
<1>3. CASE ReportGap(x)
  <2>1. TryTerminal(Frame("gap", x, 0)) /\ outq' = outq
    BY <1>3 DEF ReportGap
  <2>2. terminal' \in Seq(Frames) /\ Len(terminal') <= 1
    BY <1>2, <2>1, FrameTypes, TerminalShape
  <2>3. OutOK'
    BY <1>1, <2>1, <2>2
  <2>4. /\ task' = [task EXCEPT ![x] = "exited"] /\ fwdEvents' = Append(fwdEvents, x)
        /\ oneshot' = [oneshot EXCEPT ![x] = "reported"] /\ task[x] # "none"
        /\ UNCHANGED <<hubVars, connVars, writer, wire, hold, discarded, busVars>>
    BY <1>3 DEF ReportGap, Exit, AtNotice, Polled
  <2>5. HubTypeOK' /\ BusOK' /\ FlowOK'
    BY <1>1, <2>4
  <2> QED
    BY <1>2, <2>3, <2>4, <2>5, TaskBooks
<1>4. CASE SenderDropped(x)
  <2>1. /\ oneshot' = [oneshot EXCEPT ![x] = "taken"]
        /\ UNCHANGED <<hubVars, connVars, outVars, writer, wire, fwdEvents, task, hold, discarded, busVars>>
    BY <1>4 DEF SenderDropped
  <2>2. HubTypeOK' /\ OutOK' /\ BusOK' /\ FlowOK'
    BY <1>1, <2>1
  <2>3. ConnOK' /\ TaskOK'
    BY <1>1, <2>1 DEF ConnOK, TaskOK, connVars
  <2>4. StartedInv' /\ RefcountExact'
    BY <2>1, BooksKept DEF connVars
  <2> QED
    BY <2>2, <2>3, <2>4, PartsType
<1>5. CASE Take(x)
  <2>1. /\ hold' = [hold EXCEPT ![x] = Head(queue[x])] /\ queue' = [queue EXCEPT ![x] = Tail(@)]
        /\ task' = [task EXCEPT ![x] = "got"] /\ task[x] # "none" /\ queue[x] # <<>>
        /\ UNCHANGED <<hubVars, connVars, outVars, writer, wire, fwdEvents, discarded, bus, published,
                       refused, refusals, oneshot>>
    BY <1>5 DEF Take
  <2>2. queue[x] \in Seq(Nat)
    BY <1>1
  <2>3. Head(queue[x]) \in Nat /\ Tail(queue[x]) \in Seq(Nat)
    BY <2>1, <2>2
  <2>4. HubTypeOK' /\ OutOK' /\ BusOK' /\ FlowOK'
    BY <1>1, <2>1, <2>3
  <2> QED
    BY <1>2, <2>1, <2>4, TaskBooks
<1>6. CASE EndOfQueue(x)
  <2>1. /\ task' = [task EXCEPT ![x] = "exited"] /\ fwdEvents' = Append(fwdEvents, x)
        /\ task[x] # "none"
        /\ UNCHANGED <<hubVars, connVars, outVars, writer, wire, hold, discarded, busVars, oneshot>>
    BY <1>6 DEF EndOfQueue, Exit
  <2>2. HubTypeOK' /\ OutOK' /\ BusOK' /\ FlowOK'
    BY <1>1, <2>1
  <2> QED
    BY <1>2, <2>1, <2>2, TaskBooks
<1>7. CASE DropInHand(x)
  <2>1. /\ oneshot' = [oneshot EXCEPT ![x] = "taken"] /\ task' = [task EXCEPT ![x] = "select"]
        /\ task[x] # "none" /\ discarded' = [discarded EXCEPT ![x] = @ \cup {hold[x]}]
        /\ UNCHANGED <<hubVars, connVars, outVars, writer, wire, fwdEvents, hold, busVars>>
    BY <1>7 DEF DropInHand
  <2>2. HubTypeOK' /\ OutOK' /\ BusOK' /\ FlowOK'
    BY <1>1, <2>1
  <2> QED
    BY <1>2, <2>1, <2>2, TaskBooks
<1>8. CASE SendInHand(x)
  <2>1. UNCHANGED <<hubVars, connVars, terminal, writer, wire, hold, discarded, busVars, oneshot>>
    BY <1>8, SendInHandShape
  <2>2. HubTypeOK' /\ BusOK' /\ FlowOK'
    BY <1>1, <2>1
  <2>3. CASE Sends(x)
    <3>1. Frame("event", x, hold[x]) \in Frames
      BY <1>1, <1>2, FrameTypes
    <3>2. outq' \in Seq(Frames) /\ Len(outq') <= OutboundCapacity
      BY <2>3, <3>1, AppendShape DEF Sends
    <3>3. OutOK'
      BY <1>1, <2>1, <3>2
    <3>4. task' = [task EXCEPT ![x] = "select"] /\ fwdEvents' = fwdEvents /\ task[x] # "none"
      BY <2>3 DEF Sends
    <3> QED
      BY <1>2, <2>1, <2>2, <3>3, <3>4, TaskBooks
  <2>a. task[x] # "none"
    BY <1>8, SendInHandShape
  <2>4. CASE task' = [task EXCEPT ![x] = "blocked"] /\ UNCHANGED <<outq, fwdEvents>>
    <3>1. OutOK'
      BY <1>1, <2>1, <2>4
    <3> QED
      BY <1>2, <2>1, <2>2, <2>a, <2>4, <3>1, TaskBooks
  <2>5. CASE Exit(x) /\ UNCHANGED outq
    <3>1. OutOK'
      BY <1>1, <2>1, <2>5
    <3>2. task' = [task EXCEPT ![x] = "exited"] /\ fwdEvents' = Append(fwdEvents, x)
            /\ task[x] # "none"
      BY <2>a, <2>5 DEF Exit
    <3> QED
      BY <1>2, <2>1, <2>2, <3>1, <3>2, TaskBooks
  <2> QED
    BY <1>8, <2>3, <2>4, <2>5, SendInHandShape
<1>9. CASE NoNotice(x) \/ NothingQueued(x)
  <2>1. Advances(x)
    BY <1>9, PollShape
  <2>2. PICK o \in {"select", "polling", "sending", "retrying"} : task' = [task EXCEPT ![x] = o]
    BY <2>1 DEF Advances
  <2>3. /\ UNCHANGED <<hubVars, connVars, outVars, writer, wire, fwdEvents, hold, discarded, busVars, oneshot>>
        /\ task[x] # "none"
    BY <2>1 DEF Advances
  <2>4. HubTypeOK' /\ OutOK' /\ BusOK' /\ FlowOK'
    BY <1>1, <2>3
  <2> QED
    BY <1>2, <2>2, <2>3, <2>4, TaskBooks
<1> QED
  BY <1>3, <1>4, <1>5, <1>6, <1>7, <1>8, <1>9 DEF LocalStep

(* try_send of a frame that is no event of a local subscription. *)
LEMMA TrySendShape ==
  ASSUME BInv, NEW f \in Frames, ~LocalEvent(f), TrySend(f), UNCHANGED terminal
  PROVE  OutOK' /\ OutKept /\ TermKept
<1>1. Cardinality(Blocked) \in Nat /\ outq \in Seq(Frames) /\ OutboundCapacity \in Nat /\ OutOK
  BY CountsFinite, WsAssumption, TypeParts DEF OutOK
<1>2. OutRoom => Len(outq) < OutboundCapacity
  BY <1>1 DEF OutRoom
<1>3. CASE outq' = Append(outq, f) /\ OutRoom
  <2>1. outq' \in Seq(Frames) /\ Len(outq') <= OutboundCapacity /\ OutKept
    BY <1>2, <1>3, AppendShape
  <2> QED
    BY <1>1, <2>1 DEF OutOK, TermKept
<1>4. CASE outq' = outq
  BY <1>1, <1>4 DEF OutOK, OutKept, TermKept
<1> QED
  BY <1>3, <1>4 DEF TrySend

(* try_send on the terminal channel alone. *)
LEMMA TryTerminalShape ==
  ASSUME BInv, NEW x \in Subs, TryTerminal(Frame("gap", x, 0)), UNCHANGED outq
  PROVE  OutOK' /\ OutKept /\ TermKept
<1>1. terminal' \in Seq(Frames) /\ Len(terminal') <= 1 /\ TermKept
  BY FrameTypes, TerminalShape
<1> QED
  BY <1>1, TypeParts DEF OutOK, OutKept

(* How a peer forwarder leaves its task: it goes on, it reports its end, or *)
(* it ends with the writer gone.                                            *)
EndsOrGoesOn(x) ==
  \/ UNCHANGED <<task, fwdEvents>>
  \/ Exit(x)
  \/ writer = "ended" /\ task' = [task EXCEPT ![x] = "exited"] /\ UNCHANGED fwdEvents

LEMMA PeerShape ==
  ASSUME BInv, NEW x \in Forwards, PeerStep(x)
  PROVE  /\ OutOK' /\ OutKept /\ TermKept /\ HubTypeOK'
         /\ UNCHANGED <<hubEntry, refcount, connVars, writer, wire, hold, discarded, busVars, oneshot>>
         /\ EndsOrGoesOn(x) /\ task[x] = "select"
<1>1. HubTypeOK /\ ConnOK /\ OutOK
  BY TypeParts
<1>2. x \in Subs /\ x \notin Locals
  BY WsAssumption DEF Subs
<1>3. \A kind \in {"event", "gap", "closed"} :
        Frame(kind, x, 0) \in Frames /\ ~LocalEvent(Frame(kind, x, 0))
  BY <1>2, FrameTypes DEF LocalEvent
<1>4. CASE ForwardLine(x)
  <2>1. /\ task[x] = "select" /\ unread' = [unread EXCEPT ![x] = @ - 1] /\ unread[x] > 0
        /\ UNCHANGED <<hubEntry, refcount, upstream, opened, chan, lagged, connVars, writer, wire,
                       hold, discarded, busVars, oneshot>>
    BY <1>4 DEF ForwardLine, HubLine
  <2>2. unread \in [Forwards -> 0 .. BroadcastBuffer] /\ BroadcastBuffer \in Nat
    BY <1>1, HubAssumption DEF HubTypeOK
  <2>3. unread' \in [Forwards -> 0 .. BroadcastBuffer]
    <3>1. unread[x] - 1 \in 0 .. BroadcastBuffer
      BY <2>1, <2>2
    <3> QED
      BY <2>1, <2>2, <3>1
  <2>4. HubTypeOK'
    BY <1>1, <2>1, <2>3 DEF HubTypeOK
  <2>5. CASE TrySend(Frame("event", x, 0)) /\ UNCHANGED <<terminal, task, fwdEvents>>
    <3>1. OutOK' /\ OutKept /\ TermKept
      BY <1>3, <2>5, TrySendShape
    <3> QED
      BY <2>1, <2>4, <2>5, <3>1 DEF EndsOrGoesOn
  <2>6. CASE TryTerminal(Frame("gap", x, 0)) /\ Exit(x) /\ UNCHANGED outq
    <3>1. OutOK' /\ OutKept /\ TermKept
      BY <1>2, <2>6, TryTerminalShape
    <3> QED
      BY <2>1, <2>4, <2>6, <3>1 DEF EndsOrGoesOn
  <2>7. CASE /\ writer = "ended" /\ task' = [task EXCEPT ![x] = "exited"]
             /\ UNCHANGED <<outVars, fwdEvents>>
    <3>1. OutOK' /\ OutKept /\ TermKept
      BY <1>1, <2>7 DEF OutOK, OutKept, TermKept, outVars
    <3> QED
      BY <2>1, <2>4, <2>7, <3>1 DEF EndsOrGoesOn
  <2> QED
    BY <1>4, <2>5, <2>6, <2>7 DEF ForwardLine
<1>5. CASE ForwardEnds(x)
  <2>1. /\ task[x] = "select" /\ Exit(x)
        /\ UNCHANGED <<hubVars, connVars, writer, wire, hold, discarded, busVars, oneshot>>
    BY <1>5 DEF ForwardEnds
  <2>2. HubTypeOK'
    BY <1>1, <2>1 DEF HubTypeOK, hubVars
  <2>3. OutOK' /\ OutKept /\ TermKept
    <3>1. \/ TryTerminal(Frame("gap", x, 0)) /\ UNCHANGED outq
          \/ TrySend(Frame("closed", x, 0)) /\ UNCHANGED terminal
      BY <1>5 DEF ForwardEnds
    <3> QED
      BY <1>2, <1>3, <3>1, TrySendShape, TryTerminalShape
  <2> QED
    BY <2>1, <2>2, <2>3 DEF EndsOrGoesOn, hubVars
<1> QED
  BY <1>4, <1>5 DEF PeerStep

(* The books: the forwarders of peer subscriptions. *)
LEMMA PeerBooks ==
  ASSUME BInv, NEW x \in Forwards, PeerStep(x)
  PROVE  BInv'
<1>1. ConnOK /\ TaskOK /\ BusOK /\ FlowOK
  BY TypeParts
<1>2. /\ OutOK' /\ HubTypeOK'
      /\ UNCHANGED <<hubEntry, refcount, connVars, writer, wire, hold, discarded, busVars, oneshot>>
      /\ EndsOrGoesOn(x) /\ task[x] = "select"
  BY PeerShape
<1>3. BusOK' /\ FlowOK'
  BY <1>1, <1>2 DEF BusOK, FlowOK, busVars
<1>4. x \in Subs
  BY DEF Subs
<1>5. CASE UNCHANGED <<task, fwdEvents>>
  <2>1. TaskOK' /\ ConnOK'
    BY <1>1, <1>2, <1>5 DEF TaskOK, ConnOK, connVars
  <2>2. StartedInv' /\ RefcountExact'
    BY <1>2, <1>5, BooksKept DEF connVars
  <2> QED
    BY <1>2, <1>3, <2>1, <2>2, PartsType
<1>6. CASE /\ task' = [task EXCEPT ![x] = "exited"]
           /\ fwdEvents' = fwdEvents \/ fwdEvents' = Append(fwdEvents, x)
  BY <1>2, <1>3, <1>4, <1>6, TaskBooks
<1> QED
  BY <1>2, <1>5, <1>6 DEF EndsOrGoesOn, Exit

(* The books: publishers on the bus. *)
LEMMA BusBooks ==
  ASSUME BInv, NEW x \in Locals,
         Publish(x) \/ CommitLast(x) \/ CommitDisconnect(x) \/ CommitClosed(x)
  PROVE  BInv'
<1>1. HubTypeOK /\ ConnOK /\ OutOK /\ TaskOK /\ BusOK /\ FlowOK
  BY TypeParts
<1>2. UNCHANGED <<hubVars, connVars, outVars, writer, wire, fwdEvents, task, hold, discarded>>
  BY DEF Publish, CommitLast, CommitDisconnect, CommitClosed
<1>3. HubTypeOK' /\ ConnOK' /\ OutOK' /\ TaskOK'
  BY <1>1, <1>2 DEF HubTypeOK, ConnOK, OutOK, TaskOK, hubVars, connVars, outVars
<1>4. StartedInv' /\ RefcountExact'
  BY <1>2, BooksKept DEF hubVars, connVars
<1>5. BusOK' /\ FlowOK'
  <2>1. CASE Publish(x)
    <3>1. Append(queue[x], published[x] + 1) \in Seq(Nat) /\ published[x] + 1 \in Nat
      BY <1>1 DEF FlowOK
    <3>2. /\ published' = [published EXCEPT ![x] = published[x] + 1] /\ oneshot' = oneshot
          /\ queue' = queue \/ queue' = [queue EXCEPT ![x] = Append(queue[x], published[x] + 1)]
          /\ refused' = refused \/ refused' = [refused EXCEPT ![x] = TRUE]
          /\ \/ refusals' = refusals
             \/ refusals' = [refusals EXCEPT ![x] = refusals[x] \cup {published[x] + 1}]
      BY <2>1 DEF Publish
    <3>3. bus' = bus \/ \E b \in {bus[x], "exhausted"} : bus' = [bus EXCEPT ![x] = b]
      BY <2>1 DEF Publish
    <3>4. BusOK'
      BY <1>1, <3>2, <3>3 DEF BusOK
    <3>a. refusals' \in [Locals -> SUBSET Nat]
      <4>1. refusals \in [Locals -> SUBSET Nat] /\ refusals[x] \cup {published[x] + 1} \in SUBSET Nat
        BY <1>1, <3>1 DEF FlowOK
      <4> QED
        BY <3>2, <4>1
    <3>b. queue' \in [Locals -> Seq(Nat)] /\ published' \in [Locals -> Nat]
      BY <1>1, <3>1, <3>2 DEF FlowOK
    <3>5. FlowOK'
      BY <1>1, <1>2, <3>a, <3>b, <3>2 DEF FlowOK
    <3> QED
      BY <3>4, <3>5
  <2>2. CASE CommitDisconnect(x)
    BY <1>1, <1>2, <2>2 DEF CommitDisconnect, BusOK, FlowOK
  <2>3. CASE CommitLast(x) \/ CommitClosed(x)
    <3>1. BusRemove({x}) /\ UNCHANGED <<queue, published, refused, refusals, refusals>>
      BY <2>3 DEF CommitLast, CommitClosed
    <3>2. BusOK'
      BY <3>1, BusRemoveShape
    <3> QED
      BY <1>1, <1>2, <3>1, <3>2 DEF FlowOK
  <2> QED
    BY <2>1, <2>2, <2>3
<1> QED
  BY <1>3, <1>4, <1>5, PartsType

(* The books: the hub's upstream streams. *)
LEMMA HubBooks ==
  ASSUME BInv, HubStep
  PROVE  BInv'
<1>1. HubTypeOK /\ ConnOK /\ OutOK /\ TaskOK /\ BusOK /\ FlowOK
  BY TypeParts
<1>2. UNCHANGED <<connVars, outVars, writer, wire, fwdEvents, task, hold, discarded, busVars, oneshot>>
  BY DEF HubStep, wsVars
<1>3. ConnOK' /\ OutOK' /\ TaskOK' /\ BusOK' /\ FlowOK'
  BY <1>1, <1>2 DEF ConnOK, OutOK, TaskOK, BusOK, FlowOK, connVars, outVars, busVars
<1>4. UNCHANGED <<hubEntry, refcount>> /\ HubTypeOK'
  <2>1. PICK g \in Streams : StreamLine(g) \/ StreamOver(g)
    BY DEF HubStep
  <2>2. CASE StreamOver(g)
    BY <1>1, <2>2 DEF StreamOver, HubTypeOK
  <2>3. CASE StreamLine(g)
    <3>1. /\ unread \in [Forwards -> 0 .. BroadcastBuffer] /\ BroadcastBuffer \in Nat
      BY <1>1, HubAssumption DEF HubTypeOK
    <3>2. \A r \in Forwards : unread[r] # BroadcastBuffer => unread[r] + 1 \in 0 .. BroadcastBuffer
      BY <3>1
    <3>3. unread' \in [Forwards -> 0 .. BroadcastBuffer]
      BY <2>3, <3>1, <3>2 DEF StreamLine
    <3>4. /\ lagged' \in [Forwards -> BOOLEAN]
          /\ UNCHANGED <<hubEntry, refcount, upstream, opened, chan>>
      BY <2>3 DEF StreamLine
    <3> QED
      BY <1>1, <3>3, <3>4 DEF HubTypeOK
  <2> QED
    BY <2>1, <2>2, <2>3
<1>5. StartedInv' /\ RefcountExact'
  BY <1>2, <1>4, BooksKept DEF connVars
<1> QED
  BY <1>3, <1>4, <1>5, PartsType

(* BInv is inductive. *)
LEMMA BooksInit == Init => BInv
<1> SUFFICES ASSUME Init PROVE BInv
  OBVIOUS
<1>1. Started = {} /\ IsFiniteSet(Started)
  BY FS_EmptySet DEF Init, Started
<1>2. RefcountExact
  <2>1. \A k \in Keys : Cardinality({r \in fwdSubs : KeyOf[r] = k}) = 0
    <3>1. \A k \in Keys : {r \in fwdSubs : KeyOf[r] = k} = {}
      BY DEF Init
    <3> QED
      BY <3>1, FS_EmptySet
  <2> QED
    BY <2>1 DEF Init, HubInit, RefcountExact
<1>3. HubTypeOK
  BY HubAssumption DEF Init, HubInit, HubTypeOK
<1>4. ConnOK /\ OutOK /\ TaskOK /\ BusOK /\ FlowOK
  BY WsAssumption DEF Init, ConnOK, OutOK, TaskOK, BusOK, FlowOK
<1> QED
  BY <1>1, <1>2, <1>3, <1>4
     DEF BInv, TypeOK, StartedInv, ConnOK, OutOK, TaskOK, BusOK, FlowOK, Init

LEMMA BooksStep == BInv /\ [Next]_vars => BInv'
<1> SUFFICES ASSUME BInv, [Next]_vars PROVE BInv'
  OBVIOUS
<1>1. CASE UNCHANGED vars
  <2>1. StartedInv' /\ RefcountExact'
    BY <1>1, BooksKept DEF vars, hubVars
  <2>2. TypeOK'
    BY <1>1 DEF BInv, TypeOK, HubTypeOK, vars, hubVars
  <2> QED
    BY <2>1, <2>2 DEF BInv
<1>2. CASE Next
  BY <1>2, RequestBooks, DispatcherBooks, WriterBooks, LocalBooks, BusBooks, PeerBooks, HubBooks
     DEF Next
<1> QED
  BY <1>1, <1>2

(* Every field of the connection, its queues, its forwarders, the bus and   *)
(* the hub keeps its type: no queue outgrows its capacity and no reference  *)
(* count goes below zero, whoever releases a subscription first.            *)
THEOREM TypeCorrect == Spec => []TypeOK
  BY BooksInit, BooksStep, PTL DEF Spec, BInv

(* The reference count of a shared peer stream is the number of forwarded   *)
(* subscriptions on it, although lag, unsubscription and the teardown of    *)
(* the connection may each try to release the same one.                     *)
THEOREM RefcountCorrect == Spec => []RefcountExact
  BY BooksInit, BooksStep, PTL DEF Spec, BInv

-----------------------------------------------------------------------------
(* Tracking.  SubsTracked and EndedIsReported are inductive with the books. *)
RInv == BInv /\ SubsTracked /\ EndedIsReported

Reported(y) == \E i \in DOMAIN fwdEvents : fwdEvents[i] = y
Entries == localSubs \cup fwdSubs
LiveOnBus == {"active", "exhausted"}

(* A report is not lost until the dispatcher takes it. *)
LEMMA ReportGrows ==
  ASSUME BInv, NEW x \in Subs, fwdEvents' = Append(fwdEvents, x)
  PROVE  Reported(x)' /\ \A y : Reported(y) => Reported(y)'
<1>1. fwdEvents \in Seq(Subs)
  BY TypeParts DEF ConnOK
<1>2. /\ Len(fwdEvents) + 1 \in DOMAIN fwdEvents' /\ fwdEvents'[Len(fwdEvents) + 1] = x
      /\ \A i \in DOMAIN fwdEvents : i \in DOMAIN fwdEvents' /\ fwdEvents'[i] = fwdEvents[i]
  BY <1>1
<1>3. Reported(x)'
  BY <1>2 DEF Reported
<1>4. ASSUME NEW y, Reported(y) PROVE Reported(y)'
  <2>1. PICK i \in DOMAIN fwdEvents : fwdEvents[i] = y
    BY <1>4 DEF Reported
  <2>2. i \in DOMAIN fwdEvents' /\ fwdEvents'[i] = y
    BY <1>2, <2>1
  <2> QED
    BY <2>2 DEF Reported
<1> QED
  BY <1>3, <1>4

LEMMA ReportTaken ==
  ASSUME BInv, fwdEvents # <<>>, fwdEvents' = Tail(fwdEvents), NEW y, Reported(y),
         y # Head(fwdEvents)
  PROVE  Reported(y)'
<1>1. fwdEvents \in Seq(Subs)
  BY TypeParts DEF ConnOK
<1>2. PICK i \in DOMAIN fwdEvents : fwdEvents[i] = y
  BY DEF Reported
<1>3. i \in 1 .. Len(fwdEvents) /\ i # 1
  BY <1>1, <1>2
<1>4. i - 1 \in DOMAIN fwdEvents' /\ fwdEvents'[i - 1] = y
  BY <1>1, <1>2, <1>3
<1> QED
  BY <1>4 DEF Reported

(* Steps that bring nothing new into the table and end no forwarder of an   *)
(* entry without a report.                                                  *)
LEMMA TrackFrame ==
  ASSUME RInv, BInv',
         \A y \in Locals : bus'[y] \in LiveOnBus => bus[y] \in LiveOnBus,
         UNCHANGED <<localSubs, fwdSubs>>,
         writer' = "run" => writer = "run",
         \A y \in Entries : \/ task'[y] # "exited"
                            \/ writer' = "ended"
                            \/ task'[y] = task[y]
                            \/ Reported(y)',
         \A y : Reported(y) => Reported(y)'
  PROVE  RInv'
<1>1. SubsTracked'
  BY DEF RInv, SubsTracked, LiveOnBus
<1>2. EndedIsReported'
  <2> SUFFICES ASSUME NEW y \in Entries, task'[y] = "exited", writer' = "run"
               PROVE  Reported(y)'
    BY DEF EndedIsReported, Reported, Entries
  <2>1. CASE task'[y] = task[y]
    <3>1. Reported(y)
      BY <2>1 DEF RInv, EndedIsReported, Reported, Entries
    <3> QED
      BY <3>1
  <2> QED
    BY <2>1
<1> QED
  BY <1>1, <1>2 DEF RInv

(* Tracking: the requests. *)
LEMMA TrackRequest ==
  ASSUME RInv, BInv', Control \/ \E x \in Subs : Request(x)
  PROVE  RInv'
<1>1. BInv /\ TaskOK /\ BusOK /\ ConnOK
  BY TypeParts DEF RInv
<1>2. fwdEvents' = fwdEvents /\ writer' = writer
  BY DEF Control, Request, Unsubscribe, SubscribeLocal, SubscribePeer
<1>3. \A y : Reported(y)' <=> Reported(y)
  BY <1>2 DEF Reported
<1>4. CASE Control
  <2>1. UNCHANGED <<localSubs, fwdSubs, task, bus>>
    BY <1>4 DEF Control, busVars
  <2> QED
    BY <1>2, <1>3, <2>1, TrackFrame
<1>5. ASSUME NEW x \in Subs, Unsubscribe(x) PROVE RInv'
  <2>1. /\ localSubs' = localSubs \ {x} /\ fwdSubs' = fwdSubs \ {x}
        /\ \A y \in Subs : y # x \/ y \in Locals => task'[y] = task[y]
        /\ \A y \in Locals : IF y = x /\ x \in localSubs THEN Removed(y) ELSE Untouched(y)
    BY <1>1, <1>5, ForgetShape DEF Unsubscribe
  <2>2. SubsTracked'
    BY <2>1 DEF RInv, SubsTracked, Removed, Untouched
  <2>3. EndedIsReported'
    BY <1>1, <1>2, <2>1 DEF RInv, EndedIsReported, ConnOK, Subs
  <2> QED
    BY <2>2, <2>3 DEF RInv
<1>6. ASSUME NEW x \in Locals, SubscribeLocal(x) PROVE RInv'
  <2>1. /\ bus' = [bus EXCEPT ![x] = "active"] /\ localSubs' = localSubs \cup {x}
        /\ task' = [task EXCEPT ![x] = "select"] /\ x \in Subs /\ fwdSubs' = fwdSubs
    BY <1>6 DEF SubscribeLocal, Subs
  <2>2. SubsTracked'
    BY <1>1, <2>1 DEF RInv, SubsTracked, BusOK
  <2>3. EndedIsReported'
    BY <1>1, <1>2, <2>1 DEF RInv, EndedIsReported, TaskOK, ConnOK, Subs
  <2> QED
    BY <2>2, <2>3 DEF RInv
<1>7. ASSUME NEW x \in Forwards, SubscribePeer(x) PROVE RInv'
  <2>1. /\ UNCHANGED <<bus, localSubs>> /\ x \in Subs
        /\ \/ fwdSubs' = fwdSubs \cup {x} /\ task' = [task EXCEPT ![x] = "select"]
           \/ UNCHANGED <<fwdSubs, task>>
    BY <1>7 DEF SubscribePeer, busVars, Subs
  <2>2. SubsTracked'
    BY <2>1 DEF RInv, SubsTracked
  <2>3. EndedIsReported'
    BY <1>1, <1>2, <2>1 DEF RInv, EndedIsReported, TaskOK, ConnOK, Subs
  <2> QED
    BY <2>2, <2>3 DEF RInv
<1> QED
  BY <1>4, <1>5, <1>6, <1>7 DEF Request

(* Tracking: the dispatcher takes reports and cleans up. *)
LEMMA TrackDispatcher ==
  ASSUME RInv, BInv', ClientGone \/ DispatcherStep
  PROVE  RInv'
<1>1. BInv /\ TaskOK /\ BusOK /\ ConnOK
  BY TypeParts DEF RInv
<1>2. CASE ClientGone \/ LeaveLoop
  <2>1. UNCHANGED <<localSubs, fwdSubs, task, bus, fwdEvents, writer>>
    BY <1>2 DEF ClientGone, LeaveLoop, busVars
  <2>2. \A y : Reported(y) => Reported(y)'
    BY <2>1 DEF Reported
  <2> QED
    BY <2>1, <2>2, TrackFrame
<1>3. CASE OnForwarderEvent
  <2>1. /\ fwdEvents # <<>> /\ fwdEvents' = Tail(fwdEvents) /\ Forget(Head(fwdEvents))
        /\ writer' = writer
    BY <1>3 DEF OnForwarderEvent
  <2>2. PICK x \in Subs : x = Head(fwdEvents)
    BY <1>1, <2>1 DEF ConnOK
  <2>3. /\ localSubs' = localSubs \ {x} /\ fwdSubs' = fwdSubs \ {x}
        /\ \A y \in Subs : y # x \/ y \in Locals => task'[y] = task[y]
        /\ \A y \in Locals : IF y = x /\ x \in localSubs THEN Removed(y) ELSE Untouched(y)
    BY <1>1, <2>1, <2>2, ForgetShape
  <2>4. SubsTracked'
    BY <2>3 DEF RInv, SubsTracked, Removed, Untouched
  <2>5. EndedIsReported'
    <3> SUFFICES ASSUME NEW y \in Entries', task'[y] = "exited", writer' = "run"
                 PROVE  Reported(y)'
      BY DEF EndedIsReported, Reported, Entries
    <3>1. y \in Entries /\ y # x /\ y \in Subs
      BY <1>1, <2>3 DEF Entries, ConnOK, Subs
    <3>2. Reported(y)
      BY <2>1, <2>3, <3>1 DEF RInv, EndedIsReported, Reported, Entries
    <3> QED
      BY <1>1, <2>1, <2>2, <3>1, <3>2, ReportTaken
  <2> QED
    BY <2>4, <2>5 DEF RInv
<1>4. CASE Cleanup
  <2>1. /\ localSubs' = {} /\ fwdSubs' = {}
        /\ \A y \in Locals : IF y \in localSubs THEN Removed(y) ELSE Untouched(y)
    BY <1>1, <1>4, CleanupShape
  <2> QED
    BY <2>1 DEF RInv, SubsTracked, EndedIsReported, Removed, Untouched
<1> QED
  BY <1>2, <1>3, <1>4 DEF DispatcherStep

(* A forwarder goes to o, and reports it when that is its end, unless the   *)
(* writer is gone.                                                          *)
Moves(x, o) ==
  /\ task' = task \/ task' = [task EXCEPT ![x] = o]
  /\ \/ o # "exited" /\ fwdEvents' = fwdEvents
     \/ o = "exited" /\ fwdEvents' = Append(fwdEvents, x)
     \/ writer' = "ended" /\ fwdEvents' = fwdEvents

(* Tracking: a forwarder that ends reports it, unless the writer is gone. *)
LEMMA TrackForwarder ==
  ASSUME RInv, BInv',
         (\E x \in Locals : LocalStep(x)) \/ (\E x \in Forwards : PeerStep(x))
  PROVE  RInv'
<1>1. BInv /\ TaskOK /\ BusOK /\ ConnOK
  BY TypeParts DEF RInv
<1>2. /\ UNCHANGED <<bus, localSubs, fwdSubs, writer>>
      /\ \E x \in Subs : \E o : Moves(x, o)
  <2>1. ASSUME NEW x \in Locals, LocalStep(x)
        PROVE  /\ UNCHANGED <<bus, localSubs, fwdSubs, writer>>
               /\ \E o : Moves(x, o)
    <3>1. CASE ReportGap(x) \/ EndOfQueue(x)
      BY <3>1 DEF Moves, ReportGap, EndOfQueue, Exit, connVars, busVars
    <3>2. CASE SenderDropped(x) \/ DropInHand(x)
      BY <3>2 DEF Moves, SenderDropped, DropInHand, connVars, busVars
    <3>5. CASE NoNotice(x) \/ NothingQueued(x)
      <4>1. Advances(x)
        BY <1>1, <3>5, PollShape
      <4>2. PICK o \in {"select", "polling", "sending", "retrying"} : task' = [task EXCEPT ![x] = o]
        BY <4>1 DEF Advances
      <4>3. UNCHANGED <<bus, localSubs, fwdSubs, writer, fwdEvents>>
        BY <4>1 DEF Advances, connVars, busVars
      <4>4. Moves(x, o)
        BY <4>2, <4>3 DEF Moves
      <4> QED
        BY <4>3, <4>4
    <3>3. CASE Take(x)
      <4>1. task' = [task EXCEPT ![x] = "got"] /\ fwdEvents' = fwdEvents
        BY <3>3 DEF Take
      <4>2. UNCHANGED <<bus, localSubs, fwdSubs, writer>>
        BY <3>3 DEF Take, connVars
      <4>3. \E o : Moves(x, o)
        <5> WITNESS "got"
        <5> QED
          BY <4>1 DEF Moves
      <4> QED
        BY <4>2, <4>3
    <3>4. CASE SendInHand(x)
      <4>1. /\ UNCHANGED <<bus, localSubs, fwdSubs, writer>>
            /\ \/ task' = [task EXCEPT ![x] = "select"] /\ UNCHANGED fwdEvents
               \/ task' = [task EXCEPT ![x] = "blocked"] /\ UNCHANGED fwdEvents
               \/ Exit(x)
        BY <1>1, <3>4, SendInHandShape DEF Sends, connVars, busVars
      <4> QED
        BY <4>1 DEF Moves, Exit
    <3> QED
      BY <2>1, <3>1, <3>2, <3>3, <3>4, <3>5 DEF LocalStep
  <2>2. ASSUME NEW x \in Forwards, PeerStep(x)
        PROVE  /\ UNCHANGED <<bus, localSubs, fwdSubs, writer>>
               /\ \E o : Moves(x, o)
    BY <1>1, <2>2, PeerShape DEF Moves, EndsOrGoesOn, Exit, connVars, busVars
  <2> QED
    BY <2>1, <2>2 DEF Subs
<1>3. PICK x \in Subs : \E o : Moves(x, o)
  BY <1>2
<1>a. PICK o : Moves(x, o)
  BY <1>3
<1>4. \A y \in Subs : task'[y] = task[y] \/ (y = x /\ task'[y] = o)
  BY <1>1, <1>a DEF TaskOK, Moves
<1>5. CASE fwdEvents' = Append(fwdEvents, x)
  <2>1. Reported(x)' /\ \A y : Reported(y) => Reported(y)'
    BY <1>1, <1>5, ReportGrows
  <2>2. \A y \in Entries : task'[y] = task[y] \/ Reported(y)'
    BY <1>1, <1>4, <2>1 DEF Entries, ConnOK, Subs
  <2> QED
    BY <1>2, <2>1, <2>2, TrackFrame
<1>6. CASE fwdEvents' = fwdEvents
  <2>1. \A y : Reported(y) => Reported(y)'
    BY <1>6 DEF Reported
  <2>2. fwdEvents # Append(fwdEvents, x)
    <3>1. Len(Append(fwdEvents, x)) = Len(fwdEvents) + 1 /\ Len(fwdEvents) \in Nat
      BY <1>1 DEF ConnOK
    <3> QED
      BY <3>1
  <2>3. \A y \in Entries : task'[y] = task[y] \/ task'[y] # "exited" \/ writer' = "ended"
    BY <1>1, <1>a, <1>4, <1>6, <2>2 DEF Moves, Entries, ConnOK, Subs
  <2> QED
    BY <1>2, <2>1, <2>3, TrackFrame
<1> QED
  BY <1>a, <1>5, <1>6 DEF Moves

(* Tracking: the writer, the publishers and the hub. *)
LEMMA TrackOther ==
  ASSUME RInv, BInv',
         \/ WriterStep \/ HubStep \/ UNCHANGED vars
         \/ \E x \in Locals : Publish(x) \/ CommitLast(x) \/ CommitDisconnect(x) \/ CommitClosed(x)
  PROVE  RInv'
<1>1. BInv /\ BusOK /\ ConnOK
  BY TypeParts DEF RInv
<1>2. UNCHANGED <<localSubs, fwdSubs, task, fwdEvents>> /\ (writer' = "run" => writer = "run")
  <2>1. CASE WriterStep
    BY <2>1 DEF WriterStep, WriteTerminal, WriteOut, WriterDone, connVars
  <2>2. CASE HubStep \/ UNCHANGED vars
    BY <2>2 DEF HubStep, wsVars, connVars, vars
  <2>3. CASE \E x \in Locals : Publish(x) \/ CommitLast(x) \/ CommitDisconnect(x) \/ CommitClosed(x)
    BY <2>3 DEF Publish, CommitLast, CommitDisconnect, CommitClosed, connVars
  <2> QED
    BY <2>1, <2>2, <2>3
<1>3. \A y : Reported(y) => Reported(y)'
  BY <1>2 DEF Reported
<1>4. \A y \in Locals : bus'[y] \in LiveOnBus => bus[y] \in LiveOnBus
  <2>1. CASE bus' = bus
    BY <2>1
  <2>2. CASE WriterStep \/ HubStep \/ UNCHANGED vars
    BY <2>1, <2>2 DEF WriterStep, WriteTerminal, WriteOut, WriterDone, HubStep, wsVars, vars, busVars
  <2>3. ASSUME NEW x \in Locals, Publish(x)
        PROVE  \A y \in Locals : bus'[y] \in LiveOnBus => bus[y] \in LiveOnBus
    BY <1>1, <2>3 DEF Publish, Claimable, BusOK, LiveOnBus
  <2>4. ASSUME NEW x \in Locals, CommitDisconnect(x)
        PROVE  \A y \in Locals : bus'[y] \in LiveOnBus => bus[y] \in LiveOnBus
    BY <1>1, <2>4 DEF CommitDisconnect, BusOK, LiveOnBus
  <2>5. ASSUME NEW x \in Locals, CommitLast(x) \/ CommitClosed(x)
        PROVE  \A y \in Locals : bus'[y] \in LiveOnBus => bus[y] \in LiveOnBus
    BY <1>1, <2>5 DEF CommitLast, CommitClosed, BusRemove, LiveOnBus
  <2> QED
    BY <2>2, <2>3, <2>4, <2>5
<1> QED
  BY <1>2, <1>3, <1>4, TrackFrame

LEMMA TrackStep == RInv /\ [Next]_vars => RInv'
<1> SUFFICES ASSUME RInv, [Next]_vars PROVE RInv'
  OBVIOUS
<1>1. BInv'
  BY BooksStep DEF RInv
<1> QED
  BY <1>1, TrackRequest, TrackDispatcher, TrackForwarder, TrackOther DEF Next

LEMMA TrackInit == Init => RInv
  BY BooksInit DEF RInv, Init, SubsTracked, EndedIsReported

(* A subscription that is live on the bus is in the table of its            *)
(* connection, so the cleanup after the writer leaves none on the bus,      *)
(* however unsubscription, slow-consumer disconnects and limits race it.    *)
THEOREM TrackingCorrect == Spec => []SubsTracked
  BY TrackInit, TrackStep, PTL DEF Spec, RInv

(* While the writer runs, no forwarder ends without the dispatcher hearing  *)
(* of it: its subscription stops counting against the cap.                  *)
THEOREM ReportingCorrect == Spec => []EndedIsReported
  BY TrackInit, TrackStep, PTL DEF Spec, RInv

-----------------------------------------------------------------------------
(* Holes.  The events of x are numbered by their publication.  Those on the *)
(* wire come before those in the outbound queue, these before the one in    *)
(* the forwarder's hand and the ones in the queue of the bus, and whatever  *)
(* is in none of these places was refused or let go.                        *)
Holding(x) == task[x] \in {"got", "sending", "blocked", "retrying"}
Hand(x) == IF Holding(x) THEN {hold[x]} ELSE {}
Waiting(x) == {queue[x][i] : i \in DOMAIN queue[x]}
Coming(x) == Hand(x) \cup Waiting(x)
Sent(x) == Written(x) \cup QueuedNumbers(x)

WireOK(x) ==
  /\ \A i, j \in DOMAIN wire[x] : i < j => wire[x][i] < wire[x][j]
  /\ \A n \in Written(x) : \A k \in 1 .. n - 1 : k \in Written(x) \cup Missed(x)

OutwardOK(x) == writer = "run" =>
  /\ \A i, j \in Queued(x) : i < j => outq[i].n < outq[j].n
  /\ \A w \in Written(x), u \in QueuedNumbers(x) : w < u
  /\ \A n \in QueuedNumbers(x) : \A k \in 1 .. n - 1 : k \in Sent(x) \cup Missed(x)

InwardOK(x) == Alive(x) =>
  /\ \A i, j \in DOMAIN queue[x] : i < j => queue[x][i] < queue[x][j]
  /\ \A h \in Hand(x), q \in Waiting(x) : h < q
  /\ Coming(x) \subseteq 1 .. published[x]

(* The chain as long as the writer runs. *)
ChainOK(x) == Alive(x) /\ writer = "run" =>
  /\ Sent(x) \subseteq 1 .. published[x]
  /\ \A s \in Sent(x), c \in Coming(x) : s < c
  /\ \A k \in 1 .. published[x] : k \in Sent(x) \cup Coming(x) \cup Missed(x)

(* Nothing was published before the forwarder started. *)
Unstarted(x) == task[x] = "none" =>
  published[x] = 0 /\ queue[x] = <<>> /\ Sent(x) = {} /\ Missed(x) = {}

MissEnds(x) ==
  /\ Missed(x) # {} => refused[x] \/ bus[x] = "removed"
  /\ oneshot[x] = "dropped" => bus[x] = "removed"

PerSub(x) ==
  WireOK(x) /\ OutwardOK(x) /\ InwardOK(x) /\ ChainOK(x) /\ Unstarted(x) /\ MissEnds(x)

HInv == BInv /\ NoEventIn(terminal) /\ \A x \in Locals : PerSub(x)

(* The queue as seen by the events of x: only other frames were appended. *)
KeptFor(x) ==
  /\ \A i \in DOMAIN outq : i \in DOMAIN outq' /\ outq'[i] = outq[i]
  /\ \A i \in DOMAIN outq' : i \in DOMAIN outq \/ ~(outq'[i].kind = "event" /\ outq'[i].sub = x)

LEMMA QueuedKept ==
  ASSUME NEW x \in Locals, KeptFor(x)
  PROVE  /\ Queued(x)' = Queued(x) /\ QueuedNumbers(x)' = QueuedNumbers(x)
         /\ \A i \in Queued(x) : outq'[i] = outq[i]
<1>1. Queued(x)' = Queued(x) /\ \A i \in Queued(x) : outq'[i] = outq[i]
  BY DEF Queued, KeptFor
<1> QED
  BY <1>1 DEF QueuedNumbers

LEMMA NumberTypes ==
  ASSUME BInv, NEW x \in Locals
  PROVE  /\ Written(x) \subseteq Nat /\ QueuedNumbers(x) \subseteq Nat /\ Hand(x) \subseteq Nat
         /\ Waiting(x) \subseteq Nat /\ published[x] \in Nat
         /\ \A i \in Queued(x) : outq[i].n \in Nat
<1>1. OutOK /\ FlowOK
  BY TypeParts
<1>2. wire[x] \in Seq(Nat) /\ queue[x] \in Seq(Nat) /\ hold[x] \in Nat /\ published[x] \in Nat
  BY <1>1 DEF FlowOK
<1>3. Written(x) \subseteq Nat /\ Waiting(x) \subseteq Nat /\ Hand(x) \subseteq Nat
  BY <1>2 DEF Written, Waiting, Hand
<1>4. \A i \in Queued(x) : outq[i].n \in Nat
  <2>1. \A i \in DOMAIN outq : outq[i] \in Frames
    BY <1>1 DEF OutOK
  <2> QED
    BY <2>1 DEF Queued, Frames, ControlFrame
<1> QED
  BY <1>2, <1>3, <1>4 DEF QueuedNumbers

(* What a step may do around the events of x without breaking their chain. *)
Bystander(x) ==
  /\ wire'[x] = wire[x] /\ hold'[x] = hold[x] /\ queue'[x] = queue[x]
  /\ published'[x] = published[x]
  /\ refusals'[x] = refusals[x] /\ discarded'[x] = discarded[x]
  /\ refused[x] => refused'[x] \/ bus'[x] = "removed"
  /\ bus[x] = "removed" => bus'[x] = "removed"
  /\ oneshot'[x] = "dropped" => oneshot[x] = "dropped" \/ bus'[x] = "removed"
  /\ \/ task'[x] = task[x]
     \/ task[x] # "none" /\ task'[x] = "exited"
     \/ Alive(x) /\ Alive(x)' /\ (Holding(x)' <=> Holding(x))

LEMMA BystanderKept ==
  ASSUME NEW x \in Locals, PerSub(x), Bystander(x), KeptFor(x), writer' = "run" => writer = "run"
  PROVE  PerSub(x)'
<1>1. /\ Queued(x)' = Queued(x) /\ QueuedNumbers(x)' = QueuedNumbers(x)
      /\ \A i \in Queued(x) : outq'[i] = outq[i]
  BY QueuedKept
<1>2. /\ Written(x)' = Written(x) /\ Missed(x)' = Missed(x) /\ Waiting(x)' = Waiting(x)
      /\ Sent(x)' = Sent(x) /\ published'[x] = published[x]
  BY <1>1 DEF Written, Missed, Waiting, Sent, Bystander
<1>3. WireOK(x)'
  BY <1>2 DEF PerSub, WireOK, Bystander
<1>4. OutwardOK(x)'
  BY <1>1, <1>2 DEF PerSub, OutwardOK
<1>5. Alive(x)' => Alive(x) /\ Hand(x)' = Hand(x)
  BY DEF Alive, Hand, Holding, Bystander
<1>6. Alive(x)' => Coming(x)' = Coming(x)
  BY <1>2, <1>5 DEF Coming
<1>7. InwardOK(x)'
  BY <1>2, <1>5, <1>6 DEF PerSub, InwardOK, Bystander
<1>8. ChainOK(x)'
  BY <1>2, <1>5, <1>6 DEF PerSub, ChainOK
<1>9. Unstarted(x)'
  <2>1. task'[x] = "none" => task[x] = "none"
    BY DEF Bystander, Alive
  <2> QED
    BY <1>2, <2>1 DEF PerSub, Unstarted, Bystander
<1>10. MissEnds(x)'
  BY <1>2 DEF PerSub, MissEnds, Bystander
<1> QED
  BY <1>3, <1>4, <1>7, <1>8, <1>9, <1>10 DEF PerSub

(* Appending other frames, or none, is nothing to the events of x. *)
LEMMA KeptForAll ==
  ASSUME OutKept, NEW x \in Locals
  PROVE  KeptFor(x)
  BY DEF OutKept, KeptFor, LocalEvent

LEMMA OutQuiet ==
  ASSUME UNCHANGED outVars
  PROVE  OutKept /\ TermKept
  BY DEF OutKept, TermKept, outVars

(* A step that is a bystander to every local subscription. *)
LEMMA HolesQuiet ==
  ASSUME HInv, BInv', OutKept, TermKept, writer' = "run" => writer = "run",
         \A x \in Locals : Bystander(x)
  PROVE  HInv'
<1>1. ASSUME NEW x \in Locals PROVE PerSub(x)'
  BY KeptForAll, BystanderKept DEF HInv
<1> QED
  BY <1>1 DEF HInv, TermKept

(* A step of one local subscription. *)
LEMMA HolesOne ==
  ASSUME HInv, BInv', TermKept, writer' = "run" => writer = "run",
         NEW x \in Locals, \A y \in Locals : y # x => Bystander(y) /\ KeptFor(y), PerSub(x)'
  PROVE  HInv'
<1>1. ASSUME NEW y \in Locals, y # x PROVE PerSub(y)'
  BY <1>1, BystanderKept DEF HInv
<1> QED
  BY <1>1 DEF HInv, TermKept

(* Holes: the requests. *)
LEMMA HolesRequest ==
  ASSUME HInv, BInv', Control \/ \E x \in Subs : Request(x)
  PROVE  HInv'
<1>1. BInv /\ TaskOK /\ BusOK /\ ConnOK /\ FlowOK
  BY TypeParts DEF HInv
<1>2. OutKept /\ TermKept
  BY <1>1, RequestBooks
<1>3. UNCHANGED <<writer, wire, hold, discarded, queue, published, refused, refusals>>
  BY DEF Control, Request, Unsubscribe, SubscribeLocal, SubscribePeer, busVars
<1>4. CASE Control
  <2>1. UNCHANGED <<task, bus, oneshot>>
    BY <1>4 DEF Control, busVars
  <2>2. \A y \in Locals : Bystander(y)
    BY <1>3, <2>1 DEF Bystander
  <2> QED
    BY <1>2, <1>3, <2>2, HolesQuiet
<1>5. ASSUME NEW x \in Subs, Unsubscribe(x) PROVE HInv'
  <2>1. /\ \A y \in Subs : y # x \/ y \in Locals => task'[y] = task[y]
        /\ \A y \in Locals : IF y = x /\ x \in localSubs THEN Removed(y) ELSE Untouched(y)
    BY <1>1, <1>5, ForgetShape DEF Unsubscribe
  <2>2. \A y \in Locals : Bystander(y)
    BY <1>3, <2>1 DEF Bystander, Removed, Untouched, Subs
  <2> QED
    BY <1>2, <1>3, <2>2, HolesQuiet
<1>6. ASSUME NEW x \in Locals, SubscribeLocal(x) PROVE HInv'
  <2>1. /\ bus' = [bus EXCEPT ![x] = "active"] /\ task[x] = "none" /\ x \in Subs
        /\ bus[x] = "none" /\ task' = [task EXCEPT ![x] = "select"] /\ oneshot' = oneshot
    BY <1>6 DEF SubscribeLocal, Subs
  <2>2. \A y \in Locals : y # x => Bystander(y) /\ KeptFor(y)
    BY <1>1, <1>2, <1>3, <2>1, KeptForAll DEF Bystander, TaskOK, BusOK, Subs
  <2>3. task'[x] = "select" /\ bus'[x] = "active"
    BY <1>1, <2>1 DEF TaskOK, BusOK
  <2>4. PerSub(x) /\ published[x] = 0 /\ queue[x] = <<>> /\ Sent(x) = {} /\ Missed(x) = {}
    BY <2>1 DEF HInv, PerSub, Unstarted
  <2>5. KeptFor(x)
    BY <1>2, KeptForAll
  <2>a. Queued(x) = {}
    <3>1. \A i \in Queued(x) : outq[i].n \in Sent(x)
      BY DEF Sent, QueuedNumbers
    <3> QED
      BY <2>4, <3>1
  <2>6. QueuedNumbers(x)' = {} /\ Queued(x)' = {} /\ Written(x)' = {} /\ wire'[x] = wire[x]
    BY <1>3, <2>4, <2>5, <2>a, QueuedKept DEF Sent, Written
  <2>7. Sent(x)' = {} /\ Missed(x)' = {} /\ published'[x] = 0 /\ queue'[x] = <<>>
    BY <1>3, <2>4, <2>6 DEF Sent, Missed
  <2>8. Coming(x)' = {} /\ Hand(x)' = {} /\ Waiting(x)' = {} /\ DOMAIN queue'[x] = {}
    BY <2>3, <2>7 DEF Coming, Hand, Holding, Waiting
  <2>9. WireOK(x)'
    BY <1>3, <2>4, <2>6 DEF PerSub, WireOK
  <2>10. OutwardOK(x)' /\ InwardOK(x)'
    BY <2>6, <2>8 DEF OutwardOK, InwardOK
  <2>11. ChainOK(x)'
    BY <2>7, <2>8 DEF ChainOK
  <2>12. oneshot[x] # "dropped"
    BY <2>1, <2>4 DEF PerSub, MissEnds
  <2>13. Unstarted(x)' /\ MissEnds(x)'
    BY <2>1, <2>3, <2>7, <2>12 DEF Unstarted, MissEnds
  <2> QED
    BY <1>2, <1>3, <2>2, <2>9, <2>10, <2>11, <2>13, HolesOne DEF PerSub
<1>7. ASSUME NEW x \in Forwards, SubscribePeer(x) PROVE HInv'
  <2>1. /\ UNCHANGED <<bus, oneshot>> /\ x \in Subs /\ x \notin Locals
        /\ task' = [task EXCEPT ![x] = "select"] \/ UNCHANGED task
    BY <1>7, WsAssumption DEF SubscribePeer, busVars, Subs
  <2>2. \A y \in Locals : Bystander(y)
    BY <1>1, <1>3, <2>1 DEF Bystander, TaskOK, Subs
  <2> QED
    BY <1>2, <1>3, <2>2, HolesQuiet
<1> QED
  BY <1>4, <1>5, <1>6, <1>7 DEF Request

(* Holes: the dispatcher's other branches. *)
LEMMA HolesDispatcher ==
  ASSUME HInv, BInv', ClientGone \/ DispatcherStep
  PROVE  HInv'
<1>1. BInv /\ ConnOK
  BY TypeParts DEF HInv
<1>2. OutKept /\ TermKept
  BY <1>1, DispatcherBooks, OutQuiet
<1>3. UNCHANGED <<writer, wire, hold, discarded, queue, published, refused, refusals>>
  BY DEF ClientGone, DispatcherStep, LeaveLoop, OnForwarderEvent, Cleanup, busVars
<1>4. CASE ClientGone \/ LeaveLoop
  <2>1. UNCHANGED <<task, bus, oneshot>>
    BY <1>4 DEF ClientGone, LeaveLoop, busVars
  <2>2. \A y \in Locals : Bystander(y)
    BY <1>3, <2>1 DEF Bystander
  <2> QED
    BY <1>2, <1>3, <2>2, HolesQuiet
<1>5. CASE OnForwarderEvent
  <2>1. /\ fwdEvents # <<>> /\ Forget(Head(fwdEvents))
    BY <1>5 DEF OnForwarderEvent
  <2>2. PICK x \in Subs : x = Head(fwdEvents)
    BY <1>1, <2>1 DEF ConnOK
  <2>3. /\ \A y \in Subs : y # x \/ y \in Locals => task'[y] = task[y]
        /\ \A y \in Locals : IF y = x /\ x \in localSubs THEN Removed(y) ELSE Untouched(y)
    BY <1>1, <2>1, <2>2, ForgetShape
  <2>4. \A y \in Locals : Bystander(y)
    BY <1>3, <2>3 DEF Bystander, Removed, Untouched, Subs
  <2> QED
    BY <1>2, <1>3, <2>4, HolesQuiet
<1>6. CASE Cleanup
  <2>1. /\ \A y \in Locals : task'[y] = task[y]
        /\ \A y \in Locals : IF y \in localSubs THEN Removed(y) ELSE Untouched(y)
    BY <1>1, <1>6, CleanupShape
  <2>2. \A y \in Locals : Bystander(y)
    BY <1>3, <2>1 DEF Bystander, Removed, Untouched
  <2> QED
    BY <1>2, <1>3, <2>2, HolesQuiet
<1> QED
  BY <1>4, <1>5, <1>6 DEF DispatcherStep

(* The writer takes the oldest frame: an event of x moves from the outbound *)
(* queue to the wire.                                                       *)
LEMMA QueuedTail ==
  ASSUME BInv, NEW x \in Locals, outq # <<>>, outq' = Tail(outq),
         \A i, j \in Queued(x) : i < j => outq[i].n < outq[j].n
  PROVE  /\ \A i, j \in Queued(x)' : i < j => outq'[i].n < outq'[j].n
         /\ 1 \notin Queued(x) => QueuedNumbers(x)' = QueuedNumbers(x)
         /\ 1 \in Queued(x) =>
              /\ QueuedNumbers(x) = QueuedNumbers(x)' \cup {outq[1].n}
              /\ \A n \in QueuedNumbers(x)' : outq[1].n < n
<1>1. outq \in Seq(Frames)
  BY TypeParts DEF OutOK
<1>2. /\ DOMAIN outq = 1 .. Len(outq) /\ Len(outq) \in Nat \ {0} /\ 1 \in DOMAIN outq
      /\ DOMAIN outq' = 1 .. Len(outq) - 1
      /\ \A i \in 1 .. Len(outq) - 1 : outq'[i] = outq[i + 1]
  BY <1>1
<1>5. \A i \in Queued(x)' : i + 1 \in Queued(x) /\ outq'[i] = outq[i + 1] /\ i \in Nat /\ 1 < i + 1
  BY <1>2 DEF Queued
<1>6. \A i \in Queued(x) : i # 1 => i - 1 \in Queued(x)' /\ outq'[i - 1] = outq[i]
  <2> SUFFICES ASSUME NEW i \in Queued(x), i # 1
               PROVE  i - 1 \in Queued(x)' /\ outq'[i - 1] = outq[i]
    OBVIOUS
  <2>1. i \in 1 .. Len(outq)
    BY <1>2 DEF Queued
  <2>2. i - 1 \in 1 .. Len(outq) - 1 /\ (i - 1) + 1 = i
    BY <1>2, <2>1
  <2>3. i - 1 \in DOMAIN outq' /\ outq'[i - 1] = outq[i]
    BY <1>2, <2>2
  <2> QED
    BY <2>3 DEF Queued
<1>7. \A i, j \in Queued(x)' : i < j => outq'[i].n < outq'[j].n
  <2> SUFFICES ASSUME NEW i \in Queued(x)', NEW j \in Queued(x)', i < j
               PROVE  outq'[i].n < outq'[j].n
    OBVIOUS
  <2>1. i + 1 < j + 1
    BY <1>5
  <2> QED
    BY <1>5, <2>1
<1>8. \A n \in QueuedNumbers(x)' : n \in QueuedNumbers(x) /\ \E i \in Queued(x) : 1 < i /\ outq[i].n = n
  <2> SUFFICES ASSUME NEW i \in Queued(x)'
               PROVE  /\ outq'[i].n \in QueuedNumbers(x)
                      /\ \E j \in Queued(x) : 1 < j /\ outq[j].n = outq'[i].n
    BY DEF QueuedNumbers
  <2> QED
    BY <1>5 DEF QueuedNumbers
<1>9. \A i \in Queued(x) : i # 1 => outq[i].n \in QueuedNumbers(x)'
  <2> SUFFICES ASSUME NEW i \in Queued(x), i # 1 PROVE outq[i].n \in QueuedNumbers(x)'
    OBVIOUS
  <2>1. i - 1 \in Queued(x)' /\ outq'[i - 1].n = outq[i].n
    BY <1>6
  <2> QED
    BY <2>1 DEF QueuedNumbers
<1>10. \A n : n \in QueuedNumbers(x) <=> \E i \in Queued(x) : outq[i].n = n
  BY DEF QueuedNumbers
<1>11. ASSUME 1 \notin Queued(x)
       PROVE  QueuedNumbers(x)' = QueuedNumbers(x)
  <2>1. \A i \in Queued(x) : i # 1
    BY <1>11
  <2>2. \A n \in QueuedNumbers(x) : n \in QueuedNumbers(x)'
    BY <1>9, <1>10, <2>1
  <2> QED
    BY <1>8, <2>2
<1>12. ASSUME 1 \in Queued(x)
       PROVE  /\ QueuedNumbers(x) = QueuedNumbers(x)' \cup {outq[1].n}
              /\ \A n \in QueuedNumbers(x)' : outq[1].n < n
  BY <1>8, <1>9, <1>10, <1>12
<1> QED
  BY <1>7, <1>11, <1>12

LEMMA WriteMoves ==
  ASSUME BInv, NEW x \in Locals, PerSub(x), writer = "run", outq # <<>>, outq' = Tail(outq),
         Write(Head(outq)), writer' = "run",
         UNCHANGED <<task, hold, discarded, busVars, oneshot>>
  PROVE  PerSub(x)'
<1>1. outq \in Seq(Frames) /\ wire[x] \in Seq(Nat)
  BY TypeParts DEF OutOK, FlowOK
<1>2. 1 \in DOMAIN outq /\ Head(outq) = outq[1] /\ outq[1] \in Frames
  BY <1>1
<1> DEFINE f == outq[1]
<1>3. /\ f.kind = "event" /\ f.sub = x <=> 1 \in Queued(x)
      /\ ~(f.kind = "event" /\ f.sub = x) => wire'[x] = wire[x]
      /\ f.kind = "event" /\ f.sub = x => wire'[x] = Append(wire[x], f.n)
  BY <1>2, WireShape DEF Queued
<1>4. /\ \A i, j \in Queued(x) : i < j => outq[i].n < outq[j].n
      /\ \A w \in Written(x), u \in QueuedNumbers(x) : w < u
      /\ \A n \in QueuedNumbers(x) : \A k \in 1 .. n - 1 : k \in Sent(x) \cup Missed(x)
  BY DEF PerSub, OutwardOK
<1>5. /\ \A i, j \in Queued(x)' : i < j => outq'[i].n < outq'[j].n
      /\ 1 \notin Queued(x) => QueuedNumbers(x)' = QueuedNumbers(x)
      /\ 1 \in Queued(x) => /\ QueuedNumbers(x) = QueuedNumbers(x)' \cup {f.n}
                            /\ \A n \in QueuedNumbers(x)' : f.n < n
  BY <1>4, QueuedTail
<1>6. /\ Missed(x)' = Missed(x) /\ Coming(x)' = Coming(x) /\ published'[x] = published[x]
      /\ Hand(x)' = Hand(x) /\ Waiting(x)' = Waiting(x) /\ queue'[x] = queue[x]
  BY DEF Missed, Coming, Hand, Holding, Waiting, busVars
<1>7. /\ Sent(x)' = Sent(x) /\ WireOK(x)' /\ \A w \in Written(x)', u \in QueuedNumbers(x)' : w < u
  <2>1. CASE 1 \notin Queued(x)
    <3>1. wire'[x] = wire[x] /\ QueuedNumbers(x)' = QueuedNumbers(x)
      BY <1>3, <1>5, <2>1
    <3>2. Written(x)' = Written(x)
      BY <3>1 DEF Written
    <3> QED
      BY <1>4, <1>6, <3>1, <3>2 DEF Sent, PerSub, WireOK
  <2>2. CASE 1 \in Queued(x)
    <3> DEFINE l == Len(wire[x]) + 1
    <3>1. wire'[x] = Append(wire[x], f.n)
      BY <1>3, <2>2
    <3>a. f.n \in Nat /\ Written(x) \subseteq Nat
      BY <2>2, NumberTypes
    <3> HIDE DEF f
    <3>2. /\ DOMAIN wire'[x] = 1 .. l /\ wire'[x][l] = f.n /\ l \in Nat /\ DOMAIN wire[x] = 1 .. l - 1
          /\ \A i \in DOMAIN wire[x] : i \in DOMAIN wire'[x] /\ wire'[x][i] = wire[x][i] /\ i < l
          /\ \A i \in DOMAIN wire'[x] : i \in DOMAIN wire[x] \/ i = l
      BY <1>1, <3>1, <3>a
    <3>3. Written(x)' = Written(x) \cup {f.n}
      BY <3>2 DEF Written
    <3>4. Sent(x)' = Sent(x)
      BY <1>5, <2>2, <3>3 DEF Sent
    <3>5. \A w \in Written(x) : w < f.n
      BY <1>4, <1>5, <2>2
    <3>6. \A w \in Written(x)', u \in QueuedNumbers(x)' : w < u
      BY <1>4, <1>5, <2>2, <3>3
    <3>7. \A i, j \in DOMAIN wire'[x] : i < j => wire'[x][i] < wire'[x][j]
      <4> SUFFICES ASSUME NEW i \in DOMAIN wire'[x], NEW j \in DOMAIN wire'[x], i < j
                   PROVE  wire'[x][i] < wire'[x][j]
        OBVIOUS
      <4>1. i \in DOMAIN wire[x]
        BY <3>2
      <4>2. CASE j = l
        BY <3>2, <3>5, <4>1, <4>2 DEF Written
      <4>3. CASE j \in DOMAIN wire[x]
        BY <3>2, <4>1, <4>3 DEF PerSub, WireOK
      <4> QED
        BY <3>2, <4>2, <4>3
    <3>8. \A k \in 1 .. f.n - 1 : k \in Written(x) \cup Missed(x)
      <4> SUFFICES ASSUME NEW k \in 1 .. f.n - 1 PROVE k \in Written(x) \cup Missed(x)
        OBVIOUS
      <4>1. k \in Sent(x) \cup Missed(x)
        BY <1>4, <1>5, <2>2
      <4>2. k < f.n /\ k \in Nat
        BY <3>a
      <4>3. k \notin QueuedNumbers(x)
        <5>1. QueuedNumbers(x) = QueuedNumbers(x)' \cup {f.n} /\ \A n \in QueuedNumbers(x)' : f.n < n
          BY <1>5, <2>2
        <5>2. k # f.n
          BY <3>a, <4>2
        <5>3. ~(f.n < k)
          BY <3>a, <4>2
        <5> QED
          BY <5>1, <5>2, <5>3
      <4> QED
        BY <4>1, <4>3 DEF Sent
    <3>9. \A n \in Written(x)' : \A k \in 1 .. n - 1 : k \in Written(x)' \cup Missed(x)'
      BY <1>6, <3>3, <3>8 DEF PerSub, WireOK
    <3> QED
      BY <3>4, <3>6, <3>7, <3>9 DEF WireOK
  <2> QED
    BY <2>1, <2>2
<1>8. OutwardOK(x)'
  <2>1. QueuedNumbers(x)' \subseteq QueuedNumbers(x)
    BY <1>5
  <2> QED
    BY <1>4, <1>5, <1>6, <1>7, <2>1 DEF OutwardOK
<1>9. InwardOK(x)'
  BY <1>6 DEF PerSub, InwardOK, Alive
<1>10. ChainOK(x)'
  BY <1>6, <1>7 DEF PerSub, ChainOK, Alive
<1>11. Unstarted(x)' /\ MissEnds(x)'
  BY <1>6, <1>7 DEF PerSub, Unstarted, MissEnds, busVars
<1> QED
  BY <1>7, <1>8, <1>9, <1>10, <1>11 DEF PerSub

(* Holes: the writer. *)
LEMMA HolesWriter ==
  ASSUME HInv, BInv', WriterStep
  PROVE  HInv'
<1>1. BInv /\ OutOK
  BY TypeParts DEF HInv
<1>2. UNCHANGED <<task, hold, discarded, busVars, oneshot>> /\ writer = "run"
  BY DEF WriterStep, WriteTerminal, WriteOut, WriterDone
<1>3. CASE WriterDone
  <2>1. UNCHANGED <<outVars, wire>>
    BY <1>3 DEF WriterDone
  <2>2. \A y \in Locals : Bystander(y)
    BY <1>2, <2>1 DEF Bystander, busVars
  <2> QED
    BY <1>2, <2>1, <2>2, HolesQuiet, OutQuiet
<1>4. CASE WriteTerminal
  <2>1. /\ terminal \in Seq(Frames) /\ terminal # <<>> /\ terminal' = Tail(terminal)
        /\ Write(Head(terminal)) /\ outq' = outq
    BY <1>1, <1>4 DEF WriteTerminal, OutOK
  <2>2. Head(terminal) \in Frames /\ Head(terminal) = terminal[1] /\ 1 \in DOMAIN terminal
    BY <2>1
  <2>3. Head(terminal).kind # "event"
    BY <2>2 DEF HInv, NoEventIn
  <2>4. \A y \in Locals : wire'[y] = wire[y]
    BY <1>1, <2>1, <2>2, <2>3, WireShape
  <2>5. \A y \in Locals : Bystander(y)
    BY <1>2, <2>4 DEF Bystander, busVars
  <2>6. \A i \in DOMAIN Tail(terminal) : i + 1 \in DOMAIN terminal
                                          /\ Tail(terminal)[i] = terminal[i + 1]
    BY <2>1
  <2>7. TermKept
    BY <2>1, <2>6 DEF TermKept, NoEventIn
  <2>8. OutKept
    BY <2>1 DEF OutKept
  <2> QED
    BY <1>2, <2>5, <2>7, <2>8, HolesQuiet
<1>5. CASE WriteOut
  <2>1. outq # <<>> /\ outq' = Tail(outq) /\ Write(Head(outq)) /\ terminal' = terminal
    BY <1>5 DEF WriteOut
  <2>2. ASSUME NEW x \in Locals PROVE PerSub(x)'
    <3>1. PerSub(x)
      BY DEF HInv
    <3>2. CASE writer' = "run"
      BY <1>1, <1>2, <2>1, <3>1, <3>2, WriteMoves
    <3>3. CASE writer' # "run"
      <4>1. wire' = wire
        BY <1>2, <2>1, <3>3 DEF Write
      <4>2. /\ Written(x)' = Written(x) /\ Missed(x)' = Missed(x) /\ Coming(x)' = Coming(x)
            /\ Hand(x)' = Hand(x) /\ Waiting(x)' = Waiting(x)
        BY <1>2, <4>1 DEF Written, Missed, Coming, Hand, Holding, Waiting, busVars
      <4>3. WireOK(x)'
        BY <3>1, <4>1, <4>2 DEF PerSub, WireOK
      <4>4. OutwardOK(x)' /\ ChainOK(x)'
        BY <3>3 DEF OutwardOK, ChainOK
      <4>5. InwardOK(x)' /\ MissEnds(x)'
        BY <1>2, <3>1, <4>2 DEF PerSub, InwardOK, MissEnds, Alive, busVars
      <4>6. Unstarted(x)'
        <5> SUFFICES ASSUME task[x] = "none" PROVE Sent(x)' = {}
          BY <1>2, <3>1, <4>2 DEF PerSub, Unstarted, busVars
        <5>1. Sent(x) = {}
          BY <3>1 DEF PerSub, Unstarted
        <5>2. Queued(x) = {}
          <6>1. \A i \in Queued(x) : outq[i].n \in Sent(x)
            BY DEF Sent, QueuedNumbers
          <6> QED
            BY <5>1, <6>1
        <5>3. QueuedNumbers(x)' = QueuedNumbers(x)
          BY <1>1, <2>1, <5>2, QueuedTail
        <5> QED
          BY <4>2, <5>1, <5>3 DEF Sent
      <4> QED
        BY <4>3, <4>4, <4>5, <4>6 DEF PerSub
    <3> QED
      BY <3>2, <3>3
  <2> QED
    BY <2>1, <2>2 DEF HInv
<1> QED
  BY <1>3, <1>4, <1>5 DEF WriterStep

(* The forwarder takes the next envelope. *)
LEMMA TakeMoves ==
  ASSUME BInv, NEW x \in Locals, PerSub(x), Take(x)
  PROVE  PerSub(x)'
<1>1. TaskOK /\ FlowOK /\ x \in Subs
  BY TypeParts DEF Subs
<1> DEFINE q == queue[x]
<1>2. /\ task[x] = "polling" /\ q # <<>> /\ task'[x] = "got"
      /\ hold'[x] = Head(q) /\ queue'[x] = Tail(q)
      /\ UNCHANGED <<outVars, writer, wire, discarded, bus, published, refused, refusals, oneshot>>
  BY <1>1 DEF Take, TaskOK, FlowOK
<1>3. q \in Seq(Nat)
  BY <1>1 DEF FlowOK
<1> HIDE DEF q
<1>4. /\ Len(q) \in Nat \ {0} /\ 1 \in DOMAIN q /\ Head(q) = q[1]
      /\ DOMAIN q = 1 .. Len(q) /\ DOMAIN Tail(q) = 1 .. Len(q) - 1
      /\ \A i \in DOMAIN Tail(q) : Tail(q)[i] = q[i + 1] /\ i + 1 \in DOMAIN q /\ i \in Nat
      /\ \A i \in DOMAIN q : i # 1 => i - 1 \in DOMAIN Tail(q) /\ Tail(q)[i - 1] = q[i]
  BY <1>2, <1>3
<1>5. Alive(x) /\ Alive(x)' /\ Hand(x) = {} /\ Hand(x)' = {q[1]}
  BY <1>2, <1>4 DEF Alive, Hand, Holding
<1>6. \A i, j \in DOMAIN q : i < j => q[i] < q[j]
  BY <1>5 DEF PerSub, InwardOK, q
<1>7. \A n : n \in Waiting(x) <=> \E i \in DOMAIN q : n = q[i]
  BY DEF Waiting, q
<1>8. \A n : n \in Waiting(x)' <=> \E i \in DOMAIN Tail(q) : n = Tail(q)[i]
  BY <1>2 DEF Waiting
<1>9. Coming(x)' = Coming(x)
  <2>1. \A n \in Waiting(x) : n = q[1] \/ n \in Waiting(x)'
    BY <1>4, <1>7, <1>8
  <2>2. \A n \in Waiting(x)' : n \in Waiting(x)
    BY <1>4, <1>7, <1>8
  <2>3. q[1] \in Waiting(x)
    BY <1>4, <1>7
  <2> QED
    BY <1>5, <2>1, <2>2, <2>3 DEF Coming
<1>10. \A n \in Waiting(x)' : q[1] < n
  <2> SUFFICES ASSUME NEW i \in DOMAIN Tail(q) PROVE q[1] < Tail(q)[i]
    BY <1>8
  <2>1. 1 < i + 1 /\ i + 1 \in DOMAIN q /\ Tail(q)[i] = q[i + 1]
    BY <1>4
  <2> QED
    BY <1>4, <1>6, <2>1
<1>11. \A i, j \in DOMAIN Tail(q) : i < j => Tail(q)[i] < Tail(q)[j]
  <2> SUFFICES ASSUME NEW i \in DOMAIN Tail(q), NEW j \in DOMAIN Tail(q), i < j
               PROVE  Tail(q)[i] < Tail(q)[j]
    OBVIOUS
  <2>1. /\ i + 1 < j + 1 /\ i + 1 \in DOMAIN q /\ j + 1 \in DOMAIN q
        /\ Tail(q)[i] = q[i + 1] /\ Tail(q)[j] = q[j + 1]
    BY <1>4
  <2> QED
    BY <1>6, <2>1
<1>12. /\ Queued(x)' = Queued(x) /\ QueuedNumbers(x)' = QueuedNumbers(x) /\ outq' = outq
       /\ Written(x)' = Written(x) /\ Missed(x)' = Missed(x) /\ Sent(x)' = Sent(x)
  BY <1>2 DEF Queued, QueuedNumbers, Written, Missed, Sent, outVars
<1>13. WireOK(x)' /\ OutwardOK(x)'
  BY <1>2, <1>12 DEF PerSub, WireOK, OutwardOK
<1>14. InwardOK(x)'
  BY <1>2, <1>5, <1>9, <1>10, <1>11 DEF PerSub, InwardOK
<1>15. ChainOK(x)'
  BY <1>2, <1>5, <1>9, <1>12 DEF PerSub, ChainOK
<1>16. Unstarted(x)' /\ MissEnds(x)'
  BY <1>2, <1>12 DEF PerSub, Unstarted, MissEnds
<1> QED
  BY <1>13, <1>14, <1>15, <1>16 DEF PerSub

(* ... lets it go, because the bus dropped its end ... *)
LEMMA DropMoves ==
  ASSUME BInv, NEW x \in Locals, PerSub(x), DropInHand(x)
  PROVE  PerSub(x)'
<1>1. TaskOK /\ BusOK /\ FlowOK /\ x \in Subs
  BY TypeParts DEF Subs
<1>2. /\ task[x] \in {"got", "blocked"} /\ task'[x] = "select" /\ oneshot[x] = "dropped"
      /\ oneshot'[x] = "taken" /\ discarded'[x] = discarded[x] \cup {hold[x]}
      /\ UNCHANGED <<outVars, writer, wire, busVars>>
  BY <1>1 DEF DropInHand, TaskOK, BusOK, FlowOK
<1>3. /\ Alive(x) /\ Alive(x)' /\ Hand(x) = {hold[x]} /\ Hand(x)' = {}
      /\ queue'[x] = queue[x] /\ published'[x] = published[x] /\ bus'[x] = bus[x] /\ wire'[x] = wire[x]
  BY <1>2 DEF Alive, Hand, Holding, busVars
<1>4. /\ Queued(x)' = Queued(x) /\ QueuedNumbers(x)' = QueuedNumbers(x) /\ outq' = outq
      /\ Written(x)' = Written(x) /\ Sent(x)' = Sent(x) /\ Waiting(x)' = Waiting(x)
      /\ Missed(x)' = Missed(x) \cup {hold[x]}
  BY <1>2 DEF Queued, QueuedNumbers, Written, Missed, Sent, Waiting, outVars, busVars
<1>5. Coming(x) = Coming(x)' \cup {hold[x]}
  BY <1>3, <1>4 DEF Coming
<1>6. WireOK(x)' /\ OutwardOK(x)'
  BY <1>2, <1>3, <1>4 DEF PerSub, WireOK, OutwardOK
<1>7. InwardOK(x)'
  BY <1>3, <1>4, <1>5 DEF PerSub, InwardOK
<1>8. ChainOK(x)'
  BY <1>2, <1>3, <1>4, <1>5 DEF PerSub, ChainOK
<1>9. Unstarted(x)' /\ MissEnds(x)'
  BY <1>2, <1>3 DEF PerSub, Unstarted, MissEnds
<1> QED
  BY <1>6, <1>7, <1>8, <1>9 DEF PerSub

(* ... or hands it to the outbound queue. *)
LEMMA SendMoves ==
  ASSUME BInv, NEW x \in Locals, PerSub(x), Sends(x), writer = "run",
         UNCHANGED <<terminal, writer, wire, hold, discarded, busVars, oneshot>>
  PROVE  PerSub(x)'
<1>1. TaskOK /\ FlowOK /\ OutOK /\ x \in Subs
  BY TypeParts DEF Subs
<1> DEFINE h == hold[x]
<1> DEFINE f == Frame("event", x, h)
<1> DEFINE l == Len(outq) + 1
<1>2. task[x] \in {"sending", "retrying"} /\ task'[x] = "select"
  BY <1>1 DEF Sends, TaskOK
<1>3. h \in Nat /\ f \in Frames /\ f.kind = "event" /\ f.sub = x /\ f.n = h
  BY <1>1, FrameTypes DEF FlowOK
<1>4. /\ DOMAIN outq' = 1 .. Len(outq) + 1 /\ outq'[Len(outq) + 1] = f
      /\ \A i \in DOMAIN outq : i \in DOMAIN outq' /\ outq'[i] = outq[i]
      /\ \A i \in DOMAIN outq' : i \in DOMAIN outq \/ i = Len(outq) + 1
  BY <1>3, AppendShape DEF Sends
<1>5. DOMAIN outq = 1 .. Len(outq) /\ Len(outq) \in Nat
  BY <1>1 DEF OutOK
<1>6. l \in DOMAIN outq' /\ \A i \in DOMAIN outq : i \in Nat /\ i < l /\ ~(l < i)
  BY <1>4, <1>5
<1>7. /\ Alive(x) /\ Alive(x)' /\ Hand(x) = {h} /\ Hand(x)' = {}
      /\ queue'[x] = queue[x] /\ published'[x] = published[x] /\ wire'[x] = wire[x]
  BY <1>2 DEF Alive, Hand, Holding, busVars
<1> HIDE DEF h, f, l
<1>8. Queued(x)' = Queued(x) \cup {l}
  BY <1>3, <1>4, <1>6 DEF Queued, l
<1>9. \A i \in Queued(x) : outq'[i] = outq[i] /\ i < l /\ ~(l < i) /\ i \in Nat
  BY <1>4, <1>6 DEF Queued
<1>10. outq'[l].n = h /\ l \in Nat
  BY <1>3, <1>4, <1>5 DEF l
<1>11. QueuedNumbers(x)' = QueuedNumbers(x) \cup {h}
  BY <1>8, <1>9, <1>10 DEF QueuedNumbers
<1>12. /\ Written(x)' = Written(x) /\ Missed(x)' = Missed(x) /\ Waiting(x)' = Waiting(x)
  BY DEF Written, Missed, Waiting, busVars
<1>13. Sent(x)' = Sent(x) \cup {h} /\ Coming(x) = Waiting(x) \cup {h} /\ Coming(x)' = Waiting(x)
  BY <1>7, <1>11, <1>12 DEF Sent, Coming
<1>14. /\ \A s \in Sent(x) : s < h
       /\ \A k \in 1 .. published[x] : k \in Sent(x) \cup Coming(x) \cup Missed(x)
       /\ Sent(x) \subseteq 1 .. published[x] /\ \A s \in Sent(x), c \in Coming(x) : s < c
  BY <1>7, <1>13 DEF PerSub, ChainOK
<1>15. h \in 1 .. published[x] /\ (\A n \in Waiting(x) : h < n) /\ published[x] \in Nat
  BY <1>7, <1>13, NumberTypes DEF PerSub, InwardOK
<1>16. \A i, j \in Queued(x)' : i < j => outq'[i].n < outq'[j].n
  <2> SUFFICES ASSUME NEW i \in Queued(x)', NEW j \in Queued(x)', i < j
               PROVE  outq'[i].n < outq'[j].n
    OBVIOUS
  <2>1. i \in Queued(x)
    BY <1>8, <1>9, <1>10
  <2>2. CASE j = l
    BY <1>9, <1>10, <1>14, <2>1, <2>2 DEF Sent, QueuedNumbers
  <2>3. CASE j \in Queued(x)
    BY <1>9, <2>1, <2>3 DEF PerSub, OutwardOK
  <2> QED
    BY <1>8, <2>2, <2>3
<1>17. \A k \in 1 .. h - 1 : k \in Sent(x) \cup Missed(x)
  <2> SUFFICES ASSUME NEW k \in 1 .. h - 1 PROVE k \in Sent(x) \cup Missed(x)
    OBVIOUS
  <2>1. k \in 1 .. published[x] /\ k # h /\ ~(h < k)
    BY <1>15
  <2>2. k \notin Coming(x)
    BY <1>13, <1>15, <2>1
  <2> QED
    BY <1>14, <2>1, <2>2
<1>18. OutwardOK(x)'
  <2>1. \A w \in Written(x)', u \in QueuedNumbers(x)' : w < u
    BY <1>11, <1>12, <1>14 DEF PerSub, OutwardOK, Sent
  <2>2. \A n \in QueuedNumbers(x)' : \A k \in 1 .. n - 1 : k \in Sent(x)' \cup Missed(x)'
    BY <1>11, <1>12, <1>13, <1>17 DEF PerSub, OutwardOK
  <2> QED
    BY <1>16, <2>1, <2>2 DEF OutwardOK
<1>19. WireOK(x)'
  BY <1>7, <1>12 DEF PerSub, WireOK
<1>20. InwardOK(x)'
  BY <1>7, <1>12, <1>13 DEF PerSub, InwardOK
<1>21. ChainOK(x)'
  BY <1>7, <1>12, <1>13, <1>14, <1>15 DEF ChainOK
<1>22. Unstarted(x)' /\ MissEnds(x)'
  BY <1>2, <1>12 DEF PerSub, Unstarted, MissEnds, busVars
<1> QED
  BY <1>18, <1>19, <1>20, <1>21, <1>22 DEF PerSub

(* Holes: the local forwarders. *)
LEMMA HolesLocal ==
  ASSUME HInv, BInv', NEW x \in Locals, LocalStep(x)
  PROVE  HInv'
<1>1. BInv /\ TaskOK /\ BusOK /\ FlowOK /\ PerSub(x) /\ x \in Subs
  BY TypeParts DEF HInv, Subs
<1>2. CASE ReportGap(x)
  <2>1. /\ oneshot' = [oneshot EXCEPT ![x] = "reported"] /\ task' = [task EXCEPT ![x] = "exited"]
        /\ task[x] # "none" /\ UNCHANGED <<writer, wire, hold, discarded, busVars>>
        /\ TryTerminal(Frame("gap", x, 0)) /\ UNCHANGED outq
    BY <1>2 DEF ReportGap, Exit, AtNotice, Polled
  <2>2. \A y \in Locals : Bystander(y)
    BY <1>1, <2>1 DEF Bystander, TaskOK, BusOK, busVars, Subs
  <2>3. OutKept /\ TermKept
    BY <1>1, <2>1, TryTerminalShape
  <2> QED
    BY <2>1, <2>2, <2>3, HolesQuiet
<1>3. CASE SenderDropped(x)
  <2>1. /\ oneshot' = [oneshot EXCEPT ![x] = "taken"]
        /\ UNCHANGED <<outVars, writer, wire, task, hold, discarded, busVars>>
    BY <1>3 DEF SenderDropped
  <2>2. \A y \in Locals : Bystander(y)
    BY <1>1, <2>1 DEF Bystander, BusOK, busVars
  <2> QED
    BY <2>1, <2>2, OutQuiet, HolesQuiet
<1>4. CASE EndOfQueue(x)
  <2>1. /\ task' = [task EXCEPT ![x] = "exited"] /\ task[x] # "none"
        /\ UNCHANGED <<outVars, writer, wire, hold, discarded, busVars, oneshot>>
    BY <1>4 DEF EndOfQueue, Exit
  <2>2. \A y \in Locals : Bystander(y)
    BY <1>1, <2>1 DEF Bystander, TaskOK, busVars, Subs
  <2> QED
    BY <2>1, <2>2, OutQuiet, HolesQuiet
<1>5. CASE NoNotice(x) \/ NothingQueued(x)
  <2>1. Advances(x)
    BY <1>1, <1>5, PollShape
  <2>2. /\ \E o \in {"select", "polling", "sending", "retrying"} : task' = [task EXCEPT ![x] = o]
        /\ UNCHANGED <<outVars, writer, wire, hold, discarded, busVars, oneshot>>
    BY <2>1 DEF Advances
  <2>3. \A y \in Locals : y # x => task'[y] = task[y]
    BY <1>1, <2>2 DEF TaskOK, Subs
  <2>4. /\ Alive(x) /\ task[x] \in {"select", "polling", "got", "blocked"}
        /\ task[x] \in {"got", "blocked"} => task'[x] \in {"sending", "retrying"}
        /\ task[x] \in {"select", "polling"} => task'[x] \in {"select", "polling"}
    BY <2>1 DEF Advances
  <2>5. Alive(x)' /\ (Holding(x)' <=> Holding(x))
    BY <2>4 DEF Alive, Holding
  <2>6. \A y \in Locals : Bystander(y)
    BY <2>2, <2>3, <2>4, <2>5 DEF Bystander, busVars
  <2> QED
    BY <2>2, <2>6, OutQuiet, HolesQuiet
<1>6. CASE Take(x)
  <2>1. /\ hold' = [hold EXCEPT ![x] = Head(queue[x])] /\ queue' = [queue EXCEPT ![x] = Tail(@)]
        /\ task' = [task EXCEPT ![x] = "got"]
        /\ UNCHANGED <<outVars, writer, wire, discarded, bus, published, refused, refusals, oneshot>>
    BY <1>6 DEF Take
  <2>2. OutKept /\ TermKept
    BY <2>1, OutQuiet
  <2>3. \A y \in Locals : y # x => Bystander(y) /\ KeptFor(y)
    BY <1>1, <2>1, <2>2, KeptForAll DEF Bystander, TaskOK, FlowOK, Subs
  <2>4. PerSub(x)'
    BY <1>1, <1>6, TakeMoves
  <2> QED
    BY <2>1, <2>2, <2>3, <2>4, HolesOne
<1>7. CASE DropInHand(x)
  <2>1. /\ oneshot' = [oneshot EXCEPT ![x] = "taken"] /\ task' = [task EXCEPT ![x] = "select"]
        /\ discarded' = [discarded EXCEPT ![x] = @ \cup {hold[x]}]
        /\ UNCHANGED <<outVars, writer, wire, hold, busVars>>
    BY <1>7 DEF DropInHand
  <2>2. OutKept /\ TermKept
    BY <2>1, OutQuiet
  <2>3. \A y \in Locals : y # x => Bystander(y) /\ KeptFor(y)
    BY <1>1, <2>1, <2>2, KeptForAll DEF Bystander, TaskOK, BusOK, FlowOK, busVars, Subs
  <2>4. PerSub(x)'
    BY <1>1, <1>7, DropMoves
  <2> QED
    BY <2>1, <2>2, <2>3, <2>4, HolesOne
<1>8. CASE SendInHand(x)
  <2>1. /\ UNCHANGED <<terminal, writer, wire, hold, discarded, busVars, oneshot>>
        /\ task[x] \in {"sending", "retrying"}
    BY <1>1, <1>8, SendInHandShape
  <2>2. TermKept
    BY <2>1 DEF TermKept
  <2>3. CASE Exit(x) /\ UNCHANGED outq
    <3>1. \A y \in Locals : Bystander(y)
      BY <1>1, <2>1, <2>3 DEF Bystander, Exit, TaskOK, busVars, Subs
    <3>2. OutKept
      BY <2>3 DEF OutKept
    <3> QED
      BY <2>1, <2>2, <3>1, <3>2, HolesQuiet
  <2>4. CASE task' = [task EXCEPT ![x] = "blocked"] /\ UNCHANGED outq
    <3>1. OutKept
      BY <2>4 DEF OutKept
    <3>2. task'[x] = "blocked" /\ \A y \in Locals : y # x => task'[y] = task[y]
      BY <1>1, <2>4 DEF TaskOK, Subs
    <3>3. Alive(x) /\ Alive(x)' /\ (Holding(x)' <=> Holding(x))
      BY <2>1, <3>2 DEF Alive, Holding
    <3>4. \A y \in Locals : Bystander(y)
      BY <2>1, <3>2, <3>3 DEF Bystander, busVars
    <3> QED
      BY <2>1, <2>2, <3>1, <3>4, HolesQuiet
  <2>5. CASE Sends(x) /\ writer = "run"
    <3>1. /\ Frame("event", x, hold[x]) \in Frames /\ Frame("event", x, hold[x]).sub = x
      BY <1>1, FrameTypes DEF FlowOK
    <3>2. /\ outq'[Len(outq) + 1] = Frame("event", x, hold[x])
          /\ \A i \in DOMAIN outq : i \in DOMAIN outq' /\ outq'[i] = outq[i]
          /\ \A i \in DOMAIN outq' : i \in DOMAIN outq \/ i = Len(outq) + 1
      BY <1>1, <2>5, <3>1, AppendShape DEF Sends
    <3>3. \A y \in Locals : y # x => KeptFor(y)
      BY <3>1, <3>2 DEF KeptFor
    <3>4. \A y \in Locals : y # x => Bystander(y)
      BY <1>1, <2>1, <2>5 DEF Bystander, Sends, TaskOK, busVars, Subs
    <3>5. PerSub(x)'
      BY <1>1, <2>1, <2>5, SendMoves
    <3> QED
      BY <2>1, <2>2, <3>3, <3>4, <3>5, HolesOne
  <2> QED
    BY <1>1, <1>8, <2>3, <2>4, <2>5, SendInHandShape
<1> QED
  BY <1>2, <1>3, <1>4, <1>5, <1>6, <1>7, <1>8 DEF LocalStep

(* A publisher adds an envelope at the other end, or is refused. *)
LEMMA PublishMoves ==
  ASSUME BInv, NEW x \in Locals, PerSub(x), Publish(x)
  PROVE  PerSub(x)'
<1>1. BusOK /\ FlowOK
  BY TypeParts
<1> DEFINE p == published[x]
<1> DEFINE q == queue[x]
<1>2. /\ bus[x] = "active" /\ Alive(x) /\ Alive(x)' /\ published'[x] = p + 1 /\ wire'[x] = wire[x]
      /\ UNCHANGED <<outVars, writer, task, hold, discarded, oneshot, wire>>
  BY <1>1 DEF Publish, Claimable, FlowOK, Alive
<1>3. /\ Queued(x)' = Queued(x) /\ QueuedNumbers(x)' = QueuedNumbers(x) /\ outq' = outq
      /\ Written(x)' = Written(x) /\ Sent(x)' = Sent(x) /\ Hand(x)' = Hand(x) /\ oneshot'[x] = oneshot[x]
  BY <1>2 DEF Queued, QueuedNumbers, Written, Sent, Hand, Holding, outVars
<1>4. p \in Nat /\ q \in Seq(Nat) /\ Missed(x) \subseteq Nat
  BY <1>1 DEF FlowOK, Missed
<1>5. Unstarted(x)' /\ oneshot[x] # "dropped" /\ (Missed(x) # {} => refused[x])
  BY <1>2 DEF Unstarted, PerSub, MissEnds, Alive
<1>6. /\ \A i, j \in DOMAIN q : i < j => q[i] < q[j]
      /\ \A h \in Hand(x), n \in Waiting(x) : h < n
      /\ Coming(x) \subseteq 1 .. p
  BY <1>2 DEF PerSub, InwardOK
<1>7. writer = "run" => /\ Sent(x) \subseteq 1 .. p /\ \A s \in Sent(x), c \in Coming(x) : s < c
                        /\ \A k \in 1 .. p : k \in Sent(x) \cup Coming(x) \cup Missed(x)
  BY <1>2 DEF PerSub, ChainOK
<1>8. CASE /\ queue' = [queue EXCEPT ![x] = Append(@, published[x] + 1)]
           /\ refused' = refused /\ refusals' = refusals
  <2> DEFINE z == Append(q, p + 1)
  <2>1. queue'[x] = z /\ refused'[x] = refused[x]
    BY <1>1, <1>8 DEF FlowOK
  <2> HIDE DEF p, q
  <2>2. /\ DOMAIN z = 1 .. Len(q) + 1 /\ z[Len(q) + 1] = p + 1 /\ DOMAIN q = 1 .. Len(q)
        /\ \A i \in DOMAIN q : z[i] = q[i] /\ i \in DOMAIN z /\ i \in Nat /\ i < Len(q) + 1
        /\ \A i \in DOMAIN z : i \in DOMAIN q \/ i = Len(q) + 1
        /\ Len(q) \in Nat
    BY <1>4
  <2> HIDE DEF z
  <2>3. \A n : n \in Waiting(x)' <=> \E i \in DOMAIN z : n = z[i]
    BY <2>1 DEF Waiting
  <2>4. \A n : n \in Waiting(x) <=> \E i \in DOMAIN q : n = q[i]
    BY DEF Waiting, q
  <2>5. Waiting(x)' = Waiting(x) \cup {p + 1}
    <3>1. Len(q) + 1 \in DOMAIN z
      BY <2>2
    <3> QED
      BY <2>2, <2>3, <2>4, <3>1
  <2>6. Coming(x)' = Coming(x) \cup {p + 1}
    BY <1>3, <2>5 DEF Coming
  <2>7. Missed(x)' = Missed(x)
    BY <1>2, <1>8 DEF Missed
  <2>8. \A n \in 1 .. p : n < p + 1 /\ n \in 1 .. p + 1
    BY <1>4
  <2>9. \A n \in Coming(x) : n < p + 1
    BY <1>6, <2>8
  <2>10. \A i, j \in DOMAIN z : i < j => z[i] < z[j]
    <3> SUFFICES ASSUME NEW i \in DOMAIN z, NEW j \in DOMAIN z, i < j PROVE z[i] < z[j]
      OBVIOUS
    <3>1. i \in DOMAIN q
      BY <2>2
    <3>2. CASE j = Len(q) + 1
      <4>1. z[i] \in Coming(x)
        BY <2>2, <2>4, <3>1 DEF Coming
      <4> QED
        BY <2>2, <2>9, <3>2, <4>1
    <3>3. CASE j \in DOMAIN q
      BY <1>6, <2>2, <3>1, <3>3
    <3> QED
      BY <2>2, <3>2, <3>3
  <2>11. InwardOK(x)'
    <3>1. \A h \in Hand(x)', n \in Waiting(x)' : h < n
      BY <1>3, <1>6, <2>5, <2>9 DEF Coming
    <3>2. Coming(x)' \subseteq 1 .. p + 1
      BY <1>4, <1>6, <2>6, <2>8
    <3> QED
      BY <1>2, <2>1, <2>10, <3>1, <3>2 DEF InwardOK, p
  <2>12. ChainOK(x)'
    <3> SUFFICES ASSUME writer = "run"
                 PROVE  /\ Sent(x)' \subseteq 1 .. p + 1
                        /\ \A s \in Sent(x)', c \in Coming(x)' : s < c
                        /\ \A k \in 1 .. p + 1 : k \in Sent(x)' \cup Coming(x)' \cup Missed(x)'
      BY <1>2 DEF ChainOK, p
    <3>1. Sent(x) \subseteq 1 .. p + 1
      BY <1>7, <2>8
    <3>2. \A s \in Sent(x) : s < p + 1
      BY <1>7, <2>8
    <3>3. \A k \in 1 .. p + 1 : k \in 1 .. p \/ k = p + 1
      BY <1>4
    <3> QED
      BY <1>3, <1>7, <2>6, <2>7, <3>1, <3>2, <3>3
  <2>13. WireOK(x)' /\ OutwardOK(x)'
    BY <1>2, <1>3, <2>7 DEF PerSub, WireOK, OutwardOK
  <2>14. MissEnds(x)'
    BY <1>3, <1>5, <2>1, <2>7 DEF MissEnds
  <2> QED
    BY <1>5, <2>11, <2>12, <2>13, <2>14 DEF PerSub
<1>9. CASE /\ refused' = [refused EXCEPT ![x] = TRUE] /\ UNCHANGED <<queue, bus>>
           /\ refusals' = [refusals EXCEPT ![x] = @ \cup {published[x] + 1}]
  <2>1. /\ refused'[x] /\ queue'[x] = queue[x] /\ Waiting(x)' = Waiting(x)
        /\ Missed(x)' = Missed(x) \cup {p + 1}
    BY <1>1, <1>2, <1>9 DEF FlowOK, Waiting, Missed
  <2>2. Coming(x)' = Coming(x)
    BY <1>3, <2>1 DEF Coming
  <2> HIDE DEF p, q
  <2>3. \A n \in 1 .. p : n \in 1 .. p + 1
    BY <1>4
  <2>4. \A k \in 1 .. p + 1 : k \in 1 .. p \/ k = p + 1
    BY <1>4
  <2>5. InwardOK(x)'
    <3>1. Coming(x)' \subseteq 1 .. p + 1
      BY <1>6, <2>2, <2>3
    <3> QED
      BY <1>2, <1>3, <1>6, <2>1, <3>1 DEF InwardOK, p, q
  <2>6. ChainOK(x)'
    <3> SUFFICES ASSUME writer = "run"
                 PROVE  /\ Sent(x)' \subseteq 1 .. p + 1
                        /\ \A s \in Sent(x)', c \in Coming(x)' : s < c
                        /\ \A k \in 1 .. p + 1 : k \in Sent(x)' \cup Coming(x)' \cup Missed(x)'
      BY <1>2 DEF ChainOK, p
    <3>1. Sent(x) \subseteq 1 .. p + 1
      BY <1>7, <2>3
    <3> QED
      BY <1>3, <1>7, <2>1, <2>2, <2>4, <3>1
  <2>7. WireOK(x)' /\ OutwardOK(x)'
    BY <1>2, <1>3, <2>1 DEF PerSub, WireOK, OutwardOK
  <2>8. MissEnds(x)'
    BY <1>3, <1>5, <2>1 DEF MissEnds
  <2> QED
    BY <1>5, <2>5, <2>6, <2>7, <2>8 DEF PerSub
<1> QED
  BY <1>8, <1>9 DEF Publish

(* Holes: publishers on the bus. *)
LEMMA HolesBus ==
  ASSUME HInv, BInv', NEW x \in Locals,
         Publish(x) \/ CommitLast(x) \/ CommitDisconnect(x) \/ CommitClosed(x)
  PROVE  HInv'
<1>1. BInv /\ TaskOK /\ BusOK /\ FlowOK /\ PerSub(x)
  BY TypeParts DEF HInv
<1>2. UNCHANGED <<outVars, writer, wire, task, hold, discarded>>
  BY DEF Publish, CommitLast, CommitDisconnect, CommitClosed
<1>3. OutKept /\ TermKept
  BY <1>2, OutQuiet
<1>4. CASE Publish(x)
  <2>1. /\ oneshot' = oneshot /\ published' = [published EXCEPT ![x] = @ + 1]
        /\ \A y \in Locals : y # x => /\ queue'[y] = queue[y] /\ bus'[y] = bus[y]
                                      /\ refused'[y] = refused[y] /\ refusals'[y] = refusals[y]
    BY <1>1, <1>4 DEF Publish, BusOK, FlowOK
  <2>2. \A y \in Locals : y # x => Bystander(y) /\ KeptFor(y)
    BY <1>1, <1>2, <1>3, <2>1, KeptForAll DEF Bystander, FlowOK
  <2>3. PerSub(x)'
    BY <1>1, <1>4, PublishMoves
  <2> QED
    BY <1>2, <1>3, <2>2, <2>3, HolesOne
<1>5. CASE CommitDisconnect(x)
  <2>1. /\ refused' = [refused EXCEPT ![x] = FALSE] /\ UNCHANGED <<queue, published, refusals>>
        /\ bus' = [bus EXCEPT ![x] = "removed"]
        /\ oneshot' = [oneshot EXCEPT ![x] = IF bus[x] = "active" THEN "fired" ELSE @]
    BY <1>5 DEF CommitDisconnect
  <2>2. \A y \in Locals : Bystander(y)
    BY <1>1, <1>2, <2>1 DEF Bystander, BusOK, FlowOK
  <2> QED
    BY <1>2, <1>3, <2>2, HolesQuiet
<1>6. CASE CommitLast(x) \/ CommitClosed(x)
  <2>1. BusRemove({x}) /\ UNCHANGED <<queue, published, refused, refusals>>
    BY <1>6 DEF CommitLast, CommitClosed
  <2>2. \A y \in Locals : IF y \in {x} THEN Removed(y) ELSE Untouched(y)
    BY <1>1, <2>1, BusRemoveShape
  <2>3. \A y \in Locals : Bystander(y)
    BY <1>2, <2>1, <2>2 DEF Bystander, Removed, Untouched
  <2> QED
    BY <1>2, <1>3, <2>3, HolesQuiet
<1> QED
  BY <1>4, <1>5, <1>6

(* Holes: the peer forwarders, the hub and stuttering. *)
LEMMA HolesOther ==
  ASSUME HInv, BInv', HubStep \/ UNCHANGED vars \/ \E x \in Forwards : PeerStep(x)
  PROVE  HInv'
<1>1. BInv /\ TaskOK
  BY TypeParts DEF HInv
<1>2. CASE HubStep \/ UNCHANGED vars
  <2>1. UNCHANGED <<outVars, writer, wire, task, hold, discarded, busVars, oneshot>>
    BY <1>2 DEF HubStep, wsVars, vars, outVars, busVars
  <2>2. \A y \in Locals : Bystander(y)
    BY <2>1 DEF Bystander, busVars
  <2> QED
    BY <2>1, <2>2, OutQuiet, HolesQuiet
<1>3. ASSUME NEW x \in Forwards, PeerStep(x) PROVE HInv'
  <2>1. /\ OutKept /\ TermKept /\ EndsOrGoesOn(x)
        /\ UNCHANGED <<writer, wire, hold, discarded, busVars, oneshot>>
    BY <1>1, <1>3, PeerShape
  <2>2. \A y \in Locals : task'[y] = task[y]
    BY <1>1, <2>1, WsAssumption DEF EndsOrGoesOn, Exit, TaskOK, Subs
  <2>3. \A y \in Locals : Bystander(y)
    BY <2>1, <2>2 DEF Bystander, busVars
  <2> QED
    BY <2>1, <2>3, HolesQuiet
<1> QED
  BY <1>2, <1>3

LEMMA HolesStep == HInv /\ [Next]_vars => HInv'
<1> SUFFICES ASSUME HInv, [Next]_vars PROVE HInv'
  OBVIOUS
<1>1. BInv'
  BY BooksStep DEF HInv
<1> QED
  BY <1>1, HolesRequest, HolesDispatcher, HolesWriter, HolesLocal, HolesBus, HolesOther DEF Next

LEMMA HolesInit == Init => HInv
<1> SUFFICES ASSUME Init PROVE HInv
  OBVIOUS
<1>1. NoEventIn(terminal)
  BY DEF Init, NoEventIn
<1>2. ASSUME NEW x \in Locals PROVE PerSub(x)
  <2>1. /\ wire[x] = <<>> /\ outq = <<>> /\ task[x] = "none" /\ published[x] = 0
        /\ queue[x] = <<>> /\ refusals[x] = {} /\ discarded[x] = {} /\ oneshot[x] = "open"
    BY DEF Init, Subs
  <2>2. /\ Queued(x) = {} /\ QueuedNumbers(x) = {} /\ Written(x) = {} /\ Sent(x) = {}
        /\ Missed(x) = {} /\ ~Alive(x)
    BY <2>1 DEF Queued, QueuedNumbers, Written, Sent, Missed, Alive
  <2> QED
    BY <2>1, <2>2 DEF PerSub, WireOK, OutwardOK, InwardOK, ChainOK, Unstarted, MissEnds
<1> QED
  BY <1>1, <1>2, BooksInit DEF HInv

LEMMA HolesMeaning == HInv => HolesExplained
<1> SUFFICES ASSUME HInv, NEW x \in Locals
             PROVE  /\ \A i, j \in DOMAIN wire[x] : i < j => wire[x][i] < wire[x][j]
                    /\ writer = "run" => \A i, j \in Queued(x) : i < j => outq[i].n < outq[j].n
                    /\ \A w \in Written(x), u \in Underway(x) : w < u
                    /\ \A n \in Delivered(x) : \A k \in 1 .. n - 1 : k \in Delivered(x) \cup Missed(x)
                    /\ Missed(x) # {} => refused[x] \/ bus[x] = "removed"
  BY DEF HolesExplained
<1>1. PerSub(x)
  BY DEF HInv
<1>2. CASE writer = "run"
  <2>1. Underway(x) = QueuedNumbers(x) /\ Delivered(x) = Sent(x)
    BY <1>2 DEF Underway, Delivered, Sent
  <2> QED
    BY <1>1, <1>2, <2>1 DEF PerSub, WireOK, OutwardOK, MissEnds, Sent
<1>3. CASE writer # "run"
  <2>1. Underway(x) = {} /\ Delivered(x) = Written(x)
    BY <1>3 DEF Underway, Delivered
  <2> QED
    BY <1>1, <1>3, <2>1 DEF PerSub, WireOK, MissEnds
<1> QED
  BY <1>2, <1>3

(* The events of a subscription reach the client in the order of their      *)
(* publication, none twice, and one that is missing before a delivered one  *)
(* was refused by the full queue of the bus or let go when the bus dropped  *)
(* its end: a forwarder that waits for a slot, a terminal frame that        *)
(* overtakes the queue, an envelope that meets the oneshot between two      *)
(* polls lose nothing of a subscription that stays on the bus.              *)
THEOREM HolesAccountedFor == Spec => []HolesExplained
  BY HolesInit, HolesStep, HolesMeaning, PTL DEF Spec
=============================================================================
