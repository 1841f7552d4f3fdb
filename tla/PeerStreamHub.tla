---------------------------- MODULE PeerStreamHub ----------------------------
(***************************************************************************)
(* The deduplication of peer event streams (http/peer_streams.rs): all     *)
(* subscribers of a (peer, topic) key share one upstream task and one      *)
(* broadcast channel, counted by a reference count.  A generation stands   *)
(* for one such task and channel.  The hub lock is held over each          *)
(* operation, so each operator is one step of whoever calls it.            *)
(***************************************************************************)
EXTENDS Integers, Sequences, FiniteSets

CONSTANTS Keys,              \* (peer, topic) pairs
          Forwards,          \* forwarded subscriptions
          KeyOf,             \* KeyOf[r]: the key r subscribes to
          BroadcastBuffer,   \* BROADCAST_BUFFER
          MaxStreams         \* bound: upstream streams ever opened

Streams == 1 .. MaxStreams

ASSUME HubAssumption ==
  /\ KeyOf \in [Forwards -> Keys]
  /\ BroadcastBuffer \in Nat \ {0}
  /\ MaxStreams \in Nat

VARIABLES
  hubEntry,   \* hubEntry[k]: the stream in the map, 0 for none
  refcount,   \* refcount[k]: PeerStreamEntry.refcount
  upstream,   \* upstream[g]: the task of stream g
  opened,     \* streams opened so far
  chan,       \* chan[r]: the stream whose channel r receives from, 0 for none
  unread,     \* unread[r]: lines in the channel r has not read
  lagged      \* lagged[r]: lines were overwritten before r read them

hubVars == <<hubEntry, refcount, upstream, opened, chan, unread, lagged>>

HubTypeOK ==
  /\ hubEntry \in [Keys -> 0 .. MaxStreams]
  /\ refcount \in [Keys -> Nat]
  /\ upstream \in [Streams -> {"none", "running", "over"}]
  /\ opened \in 0 .. MaxStreams
  /\ chan \in [Forwards -> 0 .. MaxStreams]
  /\ unread \in [Forwards -> 0 .. BroadcastBuffer]
  /\ lagged \in [Forwards -> BOOLEAN]

HubInit ==
  /\ hubEntry = [k \in Keys |-> 0]
  /\ refcount = [k \in Keys |-> 0]
  /\ upstream = [g \in Streams |-> "none"]
  /\ opened = 0
  /\ chan = [r \in Forwards |-> 0]
  /\ unread = [r \in Forwards |-> 0]
  /\ lagged = [r \in Forwards |-> FALSE]

-----------------------------------------------------------------------------
(* subscribe: join the stream of the key, or open one; when the peer has   *)
(* no live sender there is nothing to join (HubUnknownPeer).               *)
HubJoin(r) ==
  LET k == KeyOf[r]
  IN /\ hubEntry[k] # 0
     /\ refcount' = [refcount EXCEPT ![k] = @ + 1]
     /\ chan' = [chan EXCEPT ![r] = hubEntry[k]]
     /\ UNCHANGED <<hubEntry, upstream, opened, unread, lagged>>

HubOpen(r) ==
  LET k == KeyOf[r]
      g == opened + 1
  IN /\ hubEntry[k] = 0 /\ opened < MaxStreams
     /\ opened' = g
     /\ upstream' = [upstream EXCEPT ![g] = "running"]
     /\ hubEntry' = [hubEntry EXCEPT ![k] = g]
     /\ refcount' = [refcount EXCEPT ![k] = 1]
     /\ chan' = [chan EXCEPT ![r] = g]
     /\ UNCHANGED <<unread, lagged>>

HubUnknownPeer(r) == hubEntry[KeyOf[r]] = 0 /\ UNCHANGED hubVars

(* unsubscribe, for a set of subscriptions that are given up together: the *)
(* last reference aborts the task and forgets the stream.  The receivers   *)
(* went with their forwarders.                                             *)
HubUnsubscribe(rs) ==
  LET on(k)   == Cardinality({r \in rs : KeyOf[r] = k})
      gone(k) == hubEntry[k] # 0 /\ on(k) > 0 /\ refcount[k] <= on(k)
  IN /\ refcount' = [k \in Keys |-> IF gone(k) THEN 0
                                    ELSE IF hubEntry[k] # 0 THEN refcount[k] - on(k)
                                    ELSE refcount[k]]
     /\ hubEntry' = [k \in Keys |-> IF gone(k) THEN 0 ELSE hubEntry[k]]
     /\ upstream' = [g \in Streams |->
                       IF \E k \in Keys : gone(k) /\ hubEntry[k] = g THEN "over" ELSE upstream[g]]
     /\ chan' = [r \in Forwards |-> IF r \in rs THEN 0 ELSE chan[r]]
     /\ unread' = [r \in Forwards |-> IF r \in rs THEN 0 ELSE unread[r]]
     /\ lagged' = [r \in Forwards |-> lagged[r] /\ r \notin rs]
     /\ UNCHANGED opened

(* run_stream: a line is broadcast to the receivers; a receiver that is a  *)
(* whole buffer behind loses its oldest line.  The request may fail, be    *)
(* refused, or its body may end or break off: the task just returns.       *)
StreamLine(g) ==
  LET readers == {r \in Forwards : chan[r] = g}
      behind  == {r \in readers : unread[r] = BroadcastBuffer}
  IN /\ upstream[g] = "running"
     /\ lagged' = [r \in Forwards |-> lagged[r] \/ r \in behind]
     /\ unread' = [r \in Forwards |-> IF r \in readers \ behind THEN unread[r] + 1 ELSE unread[r]]
     /\ UNCHANGED <<hubEntry, refcount, upstream, opened, chan>>

StreamOver(g) ==
  /\ upstream[g] = "running"
  /\ upstream' = [upstream EXCEPT ![g] = "over"]
  /\ UNCHANGED <<hubEntry, refcount, opened, chan, unread, lagged>>

(* broadcast::Receiver::recv, by result: a line, Lagged, or Closed once no *)
(* sender is left.  The map entry holds one sender, the task the other.    *)
HubLine(r) == chan[r] # 0 /\ ~lagged[r] /\ unread[r] > 0
HubEnded(r) ==
  /\ chan[r] # 0
  /\ lagged[r] \/ (unread[r] = 0 /\ upstream[chan[r]] = "over" /\ hubEntry[KeyOf[r]] # chan[r])
=============================================================================
