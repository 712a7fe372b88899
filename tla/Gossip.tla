------------------------------- MODULE Gossip -------------------------------
(***************************************************************************)
(* swarm/gossip.py: messages spread by relays that count down the hops     *)
(* that are left.  A node buffers what it originates and what it hears for *)
(* the first time; its dissemination loop takes a batch off the buffer and *)
(* sends it to some peers, awaiting the callbacks after each send.  The    *)
(* hops of a buffered message are kept in the one object that all sends    *)
(* of the batch share; what arrives is a copy.                             *)
(***************************************************************************)
EXTENDS Integers, Sequences, SequencesExt

CONSTANTS Mate,         \* the nodes
          Rumour,       \* ids of messages
          Views,        \* the sets of nodes that a node may be told of
          Fanout, Hops, \* GOSSIP_FANOUT, and the ttl a new message is given
          BatchSize,    \* messages taken at a time, 50
          SeenLimit, SeenKept,    \* 10000 and 5000
          MaxOrigins    \* bound on the messages originated

ASSUME GossipAssumption ==
  /\ Views \subseteq SUBSET Mate
  /\ Fanout \in Nat /\ Hops \in Nat \ {0} /\ BatchSize \in Nat \ {0}
  /\ SeenLimit \in Nat /\ SeenKept \in Nat /\ SeenKept <= SeenLimit /\ MaxOrigins \in Nat

VARIABLES buffer, seen,      \* of each node
          batch, targets,    \* what its loop is sending, and the sends left: to
                             \* whom, and which of the batch
          net,          \* sends under way
          origins,      \* history: how often each id was originated
          sent, buffered,  \* history: sends of each id; how often a node buffered it
          forgot        \* history: the ids dropped from the set of those a node has seen

gossipVars == <<buffer, seen, batch, targets, net, origins, sent, buffered, forgot>>

Message == [id : Rumour, ttl : -Fanout * BatchSize..Hops]

GossipTypeOK ==
  /\ buffer \in [Mate -> Seq(Message)] /\ batch \in [Mate -> Seq(Message)]
  /\ seen \in [Mate -> SUBSET Rumour]
  /\ targets \in [Mate -> Seq(Mate \X (1..BatchSize))]
  /\ \A p \in net : p.to \in Mate /\ p.msg \in Message /\ p.no \in Nat
  /\ origins \in [Rumour -> Nat] /\ sent \in [Rumour -> Nat]
  /\ buffered \in [Mate -> [Rumour -> Nat]] /\ forgot \in [Mate -> SUBSET Rumour]

GossipInit ==
  /\ buffer = [n \in Mate |-> <<>>] /\ seen = [n \in Mate |-> {}]
  /\ batch = [n \in Mate |-> <<>>] /\ targets = [n \in Mate |-> <<>>]
  /\ net = {} /\ origins = [m \in Rumour |-> 0]
  /\ sent = [m \in Rumour |-> 0] /\ buffered = [n \in Mate |-> [m \in Rumour |-> 0]]
  /\ forgot = [n \in Mate |-> {}]

Buffer(n, msg) ==
  /\ buffer' = [buffer EXCEPT ![n] = Append(@, msg)]
  /\ buffered' = [buffered EXCEPT ![n][msg.id] = @ + 1]

\* gossip(): of too many ids any half is kept, the new one or not.
Originate(n, m) ==
  /\ m \notin seen[n] /\ FoldFunction(+, 0, origins) < MaxOrigins
  /\ Buffer(n, [id |-> m, ttl |-> Hops])
  /\ \E kept \in SUBSET (seen[n] \cup {m}) :
       /\ kept = seen[n] \cup {m} \/ Cardinality(kept) = SeenKept
       /\ kept = seen[n] \cup {m} <=> Cardinality(seen[n] \cup {m}) <= SeenLimit
       /\ seen' = [seen EXCEPT ![n] = kept]
       /\ forgot' = [forgot EXCEPT ![n] = @ \cup ((seen[n] \cup {m}) \ kept)]
  /\ origins' = [origins EXCEPT ![m] = @ + 1]
  /\ UNCHANGED <<batch, targets, net, sent>>

\* The loop is at rest between two rounds; after stop() it stays so.
Resting(n) == targets[n] = <<>>

\* update_peers() may have named any view last, and leaves out the node itself.
PeersOf(n) == {view \ {n} : view \in Views}

\* disseminate(): a round begins, the batch leaves the buffer, a sample of the peers is
\* drawn.
TakeBatch(n) ==
  LET size == IF Len(buffer[n]) < BatchSize THEN Len(buffer[n]) ELSE BatchSize IN
  /\ Resting(n) /\ buffer[n] # <<>>
  /\ batch' = [batch EXCEPT ![n] = SubSeq(buffer[n], 1, size)]
  /\ buffer' = [buffer EXCEPT ![n] = SubSeq(@, size + 1, Len(@))]
  /\ \E peers \in PeersOf(n), many \in 1..Fanout : \E sample \in [1..many -> peers] :
       /\ IsInjective(sample)
       /\ many = Fanout \/ many = Cardinality(peers)
       /\ targets' = [targets EXCEPT ![n] =
            [k \in 1..(many * size) |-> <<sample[1 + ((k - 1) \div size)], 1 + ((k - 1) % size)>>]]
  /\ UNCHANGED <<seen, net, origins, sent, buffered, forgot>>

\* Mutant: every target is sent the message with all its hops.
SendAll(n) ==
  /\ targets[n] # <<>>
  /\ LET to == Head(targets[n])[1] IN LET msg == batch[n][Head(targets[n])[2]] IN
     /\ sent' = [sent EXCEPT ![msg.id] = @ + 1]
     /\ net' = net \cup {[to |-> to, msg |-> msg, no |-> sent[msg.id]]}
  /\ targets' = [targets EXCEPT ![n] = Tail(@)]
  /\ UNCHANGED <<buffer, seen, batch, origins, buffered, forgot>>

\* The next of the sends: it costs a hop, and is made if there was one left.
SendNext(n) ==
  /\ targets[n] # <<>>
  /\ LET to == Head(targets[n])[1] IN LET i == Head(targets[n])[2] IN
     LET msg == [batch[n][i] EXCEPT !.ttl = @ - 1] IN
     /\ batch' = [batch EXCEPT ![n] = IF Len(targets[n]) = 1 THEN <<>> ELSE [@ EXCEPT ![i] = msg]]
     /\ IF msg.ttl >= 0
        THEN /\ sent' = [sent EXCEPT ![msg.id] = @ + 1]
             /\ net' = net \cup {[to |-> to, msg |-> msg, no |-> sent[msg.id]]}
        ELSE UNCHANGED <<sent, net>>
  /\ targets' = [targets EXCEPT ![n] = Tail(@)]
  /\ UNCHANGED <<buffer, seen, origins, buffered, forgot>>

\* receive()
Receive(p) ==
  /\ net' = net \ {p}
  /\ seen' = [seen EXCEPT ![p.to] = @ \cup {p.msg.id}]
  /\ IF p.msg.id \notin seen[p.to] /\ p.msg.ttl > 0
     THEN Buffer(p.to, [p.msg EXCEPT !.ttl = @ - 1])
     ELSE UNCHANGED <<buffer, buffered>>
  /\ UNCHANGED <<batch, targets, origins, sent, forgot>>

\* A callback raises, or what it sent does not arrive.
Lose(p) ==
  /\ net' = net \ {p}
  /\ UNCHANGED <<buffer, seen, batch, targets, origins, sent, buffered, forgot>>

GossipNext ==
  \/ \E n \in Mate :
       \/ TakeBatch(n) \/ SendNext(n)
       \/ \E m \in Rumour : Originate(n, m)
  \/ \E p \in net : Receive(p) \/ Lose(p)

GossipSpec == GossipInit /\ [][GossipNext]_gossipVars
-----------------------------------------------------------------------------
(* Properties *)

\* The sends one message of t hops can cause anywhere: its node spends the hops on its
\* targets, and each of these has those that are left, less the one for hearing it.
Cost[t \in 0..Hops] == IF t < 2 THEN t ELSE Cost[t - 1] + Cost[t - 2] + 1

\* The hops bound the traffic: however the relays are timed, peers change, sends fail
\* and ids are forgotten, a message causes no more sends than its hops pay for; and
\* who has not forgotten its id does not relay it twice.
RumoursDie ==
  \A m \in Rumour :
    /\ sent[m] <= origins[m] * Cost[Hops]
    /\ \A n \in Mate : m \notin forgot[n] => buffered[n][m] <= 1
=============================================================================
