---------------------------- MODULE Coordination ----------------------------
(***************************************************************************)
(* The parts around the swarm: the browsers' channels, tasks, gossip,      *)
(* peers, the engines and the vector databases, rovers and their station,  *)
(* and the replicated objects.  In the code they share no state and none   *)
(* of them waits for another, so that a behaviour of all of them is one of *)
(* each; here one is chosen and the others stand still.                    *)
(***************************************************************************)
EXTENDS Channels, Tasks, Gossip, Peers, Engines, Field, Replicas, MvReg

VARIABLE part    \* the one that is looked at

coordinationVars ==
  <<part, channelVars, taskVars, gossipVars, peerVars, engineVars, fieldVars, replicaVars, mvVars>>

TypeOK ==
  /\ ChannelTypeOK /\ TasksTypeOK /\ GossipTypeOK /\ PeersTypeOK
  /\ EnginesTypeOK /\ FieldTypeOK /\ ReplicasTypeOK /\ MvTypeOK

\* The kind of the replicas is chosen where it matters.
Init ==
  /\ part \in {"swarm channel", "alert channel", "tasks", "gossip", "peers",
              "router", "search", "field", "replicas", "register"}
  /\ ChannelInit /\ TasksInit /\ GossipInit /\ PeersInit
  /\ EnginesInit /\ FieldInit /\ ReplicasInit /\ MvInit
  /\ part # "replicas" => kind = CHOOSE k \in Kinds : TRUE

Next ==
  /\ UNCHANGED part
  /\ \/ /\ part = "swarm channel" /\ SwarmChannelNext
        /\ UNCHANGED <<taskVars, gossipVars, peerVars, engineVars, fieldVars, replicaVars, mvVars>>
     \/ /\ part = "alert channel" /\ AlertChannelNext
        /\ UNCHANGED <<taskVars, gossipVars, peerVars, engineVars, fieldVars, replicaVars, mvVars>>
     \/ /\ part = "tasks" /\ TasksNext
        /\ UNCHANGED <<channelVars, gossipVars, peerVars, engineVars, fieldVars, replicaVars, mvVars>>
     \/ /\ part = "gossip" /\ GossipNext
        /\ UNCHANGED <<channelVars, taskVars, peerVars, engineVars, fieldVars, replicaVars, mvVars>>
     \/ /\ part = "peers" /\ PeersNext
        /\ UNCHANGED <<channelVars, taskVars, gossipVars, engineVars, fieldVars, replicaVars, mvVars>>
     \/ /\ part = "router" /\ RouterNext
        /\ UNCHANGED <<channelVars, taskVars, gossipVars, peerVars, fieldVars, replicaVars, mvVars>>
     \/ /\ part = "search" /\ SearchNext
        /\ UNCHANGED <<channelVars, taskVars, gossipVars, peerVars, fieldVars, replicaVars, mvVars>>
     \/ /\ part = "field" /\ FieldNext
        /\ UNCHANGED <<channelVars, taskVars, gossipVars, peerVars, engineVars, replicaVars, mvVars>>
     \/ /\ part = "replicas" /\ ReplicasNext
        /\ UNCHANGED <<channelVars, taskVars, gossipVars, peerVars, engineVars, fieldVars, mvVars>>
     \/ /\ part = "register" /\ MvNext
        /\ UNCHANGED <<channelVars, taskVars, gossipVars, peerVars, engineVars, fieldVars, replicaVars>>

Spec == Init /\ [][Next]_coordinationVars /\ ChannelFairness
=============================================================================
